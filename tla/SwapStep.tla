------------------------------ MODULE SwapStep ------------------------------
(***************************************************************************)
(* One call of compute_swap, on every argument of a bounded range: what    *)
(* the swap loop and the owners of the pool's tokens rely on.              *)
(***************************************************************************)
EXTENDS PoolMath

CONSTANTS
    StepPrices,    \* current and target sqrt prices
    Liquidities,   \* liquidity of the pool at the current price
    StepAmounts,   \* amounts remaining of a swap in progress
    FeeRates       \* fee rates of the pool

\* The arguments the program's callers can pass: a price is never 0, the fee
\* rate is below its denominator.
StepInputs ==
    /\ StepPrices \subseteq 1..U128MAX
    /\ Liquidities \subseteq U128
    /\ StepAmounts \subseteq U64
    /\ FeeRates \subseteq 0..FEE_RATE_MUL_VALUE - 1

VARIABLES
    call,    \* the arguments
    result   \* the computation, or Pending before it

stepVars == <<call, result>>

Pending == [error |-> TRUE, amount_in |-> -1, amount_out |-> -1,
            next_price |-> -1, fee_amount |-> -1]

\* The target is on the side of the current price the swap moves to.
StepInit ==
    /\ call \in [remaining : StepAmounts, fee_rate : FeeRates, liquidity : Liquidities,
                 current : StepPrices, target : StepPrices,
                 is_input : BOOLEAN, a_to_b : BOOLEAN]
    /\ IF call.a_to_b THEN call.target <= call.current ELSE call.target >= call.current
    /\ result = Pending

Compute ==
    /\ result = Pending
    /\ result' = compute_swap(call.remaining, call.fee_rate, call.liquidity,
                              call.current, call.target, call.is_input, call.a_to_b)
    /\ UNCHANGED call

StepNext == Compute

StepSpec == StepInit /\ [][StepNext]_stepVars

-----------------------------------------------------------------------------
\* A computation that did not fail.
Computed == ~result.error

\* The step never moves the price past its target nor backwards, whichever
\* way the next price was rounded: the loop's test for having reached a tick
\* is an equality.
NoOvershoot ==
    Computed => IF call.a_to_b THEN result.next_price \in call.target..call.current
                          ELSE result.next_price \in call.current..call.target

\* The step takes (input given) or pays (output given) at most what remains
\* of the swap, and exactly that when it stops short of its target: the loop
\* can neither fail with AmountRemainingOverflow nor go on without progress.
RemainingRespected ==
    Computed =>
        LET used == IF call.is_input THEN result.amount_in + result.fee_amount
                                     ELSE result.amount_out
        IN  /\ used <= call.remaining
            /\ result.next_price # call.target => used = call.remaining

\* What the pool holds of a between two prices is liquidity * gap * WORD over
\* the product of the prices, and of b liquidity * gap over WORD.  The trader
\* pays at least the exact amount of the price move and receives at most that:
\* the rounding of amounts and of the price never costs the pool a token.
PoolNeverLoses ==
    Computed =>
        LET gap == PriceGap(call.current, result.next_price)
            product == call.current * result.next_price
            a == IF call.a_to_b THEN result.amount_in ELSE result.amount_out
            b == IF call.a_to_b THEN result.amount_out ELSE result.amount_in
            exactA == call.liquidity * gap * WORD
            exactB == call.liquidity * gap
        IN  IF call.a_to_b THEN a * product >= exactA /\ b * WORD <= exactB
                      ELSE a * product <= exactA /\ b * WORD >= exactB

\* The fee is never less than the pool's rate of all that the trader pays,
\* however small the amount.
FeeAtLeastRate ==
    Computed => result.fee_amount * FEE_RATE_MUL_VALUE
                    >= (result.amount_in + result.fee_amount) * call.fee_rate

\* A step of the swap: the price stops between current and target, the step
\* takes what remains or reaches its target, rounding never costs the pool a
\* token, and the fee is never below the pool's rate.
StepSound == NoOvershoot /\ RemainingRespected /\ PoolNeverLoses /\ FeeAtLeastRate

=============================================================================
