------------------------------ MODULE PoolMath ------------------------------
(***************************************************************************)
(* The fixed-width arithmetic of the program's math/ directory, at any     *)
(* word size.  WORD stands for 2^64: an amount of tokens is a u64 below    *)
(* WORD, liquidity and growth are u128 below WORD^2, intermediate products *)
(* are U256 below WORD^4, and a square-root price is a fixed-point number  *)
(* with WORD as its unit (Q64.64).                                         *)
(*                                                                         *)
(* A Result is the value or Err: every error aborts the instruction, so    *)
(* which error it is does not matter.  Where the code adds or subtracts    *)
(* without a check, or asks for wrapping, the operator wraps.              *)
(***************************************************************************)
EXTENDS TickIndex

CONSTANTS
    WORD,                         \* 2^64 in the program
    SqrtPrice,                    \* sqrt price of every tick index
    FEE_RATE_MUL_VALUE,           \* 1_000_000
    PROTOCOL_FEE_RATE_MUL_VALUE   \* 10_000

ASSUME WordAssumption == WORD \in Nat /\ WORD > 1

ASSUME FeeAssumption ==
    /\ FEE_RATE_MUL_VALUE \in Nat \ {0}
    /\ PROTOCOL_FEE_RATE_MUL_VALUE \in Nat \ {0}

\* sqrt_price_from_tick_index is strictly increasing and fits its type.
ASSUME TickPriceAssumption ==
    /\ SqrtPrice \in [MIN_TICK_INDEX..MAX_TICK_INDEX -> 1..WORD * WORD - 1]
    /\ \A s, t \in MIN_TICK_INDEX..MAX_TICK_INDEX : s < t => SqrtPrice[s] < SqrtPrice[t]

\* Prices are below 2^96: the square of the highest is below the cube of 2^64.
ASSUME PriceWidthAssumption ==
    SqrtPrice[MAX_TICK_INDEX] * SqrtPrice[MAX_TICK_INDEX] <= WORD * WORD * WORD

Err == -1

U64MAX == WORD - 1
U128MAX == WORD * WORD - 1
I128MAX == (WORD * WORD) \div 2 - 1
U256MAX == WORD * WORD * WORD * WORD - 1

U64 == 0..U64MAX
U128 == 0..U128MAX

WrapU64(x) == x % WORD
WrapU128(x) == x % (WORD * WORD)

\* A value that must fit a width, or else is an error.
Checked(x, max) == IF x > max \/ x < 0 THEN Err ELSE x

-----------------------------------------------------------------------------
(* bit_math.rs *)

DivRound(n, d, round_up) == (n \div d) + (IF round_up /\ n % d > 0 THEN 1 ELSE 0)

checked_mul_div_round_up_if(n0, n1, d, round_up) ==
    IF d = 0 \/ n0 * n1 > U128MAX THEN Err ELSE DivRound(n0 * n1, d, round_up)

checked_mul_div(n0, n1, d) == checked_mul_div_round_up_if(n0, n1, d, FALSE)

checked_mul_div_round_up(n0, n1, d) == checked_mul_div_round_up_if(n0, n1, d, TRUE)

checked_mul_shift_right_round_up_if(n0, n1, round_up) ==
    IF n0 * n1 > U128MAX THEN Err ELSE Checked(DivRound(n0 * n1, WORD, round_up), U64MAX)

checked_mul_shift_right(n0, n1) == checked_mul_shift_right_round_up_if(n0, n1, FALSE)

div_round_up_if(n, d, round_up) == IF d = 0 THEN Err ELSE DivRound(n, d, round_up)

-----------------------------------------------------------------------------
(* tick_math.rs *)

MIN_SQRT_PRICE_X64 == SqrtPrice[MIN_TICK_INDEX]
MAX_SQRT_PRICE_X64 == SqrtPrice[MAX_TICK_INDEX]

sqrt_price_from_tick_index(t) == SqrtPrice[t]

\* Mutant: the least tick whose price is not below p.
TickAtOrAbovePrice(p) ==
    CHOOSE t \in MIN_TICK_INDEX..MAX_TICK_INDEX :
        /\ SqrtPrice[t] >= p
        /\ t > MIN_TICK_INDEX => p > SqrtPrice[t - 1]

\* The greatest tick whose price is not above p.
tick_index_from_sqrt_price(p) ==
    CHOOSE t \in MIN_TICK_INDEX..MAX_TICK_INDEX :
        /\ SqrtPrice[t] <= p
        /\ t < MAX_TICK_INDEX => p < SqrtPrice[t + 1]

-----------------------------------------------------------------------------
(* token_math.rs *)

PriceGap(p0, p1) == IF p0 > p1 THEN p0 - p1 ELSE p1 - p0

\* Tokens of kind a that the pool holds between two prices.
get_amount_delta_a(p0, p1, liquidity, round_up) ==
    LET numerator == liquidity * PriceGap(p0, p1) * WORD
    IN  IF numerator > U256MAX \/ p0 * p1 = 0 THEN Err
        ELSE Checked(DivRound(numerator, p0 * p1, round_up), U64MAX)

\* Tokens of kind b that the pool holds between two prices.
get_amount_delta_b(p0, p1, liquidity, round_up) ==
    checked_mul_shift_right_round_up_if(liquidity, PriceGap(p0, p1), round_up)

get_next_sqrt_price_from_a_round_up(p, liquidity, amount, is_input) ==
    LET numerator == liquidity * p * WORD
        denominator == IF is_input THEN liquidity * WORD + p * amount
                                   ELSE liquidity * WORD - p * amount
        price == DivRound(numerator, denominator, TRUE)
    IN  IF amount = 0 THEN p
        ELSE IF numerator > U256MAX \/ denominator <= 0 THEN Err
        ELSE IF price < MIN_SQRT_PRICE_X64 \/ price > MAX_SQRT_PRICE_X64 THEN Err
        ELSE price

get_next_sqrt_price_from_b_round_down(p, liquidity, amount, is_input) ==
    LET delta == div_round_up_if(amount * WORD, liquidity, ~is_input)
    IN  IF delta = Err THEN Err
        ELSE Checked(IF is_input THEN p + delta ELSE p - delta, U128MAX)

get_next_sqrt_price(p, liquidity, amount, is_input, a_to_b) ==
    IF is_input = a_to_b
    THEN get_next_sqrt_price_from_a_round_up(p, liquidity, amount, is_input)
    ELSE get_next_sqrt_price_from_b_round_down(p, liquidity, amount, is_input)

-----------------------------------------------------------------------------
(* liquidity_math.rs *)

add_liquidity_delta(liquidity, delta) == Checked(liquidity + delta, U128MAX)

\* The error of convert_to_liquidity_delta.
LiquidityTooHigh(amount) == amount > I128MAX

convert_to_liquidity_delta(amount, positive) == IF positive THEN amount ELSE -amount

-----------------------------------------------------------------------------
(* swap_math.rs *)

\* The side whose amount the caller fixed: input rounds up, output down.
get_amount_fixed_delta(p0, p1, liquidity, is_input, a_to_b) ==
    IF a_to_b = is_input THEN get_amount_delta_a(p0, p1, liquidity, is_input)
                         ELSE get_amount_delta_b(p0, p1, liquidity, is_input)

\* Mutant: both sides round the way the fixed side does.
UnfixedDeltaSameRounding(p0, p1, liquidity, is_input, a_to_b) ==
    IF a_to_b = is_input THEN get_amount_delta_b(p0, p1, liquidity, is_input)
                         ELSE get_amount_delta_a(p0, p1, liquidity, is_input)

get_amount_unfixed_delta(p0, p1, liquidity, is_input, a_to_b) ==
    IF a_to_b = is_input THEN get_amount_delta_b(p0, p1, liquidity, ~is_input)
                         ELSE get_amount_delta_a(p0, p1, liquidity, ~is_input)

\* What is left of the remaining amount to move the price with.
AmountCalc(remaining, fee_rate, is_input) ==
    IF is_input
    THEN checked_mul_div(remaining, FEE_RATE_MUL_VALUE - fee_rate, FEE_RATE_MUL_VALUE)
    ELSE remaining

\* The target, if the amount reaches it, or else the price it moves to.
NextPrice(calc, fixedDelta, liquidity, current, target, is_input, a_to_b) ==
    IF calc >= fixedDelta THEN target
    ELSE get_next_sqrt_price(current, liquidity, calc, is_input, a_to_b)

\* All that remains of a given input when the step ends short of its target.
StepFee(remaining, in, fee_rate, is_input, isMax) ==
    IF is_input /\ ~isMax THEN WrapU64(remaining - in)
    ELSE Checked(checked_mul_div_round_up(in, fee_rate, FEE_RATE_MUL_VALUE - fee_rate), U64MAX)

StepError == [error |-> TRUE, amount_in |-> 0, amount_out |-> 0,
              next_price |-> 0, fee_amount |-> 0]

\* One step of a swap, from the current price towards the target price, with
\* constant liquidity.
compute_swap(remaining, fee_rate, liquidity, current, target, is_input, a_to_b) ==
    LET fixedToTarget ==
            get_amount_fixed_delta(current, target, liquidity, is_input, a_to_b)
        calc == AmountCalc(remaining, fee_rate, is_input)
        next == NextPrice(calc, fixedToTarget, liquidity, current, target, is_input, a_to_b)
        isMax == next = target
        unfixed == get_amount_unfixed_delta(current, next, liquidity, is_input, a_to_b)
        fixed == IF isMax THEN fixedToTarget
                 ELSE get_amount_fixed_delta(current, next, liquidity, is_input, a_to_b)
        in == IF is_input THEN fixed ELSE unfixed
        out == IF is_input THEN unfixed
               ELSE IF fixed > remaining THEN remaining ELSE fixed
        fee == StepFee(remaining, in, fee_rate, is_input, isMax)
    IN  IF \/ fixedToTarget = Err \/ calc = Err \/ next = Err
           \/ unfixed = Err \/ fixed = Err \/ fee = Err
        THEN StepError
        ELSE [error |-> FALSE, amount_in |-> in, amount_out |-> out,
              next_price |-> next, fee_amount |-> fee]

=============================================================================
