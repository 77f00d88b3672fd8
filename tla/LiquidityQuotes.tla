-------------------------- MODULE LiquidityQuotes --------------------------
(***************************************************************************)
(* Deposits and withdrawals from their quote (quotes/public/increase- and  *)
(* decrease-liquidity-quote.ts) to their execution by the program          *)
(* (v2/increase_liquidity.rs, v2/decrease_liquidity.rs).  In between       *)
(* others may swap: the price moves, within the tolerance quoted for.      *)
(*                                                                         *)
(* The tolerance is on the amounts, or on the price ("price slippage").    *)
(***************************************************************************)
EXTENDS SdkMath, TransferFee, FiniteSetsExt

CONSTANTS
    Prices,      \* prices of the pool when a quote is asked for
    Asks,        \* what is asked for: kind, on, ticks, amount, slippage, fees
    NoValue

VARIABLES
    pool,        \* sqrt_price and tick
    ask,
    phase,       \* what happened last
    quote        \* lower, upper, liquidity, estimates and limits

vars == <<pool, ask, phase, quote>>

Sides == {"a", "b"}

-----------------------------------------------------------------------------
(* tick-utils.ts, price-math.ts *)

\* The remainder of a negative number is negative in JavaScript.
getInitializableTickIndex(t) ==
    IF t >= 0 THEN t - (t % TickSpacing) ELSE t + ((-t) % TickSpacing)

checkTickInBounds(t) == t \in MIN_TICK_INDEX..MAX_TICK_INDEX

\* p * sqrt(n / d), rounded towards 0, as all decimals of the SDK are.
TimesRoot(p, n, d) ==
    CHOOSE x \in 0..2 * p : x * x * d <= p * p * n /\ p * p * n < (x + 1) * (x + 1) * d

ClampPrice(p) == Min({Max({p, MIN_SQRT_PRICE_X64}), MAX_SQRT_PRICE_X64})

getSlippageBoundForSqrtPrice(p, slippage) ==
    LET d == slippage.denominator
    IN  [lower |-> ClampPrice(TimesRoot(p, d - slippage.numerator, d)),
         upper |-> ClampPrice(TimesRoot(p, d + slippage.numerator, d))]

-----------------------------------------------------------------------------
(* position-util.ts *)

getStrictPositionStatus(p, lower, upper) ==
    IF p <= SqrtPrice[lower] THEN "BelowRange"
    ELSE IF p >= SqrtPrice[upper] THEN "AboveRange" ELSE "InRange"

\* Division by zero throws.
getLiquidityFromTokenA(amount, p0, p1) ==
    IF p0 = p1 THEN Err ELSE ((amount * p0 * p1) \div (p1 - p0)) \div WORD

getLiquidityFromTokenB(amount, p0, p1) ==
    IF p0 = p1 THEN Err ELSE (amount * WORD) \div (p1 - p0)

getTokenAFromLiquidity(liquidity, p0, p1, roundUp) ==
    DivRound(liquidity * PriceGap(p0, p1) * WORD, p0 * p1, roundUp)

getTokenBFromLiquidity(liquidity, p0, p1, roundUp) ==
    DivRound(liquidity * PriceGap(p0, p1), WORD, roundUp)

\* Mutant: what is to be paid rounds down as what is to be received.
EstimatesRoundDown(liquidity, p, lower, upper, roundUp) ==
    LET from == Max({SqrtPrice[lower], Min({p, SqrtPrice[upper]})})
    IN  [a |-> getTokenAFromLiquidity(liquidity, from, SqrtPrice[upper], FALSE),
         b |-> getTokenBFromLiquidity(liquidity, SqrtPrice[lower], from, FALSE)]

\* getTokenEstimatesFromLiquidity: tokens of kind a from the price, or the
\* lower end above it, to the upper end, and of kind b from the lower end up.
TokenEstimates(liquidity, p, lower, upper, roundUp) ==
    LET status == getStrictPositionStatus(p, lower, upper)
        from == CASE status = "BelowRange" -> SqrtPrice[lower]
                  [] status = "InRange" -> p
                  [] status = "AboveRange" -> SqrtPrice[upper]
    IN  [a |-> getTokenAFromLiquidity(liquidity, from, SqrtPrice[upper], roundUp),
         b |-> getTokenBFromLiquidity(liquidity, SqrtPrice[lower], from, roundUp)]

\* The same at the price and at both bounds of the tolerance.
AtBounds(liquidity, p, lower, upper, slippage, roundUp) ==
    LET bounds == getSlippageBoundForSqrtPrice(p, slippage)
    IN  {TokenEstimates(liquidity, q, lower, upper, roundUp) : q \in {p, bounds.lower, bounds.upper}}

-----------------------------------------------------------------------------
(* increase-liquidity-quote.ts *)

Fee(side) == IF side = "a" THEN ask.feeA ELSE ask.feeB

Included(amounts) ==
    [s \in Sides |-> calculateTransferFeeIncludedAmount(Fee(s), amounts[s])]

Excluded(amounts) ==
    [s \in Sides |-> calculateTransferFeeExcludedAmount(Fee(s), amounts[s])]

\* Whether a range takes a token at this price.
Takes(side, status) == status # (IF side = "a" THEN "AboveRange" ELSE "BelowRange")

\* The liquidity of an amount of one token, from the price to the range's end.
LiquidityOf(side, amount, p, lower, upper) ==
    IF ~Takes(side, getStrictPositionStatus(p, lower, upper)) THEN 0
    ELSE IF side = "a"
    THEN getLiquidityFromTokenA(amount, Max({p, SqrtPrice[lower]}), SqrtPrice[upper])
    ELSE getLiquidityFromTokenB(amount, SqrtPrice[lower], Min({p, SqrtPrice[upper]}))

\* Mutant: the fee on the input's way to the vault is not set aside.
LiquidityBeforeFee(side, amount, p, lower, upper) == LiquidityOf(side, amount, p, lower, upper)

getLiquidityFromInputToken(side, amount, p, lower, upper) ==
    LiquidityOf(side, calculateTransferFeeExcludedAmount(Fee(side), amount), p, lower, upper)

QuoteOf(lower, upper, liquidity, estimates, limits) ==
    [lower |-> lower, upper |-> upper, liquidity |-> liquidity,
     estimates |-> estimates, limits |-> limits, at |-> pool.sqrt_price]

\* What the arguments of an instruction can hold.
Encodable(q) == q.liquidity \in U128 /\ \A s \in Sides : q.limits[s] \in U64

Thrown(amounts) == \E s \in Sides : amounts[s] = Err

Answer(q) ==
    /\ IF Thrown(q.estimates) \/ Thrown(q.limits)
       THEN phase' = "thrown" /\ UNCHANGED quote
       ELSE phase' = "quoted" /\ quote' = q
    /\ UNCHANGED <<pool, ask>>

Most(amounts) == [s \in Sides |-> Max({n[s] : n \in amounts})]
Least2(amounts) == [s \in Sides |-> Min({n[s] : n \in amounts})]

\* increaseLiquidityQuoteByInputToken: the tolerance is on the amounts.
IncreaseByAmounts(lower, upper, liquidity) ==
    LET est == TokenEstimates(liquidity, pool.sqrt_price, lower, upper, TRUE)
        max == [s \in Sides |-> adjustForSlippage(est[s], ask.slippage, TRUE)]
    IN  Answer(QuoteOf(lower, upper, liquidity, Included(est), Included(max)))

\* Mutant: only the estimate at the present price counts.
IncreaseAtPrice(lower, upper, liquidity) ==
    LET est == TokenEstimates(liquidity, pool.sqrt_price, lower, upper, TRUE)
    IN  Answer(QuoteOf(lower, upper, liquidity, Included(est), Included(est)))

\* increaseLiquidityQuoteByInputTokenUsingPriceSlippage
IncreaseByPrice(lower, upper, liquidity) ==
    LET est == TokenEstimates(liquidity, pool.sqrt_price, lower, upper, TRUE)
        max == Most(AtBounds(liquidity, pool.sqrt_price, lower, upper, ask.slippage, TRUE))
    IN  Answer(QuoteOf(lower, upper, liquidity, Included(est), Included(max)))

\* Only the tolerance on the price asks for a lower tick below the upper one;
\* rounding may have made them the same.
AskIncrease ==
    /\ phase = "asked" /\ ask.kind = "increase"
    /\ \E lower \in {getInitializableTickIndex(ask.lower)} :
       \E upper \in {getInitializableTickIndex(ask.upper)} :
       \E liquidity \in {getLiquidityFromInputToken(ask.side, ask.amount, pool.sqrt_price,
                                                    lower, upper)} :
          IF \/ ~checkTickInBounds(lower) \/ ~checkTickInBounds(upper)
             \/ ask.on = "price" /\ lower >= upper
             \/ liquidity = Err
          THEN phase' = "thrown" /\ UNCHANGED <<pool, ask, quote>>
          ELSE \/ ask.on = "amounts" /\ IncreaseByAmounts(lower, upper, liquidity)
               \/ ask.on = "price" /\ IncreaseByPrice(lower, upper, liquidity)

-----------------------------------------------------------------------------
(* decrease-liquidity-quote.ts; here the amount asked for is liquidity *)

DecreaseByAmounts(lower, upper, liquidity) ==
    LET est == TokenEstimates(liquidity, pool.sqrt_price, lower, upper, FALSE)
        min == [s \in Sides |-> adjustForSlippage(est[s], ask.slippage, FALSE)]
    IN  Answer(QuoteOf(lower, upper, liquidity, Excluded(est), Excluded(min)))

DecreaseByPrice(lower, upper, liquidity) ==
    LET est == TokenEstimates(liquidity, pool.sqrt_price, lower, upper, FALSE)
        min == Least2(AtBounds(liquidity, pool.sqrt_price, lower, upper, ask.slippage, FALSE))
    IN  Answer(QuoteOf(lower, upper, liquidity, Excluded(est), Excluded(min)))

\* The ticks are those of a position that exists.
AskDecrease ==
    /\ phase = "asked" /\ ask.kind = "decrease"
    /\ \/ ask.on = "amounts" /\ DecreaseByAmounts(ask.lower, ask.upper, ask.amount)
       \/ ask.on = "price" /\ DecreaseByPrice(ask.lower, ask.upper, ask.amount)

-----------------------------------------------------------------------------
(* The pool *)

\* A swap to the left that ends on a tick leaves the pool left of it.
TicksAt(p) ==
    LET t == tick_index_from_sqrt_price(p) IN IF SqrtPrice[t] = p THEN {t - 1, t} ELSE {t}

\* Others swap, before the quote is used.
Swap ==
    /\ phase = "quoted"
    /\ \E p \in getSlippageBoundForSqrtPrice(quote.at, ask.slippage).lower..
                getSlippageBoundForSqrtPrice(quote.at, ask.slippage).upper :
          \E t \in TicksAt(p) : pool' = [sqrt_price |-> p, tick |-> t]
    /\ phase' = "moved"
    /\ UNCHANGED <<ask, quote>>

\* calculate_liquidity_token_deltas
TokenDeltas(roundUp) ==
    LET l == SqrtPrice[quote.lower]
        u == SqrtPrice[quote.upper]
        p == pool.sqrt_price
    IN  CASE pool.tick < quote.lower ->
                [a |-> get_amount_delta_a(l, u, quote.liquidity, roundUp), b |-> 0]
          [] pool.tick \in quote.lower..quote.upper - 1 ->
                [a |-> get_amount_delta_a(p, u, quote.liquidity, roundUp),
                 b |-> get_amount_delta_b(l, p, quote.liquidity, roundUp)]
          [] pool.tick >= quote.upper ->
                [a |-> 0, b |-> get_amount_delta_b(l, u, quote.liquidity, roundUp)]

\* What the owner pays, transfer fees included.
Deposit ==
    [s \in Sides |-> calculate_transfer_fee_included_amount(Fee(s), TokenDeltas(TRUE)[s])]

\* What the owner receives, transfer fees excluded.
Withdrawal ==
    [s \in Sides |-> calculate_transfer_fee_excluded_amount(Fee(s), TokenDeltas(FALSE)[s])]

Outcome(accepted) ==
    /\ phase' = IF accepted THEN "done" ELSE "refused"
    /\ UNCHANGED <<pool, ask, quote>>

IncreaseLiquidity ==
    /\ phase \in {"quoted", "moved"} /\ ask.kind = "increase"
    /\ quote.liquidity > 0 /\ Encodable(quote)
    /\ Outcome(/\ ~Thrown(TokenDeltas(TRUE)) /\ ~Thrown(Deposit)
               /\ \A s \in Sides : Deposit[s] <= quote.limits[s])

DecreaseLiquidity ==
    /\ phase \in {"quoted", "moved"} /\ ask.kind = "decrease"
    /\ quote.liquidity > 0 /\ Encodable(quote)
    /\ Outcome(/\ ~Thrown(TokenDeltas(FALSE))
               /\ \A s \in Sides : Withdrawal[s] >= quote.limits[s])

-----------------------------------------------------------------------------
Init ==
    /\ ask \in Asks
    /\ \E p \in Prices : \E t \in TicksAt(p) : pool = [sqrt_price |-> p, tick |-> t]
    /\ phase = "asked"
    /\ quote = NoValue

Next ==
    \/ AskIncrease
    \/ AskDecrease
    \/ Swap
    \/ IncreaseLiquidity
    \/ DecreaseLiquidity

Spec == Init /\ [][Next]_vars

\* A pool's price is that of a tick or between two, the client takes amounts that a
\* u64 holds, and tolerances up to 100 %.  With the tolerance on amounts it does
\* not compare the ends of the range: that the lower one comes first is up to
\* the caller.  A withdrawal is from a position that exists.
QuoteInputs ==
    /\ Prices \subseteq MIN_SQRT_PRICE_X64..MAX_SQRT_PRICE_X64
    /\ \A a \in Asks :
          /\ a.slippage.denominator \in Nat \ {0} /\ a.slippage.numerator \in 0..a.slippage.denominator
          /\ a.feeA \in FeeSettings /\ a.feeB \in FeeSettings
          /\ a.kind = "increase" =>
                /\ a.side \in Sides /\ a.lower \in Int /\ a.upper \in Int /\ a.amount \in U64
                /\ a.on = "amounts" =>
                      getInitializableTickIndex(a.lower) <= getInitializableTickIndex(a.upper)
          /\ a.kind = "decrease" =>
                /\ checkTickInBounds(a.lower) /\ checkTickInBounds(a.upper) /\ a.lower < a.upper
                /\ a.amount \in U128

\* What a position holds is within what there is of the tokens, at the price of the
\* quote and wherever the pool may get from there.
PositionsExist ==
    \A a \in Asks, p \in Prices : a.kind = "decrease" =>
        \A q \in {p} \cup getSlippageBoundForSqrtPrice(p, a.slippage).lower..
                           getSlippageBoundForSqrtPrice(p, a.slippage).upper :
            \A s \in Sides : TokenEstimates(a.amount, q, a.lower, a.upper, FALSE)[s] \in U64

-----------------------------------------------------------------------------
\* A quote for an amount of one token never asks for more of that token than
\* the amount, though the tokens are rounded up from a liquidity that was
\* rounded down, and the mint's fee is set aside first and added again after.
WithinInput ==
    phase = "quoted" /\ ask.kind = "increase" => quote.estimates[ask.side] <= ask.amount

\* The estimates are what the program will move while nobody swaps, though the
\* SDK compares prices and the program compares ticks, which may lie on either
\* side of a price that is exactly theirs.
EstimateExact ==
    phase = "quoted" /\ quote.liquidity > 0 /\ Encodable(quote) =>
        quote.estimates = IF ask.kind = "increase" THEN Deposit ELSE Withdrawal

\* With the tolerance on the price, the limits hold wherever within it the price
\* has gone, into, out of or across the range; with the tolerance on amounts
\* they hold as long as it has not moved.
LimitsCover ==
    phase = "refused" => ask.on = "amounts" /\ pool.sqrt_price # quote.at

=============================================================================
