---------------------------- MODULE CalculationProofs ----------------------------
(***************************************************************************)
(* Calculations, at every word size and for every range of ticks: one step *)
(* of a swap (SwapStep), what is sent for an amount to arrive through a    *)
(* mint with a transfer fee (FeeRoundTrip), and quotes for deposits and    *)
(* withdrawals (LiquidityQuotes): a deposit's stays within the amount it   *)
(* is asked for; estimates are what the program moves, because the two     *)
(* roundings and the two comparisons (of prices, of ticks) agree; limits   *)
(* hold at any price within the tolerance, because estimates and fees are  *)
(* monotone.  Then the walk of a swap (TickWalk): whatever the arrays, it  *)
(* crosses every initialised tick it passes, and meets them in order.      *)
(* Last the partition that keeps the best routes (Selection).              *)
(***************************************************************************)
EXTENDS SwapStep, TickWalk, FeeRoundTrip, LiquidityQuotes, Selection, OperatorProofs

-----------------------------------------------------------------------------
(* One step of a swap *)

Computation ==
    compute_swap(call.remaining, call.fee_rate, call.liquidity,
                 call.current, call.target, call.is_input, call.a_to_b)

\* The call does not change, and the result is what was computed from it.
StepInv ==
    /\ call \in [remaining : StepAmounts, fee_rate : FeeRates, liquidity : Liquidities,
                 current : StepPrices, target : StepPrices, is_input : BOOLEAN, a_to_b : BOOLEAN]
    /\ Towards(call.current, call.target, call.a_to_b)
    /\ result = Pending \/ result = Computation

LEMMA StepInvInit == StepInit => StepInv
  BY DEF StepInit, StepInv, Towards

LEMMA StepInvNext == StepInv /\ [StepNext]_stepVars => StepInv'
  <1> SUFFICES ASSUME StepInv, [StepNext]_stepVars PROVE StepInv'
    OBVIOUS
  <1>1. call' = call /\ (result' = result \/ result' = Computation)
    BY DEF StepNext, Compute, stepVars, Computation
  <1>2. Computation' = Computation
    BY <1>1, Zenon DEF Computation
  <1> QED BY <1>1, <1>2, Zenon DEF StepInv

\* compute_swap on these arguments, in the terms of OperatorProofs.
LEMMA StepComputed ==
    ASSUME StepInputs, StepInv, ~result.error
    PROVE  /\ StepResult(result, call.remaining, call.fee_rate, call.liquidity, call.current,
                         call.target, call.is_input, call.a_to_b)
           /\ call.current \in Nat \ {0} /\ call.target \in Nat \ {0}
           /\ call.is_input \in BOOLEAN /\ call.a_to_b \in BOOLEAN
  <1> DEFINE remaining == call.remaining
             fee_rate == call.fee_rate
             L == call.liquidity
             p == call.current
             t == call.target
             is_input == call.is_input
             a_to_b == call.a_to_b
  <1>1. /\ remaining \in U64 /\ fee_rate \in 0..FEE_RATE_MUL_VALUE - 1
        /\ L \in U128 /\ p \in 1..U128MAX /\ t \in 1..U128MAX
        /\ is_input \in BOOLEAN /\ a_to_b \in BOOLEAN
    BY Zenon DEF StepInputs, StepInv
  <1>2. /\ result = compute_swap(remaining, fee_rate, L, p, t, is_input, a_to_b)
        /\ Towards(p, t, a_to_b)
    BY DEF StepInv, Pending, Computation
  <1> HIDE DEF remaining, fee_rate, L, p, t, is_input, a_to_b
  <1>3. L \in Nat
    BY <1>1, Widths, Zenon
  <1>4. p \in Nat \ {0} /\ t \in Nat \ {0}
    BY <1>1
  <1>5. StepResult(result, remaining, fee_rate, L, p, t, is_input, a_to_b)
    BY <1>1, <1>2, <1>3, <1>4, StepFacts
  <1> QED BY <1>1, <1>4, <1>5 DEF remaining, fee_rate, L, p, t, is_input, a_to_b

LEMMA StepInvSound == ASSUME StepInputs, StepInv PROVE StepSound
  <1> SUFFICES ASSUME ~result.error
               PROVE  NoOvershoot /\ RemainingRespected /\ PoolNeverLoses /\ FeeAtLeastRate
    BY Zenon DEF StepSound, NoOvershoot, RemainingRespected, PoolNeverLoses, FeeAtLeastRate,
                 Computed
  <1> DEFINE c == result
             p == call.current
             t == call.target
             L == call.liquidity
  <1>1. /\ StepResult(c, call.remaining, call.fee_rate, L, p, t, call.is_input, call.a_to_b)
        /\ call.is_input \in BOOLEAN /\ call.a_to_b \in BOOLEAN
    BY StepComputed
  <1>2. NoOvershoot
    BY <1>1, Zenon DEF NoOvershoot, StepResult, Between
  <1>3. RemainingRespected
    BY <1>1, Zenon DEF RemainingRespected, StepResult, UsedOf
  <1>4. PoolNeverLoses
    BY <1>1 DEF PoolNeverLoses, StepResult, Covers
  <1>5. FeeAtLeastRate
    BY <1>1 DEF FeeAtLeastRate, StepResult
  <1> QED BY <1>2, <1>3, <1>4, <1>5

\* Whatever its arguments, compute_swap neither overshoots nor takes more than
\* remains nor stops early with something left, never costs the pool a token,
\* and never charges less than the pool's rate.
THEOREM EveryStepSound == ASSUME StepInputs PROVE StepSpec => []StepSound
  <1>1. StepInv => StepSound
    BY StepInvSound
  <1> QED BY StepInvInit, StepInvNext, <1>1, PTL DEF StepSpec

-----------------------------------------------------------------------------
(* Transfer fees *)

TripInv ==
    /\ transfer \in [fee : Fees, offered : Offers, needed : U64]
    /\ transfer.needed <= calculate_transfer_fee_excluded_amount(transfer.fee, transfer.offered)
    /\ \/ sent = Unsent
       \/ sent = calculate_transfer_fee_included_amount(transfer.fee, transfer.needed)

LEMMA TripInvInit == TripInit => TripInv
  BY Zenon DEF TripInit, TripInv

LEMMA TripInvNext == TripInv /\ [TripNext]_tripVars => TripInv'
  <1> SUFFICES ASSUME TripInv, [TripNext]_tripVars PROVE TripInv'
    OBVIOUS
  <1>1. /\ transfer' = transfer
        /\ \/ sent' = sent
           \/ sent' = calculate_transfer_fee_included_amount(transfer.fee, transfer.needed)
    BY Zenon DEF TripNext, Send, tripVars
  <1> QED BY <1>1, Zenon DEF TripInv, Unsent

LEMMA TripInvInverse == ASSUME TripInputs, TripInv PROVE TransferFeeInverse
  <1> DEFINE fee == transfer.fee
             offered == transfer.offered
             n == transfer.needed
  <1>1. fee \in FeeSettings /\ offered \in U64 /\ n \in U64
    BY DEF TripInputs, TripInv
  <1>2. n \in Nat
    BY <1>1 DEF U64
  <1>3. n <= calculate_transfer_fee_excluded_amount(fee, offered)
    BY DEF TripInv
  <1> HIDE DEF fee, offered, n
  <1>4. PICK s \in Nat : SentFor(s, fee, n, offered)
    BY <1>1, <1>2, <1>3, SentInFull
  <1>5. sent = Unsent \/ sent = s
    BY <1>4 DEF TripInv, SentFor, fee, n
  <1>6. /\ s \in Nat /\ s <= offered
        /\ calculate_transfer_fee_excluded_amount(fee, s) = n
        /\ s = calculateTransferFeeIncludedAmount(fee, n)
    BY <1>4 DEF SentFor, calculate_transfer_fee_excluded_amount
  <1>7. InverseVerified
    BY <1>5, <1>6 DEF InverseVerified, Unsent, Err
  <1>8. NeverAboveOffer
    BY <1>5, <1>6 DEF NeverAboveOffer, offered
  <1>9. ArrivesExactly
    BY <1>5, <1>6, Zenon DEF ArrivesExactly, fee, n
  <1>10. SdkAgrees
    BY <1>5, <1>6, Zenon DEF SdkAgrees, fee, n
  <1> QED BY <1>7, <1>8, <1>9, <1>10 DEF TransferFeeInverse

\* Whatever a mint's fee and its cap, and whatever part of an amount that could
\* be sent is needed: the inverse of the fee passes the program's own check
\* (calculate_transfer_fee_included_amount, token.rs), no more is sent than was
\* offered, exactly what is needed arrives, and the SDK foretells it.
THEOREM FeeInverseExact == ASSUME TripInputs PROVE TripSpec => []TransferFeeInverse
  <1>1. TripInv => TransferFeeInverse
    BY TripInvInverse
  <1> QED BY TripInvInit, TripInvNext, <1>1, PTL DEF TripSpec

-----------------------------------------------------------------------------
(* A quote for a deposit *)

LEMMA Quotients ==
    ASSUME NEW n \in Nat, NEW d \in Nat \ {0}, NEW q, q = n \div d
    PROVE  q \in Nat /\ q * d <= n
  <1>1. n \div d = DivRound(n, d, FALSE)
    <2>1. n \div d \in Int
      BY DivisionOf
    <2> QED BY <2>1 DEF DivRound
  <1> QED BY <1>1, RoundedDown

\* Rounded down to liquidity and up to tokens again, an amount has not grown.
LEMMA EstimateOfA ==
    ASSUME NEW x \in Nat, NEW p \in Nat \ {0}, NEW g \in Nat \ {0}, NEW u,
           u = p + g, NEW L, L = ((x * p * u) \div g) \div WORD
    PROVE  L \in Nat /\ DivRound(L * g * WORD, p * u, TRUE) \in 0..x
  <1> DEFINE n == x * p * u
             q == n \div g
  <1>1. u \in Nat \ {0} /\ WORD \in Nat \ {0}
    BY WordAssumption
  <1>2. n \in Nat /\ p * u \in Nat \ {0} /\ n = x * (p * u)
    <2>1. x * p \in Nat /\ p * u \in Nat \ {0}
      BY <1>1, ProductNat, ProductPositive
    <2> QED BY <1>1, <2>1, ProductNat
  <1> HIDE DEF n
  <1>3. q \in Nat /\ q * g <= n
    BY <1>2, Quotients
  <1>4. L = q \div WORD
    BY DEF n
  <1> HIDE DEF q
  <1>5. L \in Nat /\ L * WORD <= q
    BY <1>1, <1>3, <1>4, Quotients
  <1>6. L * WORD \in Nat
    BY <1>1, <1>5, ProductNat
  <1>7. (L * WORD) * g <= q * g
    BY <1>3, <1>5, <1>6, ProductMonotone
  <1>8. L * g * WORD = (L * WORD) * g
    BY <1>1, <1>5
  <1> DEFINE m == L * g * WORD
             d == p * u
             e == DivRound(m, d, TRUE)
  <1>9. m \in Nat
    BY <1>6, <1>8, ProductNat
  <1>10. q * g \in Nat /\ m <= n /\ n = x * d
    BY <1>2, <1>3, <1>7, <1>8, <1>9, ProductNat
  <1>11. d \in Nat \ {0} /\ x \in Int
    BY <1>2
  <1> HIDE DEF m, d
  <1>12. m <= x * d
    BY <1>10
  <1>13. e \in Nat /\ e <= x
    BY <1>9, <1>11, <1>12, RoundedBelow
  <1> HIDE DEF e
  <1>14. e \in 0..x
    BY <1>13
  <1> QED BY <1>5, <1>14, Zenon DEF m, d, e

LEMMA EstimateOfB ==
    ASSUME NEW x \in Nat, NEW g \in Nat \ {0}, NEW L, L = (x * WORD) \div g
    PROVE  L \in Nat /\ DivRound(L * g, WORD, TRUE) \in 0..x
  <1> DEFINE n == x * WORD
             m == L * g
             e == DivRound(m, WORD, TRUE)
  <1>1. WORD \in Nat \ {0} /\ n \in Nat /\ x \in Int
    BY WordAssumption, ProductNat
  <1>2. L = n \div g
    OBVIOUS
  <1> HIDE DEF n
  <1>3. L \in Nat /\ m <= n
    BY <1>1, <1>2, Quotients
  <1>4. m \in Nat
    BY <1>3, ProductNat
  <1> HIDE DEF m
  <1>5. m <= x * WORD
    BY <1>3 DEF n
  <1>6. e \in Nat /\ e <= x
    BY <1>1, <1>4, <1>5, RoundedBelow
  <1> HIDE DEF e
  <1>7. e \in 0..x
    BY <1>6
  <1> QED BY <1>3, <1>7, Zenon DEF m, e

\* An estimate for the liquidity of an amount, of the same token.
LEMMA EstimateWithin ==
    ASSUME NEW x \in Nat, NEW p \in Nat \ {0}, NEW side \in {"a", "b"},
           NEW lower \in MIN_TICK_INDEX..MAX_TICK_INDEX,
           NEW upper \in MIN_TICK_INDEX..MAX_TICK_INDEX, lower <= upper,
           NEW L, L = LiquidityOf(side, x, p, lower, upper), L # Err
    PROVE  TokenEstimates(L, p, lower, upper, TRUE)[side] \in 0..x
  <1> DEFINE l == SqrtPrice[lower]
             u == SqrtPrice[upper]
             within == getStrictPositionStatus(p, lower, upper)
             from == IF p <= l THEN l ELSE IF p >= u THEN u ELSE p
             inA == DivRound(L * PriceGap(from, u) * WORD, from * u, TRUE)
             inB == DivRound(L * PriceGap(l, from), WORD, TRUE)
  <1>1. l \in Nat \ {0} /\ u \in Nat \ {0} /\ l <= u
    <2>1. l \in 1..WORD * WORD - 1 /\ u \in 1..WORD * WORD - 1 /\ (lower < upper => l < u)
      BY TickPriceAssumption
    <2> QED BY <2>1, TickIndexAssumption
  <1>2. within = IF p <= l THEN "BelowRange" ELSE IF p >= u THEN "AboveRange" ELSE "InRange"
    BY DEF getStrictPositionStatus
  <1>3. TokenEstimates(L, p, lower, upper, TRUE) = [a |-> inA, b |-> inB]
    BY <1>2
       DEF TokenEstimates, getTokenAFromLiquidity, getTokenBFromLiquidity
  <1>4. L = IF (side = "a" /\ within = "AboveRange") \/ (side = "b" /\ within = "BelowRange") THEN 0
            ELSE IF side = "a"
            THEN getLiquidityFromTokenA(x, Max({p, l}), u)
            ELSE getLiquidityFromTokenB(x, l, Min({p, u}))
    BY DEF LiquidityOf, Takes
  <1>5. WORD \in Nat \ {0}
    BY WordAssumption
  <1> HIDE DEF l, u, within
  <1>6. from \in Nat \ {0} /\ l <= from /\ from <= u
    BY <1>1
  <1>7. /\ p < u => Max({p, l}) = from
        /\ p > l => Min({p, u}) = from
    BY <1>1, EndsOfPair
  <1>8. ASSUME L = 0 PROVE inA \in 0..x /\ inB \in 0..x
    <2> HIDE DEF from
    <2>1. PriceGap(from, u) \in Nat /\ PriceGap(l, from) \in Nat
      BY <1>1, <1>6, GapNat
    <2>2. L * PriceGap(from, u) * WORD = 0 /\ L * PriceGap(l, from) = 0
      BY <1>5, <1>8, <2>1
    <2> DEFINE d == from * u
    <2>3. d \in Nat \ {0}
      BY <1>1, <1>6, ProductPositive
    <2> HIDE DEF d
    <2> DEFINE z == 0
               e == DivRound(z, d, TRUE)
               f == DivRound(z, WORD, TRUE)
    <2>4. z <= z * d /\ z <= z * WORD /\ z \in Nat /\ z \in Int
      BY <1>5, <2>3
    <2>5. inA = e /\ inB = f
      BY <2>2 DEF d
    <2>6. z = 0
      OBVIOUS
    <2> HIDE DEF z
    <2>7. e \in Nat /\ e <= z
      BY <2>3, <2>4, RoundedBelow
    <2>8. f \in Nat /\ f <= z
      BY <1>5, <2>4, RoundedBelow
    <2> HIDE DEF inA, inB, e, f
    <2> QED BY <2>5, <2>6, <2>7, <2>8
  <1>9. /\ side = "a" => TokenEstimates(L, p, lower, upper, TRUE)[side] = inA
        /\ side = "b" => TokenEstimates(L, p, lower, upper, TRUE)[side] = inB
    <2> DEFINE r == TokenEstimates(L, p, lower, upper, TRUE)
    <2>1. r = [a |-> inA, b |-> inB]
      BY <1>3
    <2> HIDE DEF inA, inB, r
    <2>2. r["a"] = inA /\ r["b"] = inB
      BY <2>1, Zenon
    <2>3. (side = "a" => r[side] = inA) /\ (side = "b" => r[side] = inB)
      BY <2>2, Zenon
    <2> QED BY <2>3 DEF r
  <1>10. CASE side = "a" /\ within # "AboveRange"
    <2> DEFINE g == u - from
    <2>1. p < u \/ from = u
      BY <1>1, <1>2, <1>10
    <2>2. L = getLiquidityFromTokenA(x, Max({p, l}), u)
      BY <1>4, <1>10
    <2>3. Max({p, l}) = from
      BY <1>1, <1>2, <1>10, EndsOfPair
    <2> HIDE DEF from
    <2>4. from # u /\ L = ((x * from * u) \div g) \div WORD
      BY <2>2, <2>3 DEF getLiquidityFromTokenA
    <2>5. g \in Nat \ {0} /\ u = from + g /\ PriceGap(from, u) = g
      BY <1>1, <1>6, <2>4 DEF PriceGap
    <2> HIDE DEF g
    <2>6. DivRound(L * g * WORD, from * u, TRUE) \in 0..x
      BY <1>6, <2>4, <2>5, EstimateOfA
    <2>7. inA \in 0..x
      BY <2>5, <2>6, Zenon
    <2> QED BY <1>9, <1>10, <2>7, Zenon
  <1>11. CASE side = "b" /\ within # "BelowRange"
    <2> DEFINE g == from - l
    <2>1. L = getLiquidityFromTokenB(x, l, Min({p, u}))
      BY <1>4, <1>11
    <2>2. Min({p, u}) = from
      BY <1>1, <1>2, <1>11, EndsOfPair
    <2> HIDE DEF from
    <2>3. from # l /\ L = (x * WORD) \div g
      BY <2>1, <2>2 DEF getLiquidityFromTokenB
    <2>4. g \in Nat \ {0} /\ PriceGap(l, from) = g
      BY <1>1, <1>6, <2>3 DEF PriceGap
    <2> HIDE DEF g
    <2>5. DivRound(L * g, WORD, TRUE) \in 0..x
      BY <2>3, <2>4, EstimateOfB
    <2>6. inB \in 0..x
      BY <2>4, <2>5, Zenon
    <2> QED BY <1>9, <1>11, <2>6, Zenon
  <1>12. CASE (side = "a" /\ within = "AboveRange") \/ (side = "b" /\ within = "BelowRange")
    <2>1. inA \in 0..x /\ inB \in 0..x
      BY <1>4, <1>8, <1>12
    <2> QED BY <1>9, <2>1, Zenon
  <1> QED BY <1>10, <1>11, <1>12

\* Rounding a tick towards zero finds a whole number.
LEMMA TickOnGrid ==
    ASSUME NEW t \in Int
    PROVE  getInitializableTickIndex(t) \in Int
  <1>1. t % TickSpacing \in Int /\ (-t) % TickSpacing \in Int
    <2>1. \A n \in Int : n % TickSpacing \in Int
      BY SpacingAssumption, DivisionOf
    <2> QED BY <2>1
  <1> QED BY <1>1 DEF getInitializableTickIndex

QuoteInv == ask \in Asks /\ (phase = "asked" => pool.sqrt_price \in Prices) /\ WithinInput

LEMMA QuoteInvInit == Init => QuoteInv
  BY DEF Init, QuoteInv, WithinInput

\* The estimates of a deposit's quote, transfer fees included.
LEMMA DepositEstimate ==
    ASSUME QuoteInputs, QuoteInv, AskIncrease,
           phase' = "quoted"
    PROVE  quote'.estimates[ask.side] <= ask.amount
  <1>1. /\ phase = "asked" /\ ask.kind = "increase" /\ ask \in Asks /\ pool.sqrt_price \in Prices
    BY DEF QuoteInv, AskIncrease
  <1> DEFINE p == pool.sqrt_price
             side == ask.side
             x == ask.amount
             lower == getInitializableTickIndex(ask.lower)
             upper == getInitializableTickIndex(ask.upper)
             L == getLiquidityFromInputToken(side, x, p, lower, upper)
             est == TokenEstimates(L, p, lower, upper, TRUE)
             fee == Fee(side)
             rest == calculate_transfer_fee_excluded_amount(fee, x)
  <1>2. /\ side \in {"a", "b"} /\ ask.lower \in Int /\ ask.upper \in Int
        /\ x \in U64 /\ fee \in FeeSettings
        /\ ask.on = "amounts" => lower <= upper
    BY <1>1 DEF QuoteInputs, Fee, Sides
  <1>3. p \in Nat \ {0}
    <2>1. p \in MIN_SQRT_PRICE_X64..MAX_SQRT_PRICE_X64
      BY <1>1 DEF QuoteInputs
    <2> QED BY <2>1, TickIndexAssumption, TickPrices DEF MIN_SQRT_PRICE_X64, MAX_SQRT_PRICE_X64
  <1>4. lower \in Int /\ upper \in Int
    BY <1>2, TickOnGrid
  <1>5. /\ checkTickInBounds(lower) /\ checkTickInBounds(upper)
        /\ ~(ask.on = "price" /\ lower >= upper) /\ L # Err
        /\ \/ ask.on = "amounts" /\ IncreaseByAmounts(lower, upper, L)
           \/ ask.on = "price" /\ IncreaseByPrice(lower, upper, L)
    BY Zenon DEF AskIncrease
  <1>6. /\ lower \in MIN_TICK_INDEX..MAX_TICK_INDEX /\ upper \in MIN_TICK_INDEX..MAX_TICK_INDEX
    BY <1>5 DEF checkTickInBounds
  <1>7. lower <= upper
    <2> HIDE DEF lower, upper, L
    <2> QED BY <1>2, <1>4, <1>5
  <1>8. L = LiquidityOf(side, rest, p, lower, upper) /\ L # Err
    BY <1>5 DEF getLiquidityFromInputToken, calculateTransferFeeExcludedAmount,
                calculate_transfer_fee_excluded_amount
  <1>9. x \in Nat /\ rest \in Nat
    BY <1>2, FeeLeavesNat DEF U64
  <1>10. quote'.estimates = Included(est)
    <2>1. \E limits : Answer(QuoteOf(lower, upper, L, Included(est), limits))
      BY <1>5, Zenon DEF IncreaseByAmounts, IncreaseByPrice
    <2>2. PICK limits :
              Answer(QuoteOf(lower, upper, L, Included(est), limits))
      BY <2>1
    <2> DEFINE q == QuoteOf(lower, upper, L, Included(est), limits)
    <2>3. q.estimates = Included(est)
      BY Zenon DEF QuoteOf
    <2> HIDE DEF q, est, lower, upper, L
    <2>4. quote' = q
      BY <2>2 DEF Answer, q
    <2> QED BY <2>3, <2>4
  <1>11. Included(est)[side] = calculateTransferFeeIncludedAmount(fee, est[side])
    <2> HIDE DEF side, est
    <2> QED BY <1>2 DEF Included, Sides, fee
  <1> HIDE DEF p, side, x, lower, upper, L, fee, rest
  <1>12. est[side] \in 0..rest
    BY <1>2, <1>3, <1>6, <1>7, <1>8, <1>9, EstimateWithin
  <1> HIDE DEF est
  <1> DEFINE n == est[side]
  <1>13. n \in Nat /\ n <= rest
    BY <1>9, <1>12
  <1> HIDE DEF n
  <1>14. PICK s \in Nat : SentFor(s, fee, n, x)
    BY <1>2, <1>13, SentInFull DEF rest
  <1>15. calculateTransferFeeIncludedAmount(fee, n) <= x
    BY <1>14 DEF SentFor
  <1> QED BY <1>10, <1>11, <1>15 DEF n, side, x

\* A quote is returned, or nothing is.
LEMMA Answered ==
    ASSUME NEW q, Answer(q)
    PROVE  phase' \in {"quoted", "thrown"} /\ UNCHANGED <<pool, ask>>
  BY DEF Answer

LEMMA QuoteInvNext ==
    ASSUME QuoteInputs, QuoteInv, [Next]_vars
    PROVE  QuoteInv'
  <1>1. CASE AskIncrease
    <2>1. phase' \in {"quoted", "thrown"} /\ UNCHANGED <<pool, ask>>
      <3>1. (\E q : Answer(q)) \/ (phase' = "thrown" /\ UNCHANGED <<pool, ask, quote>>)
        BY <1>1, Zenon DEF AskIncrease, IncreaseByAmounts, IncreaseByPrice
      <3> QED BY <3>1, Answered
    <2>2. phase' = "quoted" => quote'.estimates[ask.side] <= ask.amount
      BY <1>1, DepositEstimate
    <2> QED BY <2>1, <2>2 DEF QuoteInv, WithinInput
  <1>2. CASE AskDecrease
    <2>1. phase' \in {"quoted", "thrown"} /\ UNCHANGED <<pool, ask>> /\ ask.kind = "decrease"
      BY <1>2, Zenon DEF AskDecrease, DecreaseByAmounts, DecreaseByPrice,
                         Answer
    <2> QED BY <2>1 DEF QuoteInv, WithinInput
  <1>3. CASE Swap
    BY <1>3 DEF Swap, QuoteInv, WithinInput
  <1>4. CASE IncreaseLiquidity
    BY <1>4 DEF IncreaseLiquidity, Outcome, QuoteInv, WithinInput
  <1>5. CASE DecreaseLiquidity
    BY <1>5 DEF DecreaseLiquidity, Outcome, QuoteInv, WithinInput
  <1>6. CASE UNCHANGED vars
    BY <1>6 DEF vars, QuoteInv, WithinInput
  <1> QED BY <1>1, <1>2, <1>3, <1>4, <1>5, <1>6 DEF Next

\* A quote for an amount of one token, of whatever range and at whatever price,
\* never asks for more of that token than the amount: setting a mint's fee
\* aside, rounding down to liquidity, up to tokens and adding the fee again
\* cannot exceed what the client offered (increase-liquidity-quote.ts).
THEOREM QuotedWithinInput ==
    ASSUME QuoteInputs
    PROVE  Spec => []WithinInput
  <1>1. QuoteInv => WithinInput
    BY DEF QuoteInv
  <1>2. QuoteInv /\ [Next]_vars => QuoteInv'
    BY QuoteInvNext
  <1> QED BY QuoteInvInit, <1>1, <1>2, PTL DEF Spec

-----------------------------------------------------------------------------
(* What a quote's estimate says the program does. *)

\* A quotient that is a u64 is one of a number that fits WORD more bits.
LEMMA BelowWord ==
    ASSUME NEW n \in Nat, NEW d \in Nat \ {0}, NEW up \in BOOLEAN, DivRound(n, d, up) <= U64MAX
    PROVE  n < WORD * d /\ DivRound(n, d, up) \in Nat
  <1> DEFINE e == DivRound(n, d, up)
             w == WORD
  <1>1. w \in Nat \ {0} /\ w \in Int /\ U64MAX = w - 1
    BY Widths DEF U64MAX
  <1> HIDE DEF w
  <1>2. e \in Nat /\ (w * d <= n => w <= e)
    BY <1>1, Rounding
  <1>3. e <= w - 1
    BY <1>1
  <1>4. w * d \in Nat
    BY <1>1, ProductNat
  <1> HIDE DEF e
  <1>5. n < w * d
    BY <1>1, <1>2, <1>3, <1>4
  <1> QED BY <1>2, <1>5 DEF e, w

\* Between prices of ticks, no width is too small for amounts that are u64s.
LEMMA AmountAFits ==
    ASSUME NEW p \in 1..MAX_SQRT_PRICE_X64, NEW q \in 1..MAX_SQRT_PRICE_X64, NEW L \in Nat,
           NEW up \in BOOLEAN, NEW e, e = getTokenAFromLiquidity(L, p, q, up), e <= U64MAX
    PROVE  get_amount_delta_a(p, q, L, up) = e /\ e \in U64
  <1> DEFINE n == L * PriceGap(p, q) * WORD
             d == p * q
             M == MAX_SQRT_PRICE_X64
             w == WORD
             c == w * w * w
  <1>1. M \in Nat /\ p \in Nat \ {0} /\ q \in Nat \ {0} /\ p <= M /\ q <= M /\ w \in Nat \ {0}
    <2>1. M \in Nat
      BY TickIndexAssumption, TickPrices DEF MAX_SQRT_PRICE_X64
    <2> QED BY <2>1, Widths
  <1>2. M * M <= c
    BY PriceWidthAssumption DEF MAX_SQRT_PRICE_X64
  <1> HIDE DEF M, w
  <1>3. d \in Nat \ {0} /\ n \in Nat /\ c \in Nat
    BY <1>1, GapNat, ProductNat, ProductPositive, Widths
  <1>4. d <= c
    <2>1. p * q <= M * q /\ q * M <= M * M /\ q * M = M * q
      BY <1>1, ProductMonotone, ProductTurned
    <2>2. M * q \in Nat /\ M * M \in Nat
      BY <1>1, ProductNat
    <2> DEFINE x == M * q
               y == M * M
    <2> HIDE DEF c, x, y
    <2>3. d <= x /\ x <= y /\ y <= c
      BY <1>2, <2>1 DEF x, y
    <2>4. x \in Nat /\ y \in Nat
      BY <2>2 DEF x, y
    <2> HIDE DEF d
    <2> QED BY <1>3, <2>3, <2>4
  <1>5. e = DivRound(n, d, up)
    BY DEF getTokenAFromLiquidity
  <1> HIDE DEF n, d
  <1>6. n < w * d /\ e \in Nat
    BY <1>3, <1>5, BelowWord DEF w
  <1>7. n <= U256MAX
    <2>1. d * w <= c * w /\ d * w = w * d
      BY <1>1, <1>3, <1>4, ProductMonotone, ProductTurned
    <2>2. U256MAX = c * w - 1
      BY DEF U256MAX, w
    <2> DEFINE x == w * d
               y == c * w
    <2>3. x \in Nat /\ y \in Nat
      BY <1>1, <1>3, ProductNat
    <2> HIDE DEF c
    <2>4. n < x /\ x <= y /\ U256MAX = y - 1
      BY <1>6, <2>1, <2>2
    <2> HIDE DEF x, y
    <2> QED BY <1>3, <2>3, <2>4
  <1>8. get_amount_delta_a(p, q, L, up)
          = IF n > U256MAX \/ d = 0 THEN Err ELSE Checked(DivRound(n, d, up), U64MAX)
    BY DEF get_amount_delta_a, n, d
  <1>9. get_amount_delta_a(p, q, L, up) = Checked(e, U64MAX)
    <2>1. U256MAX \in Int
      BY Widths, ProductInt DEF U256MAX
    <2> QED BY <1>3, <1>5, <1>7, <1>8, <2>1
  <1> QED BY <1>6, <1>9, Widths DEF Checked, U64

\* The same of kind b, at any prices.
LEMMA AmountBFits ==
    ASSUME NEW p \in Nat, NEW q \in Nat, NEW L \in Nat,
           NEW up \in BOOLEAN, NEW e, e = getTokenBFromLiquidity(L, p, q, up), e <= U64MAX
    PROVE  get_amount_delta_b(p, q, L, up) = e /\ e \in U64
  <1> DEFINE n == L * PriceGap(p, q)
             w == WORD
  <1>1. n \in Nat /\ w \in Nat \ {0}
    BY GapNat, ProductNat, Widths
  <1>2. e = DivRound(n, WORD, up)
    BY DEF getTokenBFromLiquidity
  <1>3. get_amount_delta_b(p, q, L, up)
          = IF n > U128MAX THEN Err ELSE Checked(DivRound(n, WORD, up), U64MAX)
    BY DEF get_amount_delta_b, checked_mul_shift_right_round_up_if
  <1> HIDE DEF n
  <1>4. n < w * w /\ e \in Nat
    BY <1>1, <1>2, BelowWord DEF w
  <1>5. n <= U128MAX
    <2> DEFINE x == w * w
    <2>1. x \in Nat /\ U128MAX = x - 1
      BY <1>1, ProductNat DEF U128MAX, w
    <2> HIDE DEF x
    <2>2. n < x
      BY <1>4 DEF x
    <2> QED BY <1>1, <2>1, <2>2
  <1>6. get_amount_delta_b(p, q, L, up) = Checked(e, U64MAX)
    BY <1>1, <1>2, <1>3, <1>5, Widths
  <1> QED BY <1>4, <1>6, Widths DEF Checked, U64

\* The smaller of two fractions rounds to no more.
LEMMA FractionRounds ==
    ASSUME NEW n \in Nat, NEW d \in Nat \ {0}, NEW m \in Nat, NEW c \in Nat \ {0},
           n * c <= m * d, NEW up \in BOOLEAN
    PROVE  DivRound(n, d, up) <= DivRound(m, c, up)
  <1> DEFINE e == DivRound(n, d, up)
             f == DivRound(m, c, up)
  <1>1. /\ e \in Nat /\ (~up => e * d <= n)
        /\ f \in Nat /\ (up => m <= f * c)
    <2>1. 0 \in Int
      OBVIOUS
    <2> QED BY <2>1, Rounding
  <1>2. CASE up
    <2>1. m <= f * c
      BY <1>1, <1>2
    <2> HIDE DEF e, f
    <2>2. m * d <= (f * c) * d
      BY <1>1, <2>1, ProductMonotone, ProductNat
    <2>3. (f * c) * d = (f * d) * c
      BY <1>1
    <2> DEFINE w == n * c
               x == m * d
               y == (f * d) * c
               z == f * d
    <2>4. w \in Nat /\ x \in Nat /\ y \in Nat /\ z \in Nat
      BY <1>1, ProductNat
    <2>5. w <= x /\ x <= y
      BY <2>2, <2>3
    <2> HIDE DEF w, x, y
    <2>6. w <= y
      BY <2>4, <2>5
    <2>7. n * c <= z * c
      BY <2>6 DEF w, y
    <2> HIDE DEF z
    <2>8. n <= z
      BY <2>4, <2>7, ProductOrder
    <2>9. n <= f * d
      BY <2>8 DEF z
    <2> QED BY <1>1, <2>9, Rounding DEF e, f
  <1>3. CASE ~up
    <2>1. e * d <= n
      BY <1>1, <1>3
    <2> HIDE DEF e, f
    <2>2. (e * d) * c <= n * c
      BY <1>1, <2>1, ProductMonotone, ProductNat
    <2>3. (e * d) * c = (e * c) * d
      BY <1>1
    <2> DEFINE w == n * c
               x == m * d
               y == (e * c) * d
               z == e * c
    <2>4. w \in Nat /\ x \in Nat /\ y \in Nat /\ z \in Nat
      BY <1>1, ProductNat
    <2>5. w <= x /\ y <= w
      BY <2>2, <2>3
    <2> HIDE DEF w, x, y
    <2>6. y <= x
      BY <2>4, <2>5
    <2>7. z * d <= m * d
      BY <2>6 DEF x, y
    <2> HIDE DEF z
    <2>8. z <= m
      BY <2>4, <2>7, ProductOrder
    <2>9. e * c <= m
      BY <2>8 DEF z
    <2> QED BY <1>1, <2>9, Rounding DEF e, f
  <1> QED BY <1>2, <1>3

\* From a higher price to the upper end there are fewer tokens of kind a.
LEMMA FewerTokensA ==
    ASSUME NEW x \in Nat \ {0}, NEW y \in Nat \ {0}, NEW u \in Nat \ {0}, x <= y, y <= u,
           NEW L \in Nat, NEW up \in BOOLEAN
    PROVE  getTokenAFromLiquidity(L, y, u, up) <= getTokenAFromLiquidity(L, x, u, up)
  <1> DEFINE w == WORD
             g == u - x
             h == u - y
             n == L * h * w
             m == L * g * w
             d == y * u
             c == x * u
  <1>1. w \in Nat \ {0} /\ g \in Nat /\ h \in Nat
    BY Widths
  <1>2. PriceGap(x, u) = g /\ PriceGap(y, u) = h
    BY DEF PriceGap
  <1>3. n \in Nat /\ m \in Nat /\ d \in Nat \ {0} /\ c \in Nat \ {0}
    BY <1>1, ProductNat, ProductPositive
  <1>4. n * c <= m * d
    <2>1. h * x <= g * y
      <3>1. h * x = u * x - y * x /\ g * y = u * y - x * y /\ y * x = x * y
        BY ProductTurned
      <3>2. x * u <= y * u /\ x * u = u * x /\ y * u = u * y
        BY ProductMonotone, ProductTurned
      <3>3. u * x \in Int /\ u * y \in Int /\ x * y \in Int
        BY ProductInt
      <3> DEFINE i == u * x
                 j == u * y
                 k == x * y
      <3> HIDE DEF i, j, k, g, h
      <3>4. h * x = i - k /\ g * y = j - k /\ i <= j
        BY <3>1, <3>2 DEF i, j, k
      <3> QED BY <3>3, <3>4 DEF i, j, k
    <2> HIDE DEF g, h, w
    <2> DEFINE v == (L * w) * u
               i == h * x
               j == g * y
    <2>2. v \in Nat /\ i \in Int /\ j \in Int
      BY <1>1, ProductNat, ProductInt
    <2>3. n * c = i * v /\ m * d = j * v
      <3>1. (L * h * w) * (x * u) = (h * x) * ((L * w) * u)
        BY <1>1
      <3>2. (L * g * w) * (y * u) = (g * y) * ((L * w) * u)
        BY <1>1
      <3> QED BY <3>1, <3>2
    <2> HIDE DEF v, i, j, n, m, c, d
    <2>4. i * v <= j * v
      BY <2>1, <2>2, ProductMonotone DEF i, j
    <2> QED BY <2>3, <2>4
  <1> HIDE DEF n, m, d, c
  <1>5. DivRound(n, d, up) <= DivRound(m, c, up)
    BY <1>3, <1>4, FractionRounds
  <1> QED BY <1>2, <1>5, Zenon DEF getTokenAFromLiquidity, n, m, d, c, w

\* From the lower end to a higher price there are more tokens of kind b.
LEMMA MoreTokensB ==
    ASSUME NEW l \in Nat, NEW x \in Nat, NEW y \in Nat, l <= x, x <= y,
           NEW L \in Nat, NEW up \in BOOLEAN
    PROVE  getTokenBFromLiquidity(L, l, x, up) <= getTokenBFromLiquidity(L, l, y, up)
  <1> DEFINE w == WORD
             g == x - l
             h == y - l
             n == L * g
             m == L * h
  <1>1. w \in Nat \ {0} /\ g \in Nat /\ h \in Nat /\ g <= h
    BY Widths
  <1>2. PriceGap(l, x) = g /\ PriceGap(l, y) = h
    BY DEF PriceGap
  <1> HIDE DEF g, h
  <1>3. n \in Nat /\ m \in Nat /\ n <= m
    BY <1>1, ProductNat, ProductMonotone, ProductTurned
  <1> HIDE DEF n, m
  <1>4. n * w <= m * w
    BY <1>1, <1>3, ProductMonotone
  <1> HIDE DEF w
  <1>5. DivRound(n, w, up) <= DivRound(m, w, up)
    BY <1>1, <1>3, <1>4, FractionRounds
  <1> QED BY <1>2, <1>5, Zenon DEF getTokenBFromLiquidity, n, m, w

-----------------------------------------------------------------------------
(* Estimates at a price *)

\* The price, or the end of the range that it is beyond.
NearestIn(p, l, u) == IF p <= l THEN l ELSE IF p >= u THEN u ELSE p

\* The estimates, from the price nearest to the pool's in the range.
LEMMA EstimatesAt ==
    ASSUME NEW p \in Nat \ {0}, NEW lower \in MIN_TICK_INDEX..MAX_TICK_INDEX,
           NEW upper \in MIN_TICK_INDEX..MAX_TICK_INDEX, lower <= upper,
           NEW L \in Nat, NEW up \in BOOLEAN,
           NEW l, l = SqrtPrice[lower], NEW u, u = SqrtPrice[upper], NEW x, x = NearestIn(p, l, u)
    PROVE  /\ l \in 1..MAX_SQRT_PRICE_X64 /\ u \in 1..MAX_SQRT_PRICE_X64
           /\ x \in 1..MAX_SQRT_PRICE_X64
           /\ l \in Nat \ {0} /\ u \in Nat \ {0} /\ x \in Nat \ {0} /\ l <= x /\ x <= u
           /\ TokenEstimates(L, p, lower, upper, up)
                = [a |-> getTokenAFromLiquidity(L, x, u, up),
                   b |-> getTokenBFromLiquidity(L, l, x, up)]
           /\ \A s \in Sides : TokenEstimates(L, p, lower, upper, up)[s] \in Nat
  <1>1. /\ l \in Nat \ {0} /\ u \in Nat \ {0} /\ l <= u
        /\ l <= MAX_SQRT_PRICE_X64 /\ u <= MAX_SQRT_PRICE_X64 /\ MAX_SQRT_PRICE_X64 \in Nat
    <2>1. MIN_SQRT_PRICE_X64 \in Nat /\ MAX_SQRT_PRICE_X64 \in Nat
      BY TickIndexAssumption, TickPrices DEF MIN_SQRT_PRICE_X64, MAX_SQRT_PRICE_X64
    <2> QED BY <2>1, TickPrices, PriceOrder
  <1>2. x \in Nat \ {0} /\ l <= x /\ x <= u
    BY <1>1 DEF NearestIn
  <1> DEFINE a == getTokenAFromLiquidity(L, x, u, up)
             b == getTokenBFromLiquidity(L, l, x, up)
             e == TokenEstimates(L, p, lower, upper, up)
  <1>3. e = [a |-> a, b |-> b]
    BY DEF TokenEstimates, getStrictPositionStatus, NearestIn
  <1>4. a \in Nat
    <2> DEFINE n == L * PriceGap(x, u) * WORD
               d == x * u
    <2>1. n \in Nat /\ d \in Nat \ {0}
      BY <1>1, <1>2, GapNat, ProductNat, ProductPositive, Widths
    <2> HIDE DEF n, d
    <2>2. DivRound(n, d, up) \in Nat
      BY <2>1, Rounding
    <2> QED BY <2>2 DEF getTokenAFromLiquidity, n, d
  <1>5. b \in Nat
    <2> DEFINE n == L * PriceGap(l, x)
    <2>1. n \in Nat
      BY <1>1, <1>2, GapNat, ProductNat
    <2> HIDE DEF n
    <2>2. DivRound(n, WORD, up) \in Nat
      BY <2>1, Rounding, Widths
    <2> QED BY <2>2 DEF getTokenBFromLiquidity, n
  <1> HIDE DEF a, b, e
  <1>6. \A s \in Sides : e[s] \in Nat
    BY <1>3, <1>4, <1>5 DEF Sides
  <1> QED BY <1>1, <1>2, <1>3, <1>6 DEF a, b, e

\* As the price rises, fewer tokens of kind a and more of kind b.
LEMMA EstimatesFollowPrice ==
    ASSUME NEW p \in Nat \ {0}, NEW q \in Nat \ {0}, p <= q,
           NEW lower \in MIN_TICK_INDEX..MAX_TICK_INDEX,
           NEW upper \in MIN_TICK_INDEX..MAX_TICK_INDEX, lower <= upper,
           NEW L \in Nat, NEW up \in BOOLEAN
    PROVE  LET e == TokenEstimates(L, p, lower, upper, up)
               f == TokenEstimates(L, q, lower, upper, up)
           IN  f["a"] <= e["a"] /\ e["b"] <= f["b"]
  <1> DEFINE l == SqrtPrice[lower]
             u == SqrtPrice[upper]
             x == NearestIn(p, l, u)
             y == NearestIn(q, l, u)
             e == TokenEstimates(L, p, lower, upper, up)
             f == TokenEstimates(L, q, lower, upper, up)
  <1>1. /\ l \in Nat \ {0} /\ u \in Nat \ {0} /\ x \in Nat \ {0} /\ y \in Nat \ {0}
        /\ l <= x /\ y <= u
        /\ e = [a |-> getTokenAFromLiquidity(L, x, u, up),
                b |-> getTokenBFromLiquidity(L, l, x, up)]
        /\ f = [a |-> getTokenAFromLiquidity(L, y, u, up),
                b |-> getTokenBFromLiquidity(L, l, y, up)]
    <2>0. /\ l = SqrtPrice[lower] /\ u = SqrtPrice[upper]
          /\ x = NearestIn(p, l, u) /\ y = NearestIn(q, l, u)
          /\ e = TokenEstimates(L, p, lower, upper, up)
          /\ f = TokenEstimates(L, q, lower, upper, up)
      OBVIOUS
    <2> HIDE DEF l, u, x, y, e, f
    <2>1. /\ l \in Nat \ {0} /\ u \in Nat \ {0} /\ x \in Nat \ {0} /\ l <= x
          /\ e = [a |-> getTokenAFromLiquidity(L, x, u, up),
                  b |-> getTokenBFromLiquidity(L, l, x, up)]
      BY <2>0, EstimatesAt
    <2>2. /\ y \in Nat \ {0} /\ y <= u
          /\ f = [a |-> getTokenAFromLiquidity(L, y, u, up),
                  b |-> getTokenBFromLiquidity(L, l, y, up)]
      BY <2>0, EstimatesAt
    <2> QED BY <2>1, <2>2
  <1>2. l <= u
    BY PriceOrder
  <1> HIDE DEF l, u, e, f
  <1>3. x <= y
    BY <1>1, <1>2 DEF NearestIn
  <1> HIDE DEF x, y
  <1>4. getTokenAFromLiquidity(L, y, u, up) <= getTokenAFromLiquidity(L, x, u, up)
    BY <1>1, <1>3, FewerTokensA
  <1>5. getTokenBFromLiquidity(L, l, x, up) <= getTokenBFromLiquidity(L, l, y, up)
    BY <1>1, <1>3, MoreTokensB
  <1>6. f["a"] <= e["a"] /\ e["b"] <= f["b"]
    BY <1>1, <1>4, <1>5
  <1> QED BY <1>6 DEF e, f

-----------------------------------------------------------------------------
(* The bounds of a tolerance on the price *)

\* A set of natural numbers has a least one.
LEMMA LeastNumber ==
    ASSUME NEW S, S \subseteq Nat, S # {} PROVE \E x \in S : \A y \in S : x <= y
  <1> DEFINE less == {ss \in Nat \X Nat : ss[1] < ss[2]}
  <1>1. IsWellFoundedOn(less, Nat)
    BY NatLessThanWellFounded DEF OpToRel
  <1>2. PICK x \in S : \A y \in S : <<y, x>> \notin less
    <2> HIDE DEF less
    <2> QED BY <1>1, WFMin
  <1>3. ASSUME NEW y \in S PROVE x <= y
    <2>1. x \in Nat /\ y \in Nat /\ <<y, x>> \notin less
      BY <1>2
    <2>2. ~(y < x)
      BY <2>1
    <2> QED BY <2>1, <2>2
  <1> QED BY <1>3

\* The root is there for every percentage: one less than the least number whose
\* square is too large.
LEMMA RootTyped ==
    ASSUME NEW p \in Nat, NEW d \in Nat \ {0}, NEW n \in Nat, n <= d + d
    PROVE  TimesRoot(p, n, d) \in 0..2 * p
  <1> DEFINE Above(x) == p * p * n < (x + 1) * (x + 1) * d
             S == {x \in Nat : Above(x)}
  <1>1. 2 * p \in S
    <2> DEFINE c == p * p
               r == 2 * p + 1
    <2>1. c \in Nat /\ r \in Nat /\ r * r = c + c + c + c + (4 * p + 1)
      OBVIOUS
    <2> HIDE DEF c
    <2>2. n * c <= (d + d) * c
      BY <2>1, ProductMonotone
    <2>3. c * n = n * c /\ (d + d) * c = (c + c) * d
      BY <2>1
    <2>4. (c + c) * d < (r * r) * d
      <3> DEFINE k == r * r
                 j == c + c
      <3>1. k \in Int /\ j \in Int /\ j < k
        BY <2>1
      <3> HIDE DEF k, j, r
      <3>2. j * d < k * d
        BY <3>1, ProductOrder
      <3> QED BY <3>2 DEF k, j
    <2> DEFINE x == c * n
               y == (c + c) * d
               z == (r * r) * d
    <2>5. x \in Int /\ y \in Int /\ z \in Int
      BY <2>1, ProductInt
    <2>6. x <= y /\ y < z
      BY <2>2, <2>3, <2>4
    <2> HIDE DEF x, y, z
    <2>7. x < z
      BY <2>5, <2>6
    <2> HIDE DEF r
    <2>8. p * p * n < r * r * d
      BY <2>7 DEF x, z, c
    <2> QED BY <2>8 DEF r
  <1> HIDE DEF Above
  <1>2. S \subseteq Nat /\ S # {}
    BY <1>1
  <1>3. PICK x \in S : \A y \in S : x <= y
    <2> HIDE DEF S
    <2> QED BY <1>2, LeastNumber
  <1>4. x \in 0..2 * p /\ Above(x)
    BY <1>1, <1>3
  <1> DEFINE i == p * p * n
             j == x * x * d
  <1>5. i \in Nat /\ j \in Int
    <2>1. p * p \in Nat
      OBVIOUS
    <2>2. x * x \in Int
      BY <1>4
    <2> DEFINE a == p * p
               b == x * x
    <2> HIDE DEF a, b
    <2>3. a * n \in Nat /\ b * d \in Int
      BY <2>1, <2>2 DEF a, b
    <2> QED BY <2>3 DEF a, b
  <1>6. j <= i
    <2>1. CASE x = 0
      <3>1. j = 0
        BY <2>1
      <3> HIDE DEF i, j
      <3> QED BY <1>5, <3>1
    <2>2. CASE x > 0
      <3>1. x - 1 \in Nat /\ ~Above(x - 1)
        BY <1>3, <2>2
      <3>2. (x - 1) + 1 = x
        BY <1>4
      <3>3. ~(i < j)
        BY <3>1, <3>2 DEF Above
      <3> HIDE DEF i, j
      <3> QED BY <1>5, <3>3
    <2> QED BY <1>4, <2>1, <2>2
  <1> DEFINE Q(y) == y * y * d <= p * p * n /\ p * p * n < (y + 1) * (y + 1) * d
  <1>7. TimesRoot(p, n, d) = CHOOSE y \in 0..2 * p : Q(y)
    BY DEF TimesRoot
  <1>8. Q(x)
    BY <1>4, <1>6 DEF Above
  <1> HIDE DEF Q
  <1>9. \E y \in 0..2 * p : Q(y)
    BY <1>4, <1>8
  <1>10. (CHOOSE y \in 0..2 * p : Q(y)) \in 0..2 * p
    BY <1>9
  <1> QED BY <1>7, <1>10

\* The clamped price of any number is a pool's.
LEMMA ClampTyped ==
    ASSUME NEW x \in Int PROVE ClampPrice(x) \in MIN_SQRT_PRICE_X64..MAX_SQRT_PRICE_X64
  <1> DEFINE low == MIN_SQRT_PRICE_X64
             high == MAX_SQRT_PRICE_X64
             y == IF x < low THEN low ELSE x
  <1>1. low \in Int /\ high \in Int /\ low <= high
    BY TickIndexAssumption, TickPrices, PriceOrder DEF MIN_SQRT_PRICE_X64, MAX_SQRT_PRICE_X64
  <1> HIDE DEF low, high
  <1>2. Max({x, low}) = y /\ y \in Int /\ low <= y
    BY <1>1, EndsOfPair
  <1> HIDE DEF y
  <1>3. Min({y, high}) = IF y <= high THEN y ELSE high
    BY <1>1, <1>2, EndsOfPair
  <1>4. ClampPrice(x) = IF y <= high THEN y ELSE high
    BY <1>2, <1>3 DEF ClampPrice, low, high
  <1> QED BY <1>1, <1>2, <1>4 DEF low, high

\* The bounds of a tolerance are prices of pools.
LEMMA BoundsTyped ==
    ASSUME NEW p \in MIN_SQRT_PRICE_X64..MAX_SQRT_PRICE_X64, NEW slippage,
           slippage.denominator \in Nat \ {0}, slippage.numerator \in 0..slippage.denominator
    PROVE  LET bounds == getSlippageBoundForSqrtPrice(p, slippage)
           IN  /\ bounds.lower \in MIN_SQRT_PRICE_X64..MAX_SQRT_PRICE_X64
               /\ bounds.upper \in MIN_SQRT_PRICE_X64..MAX_SQRT_PRICE_X64
  <1> DEFINE d == slippage.denominator
             n == slippage.numerator
             x == TimesRoot(p, d - n, d)
             y == TimesRoot(p, d + n, d)
  <1>1. p \in Nat
    BY TickIndexAssumption, TickPrices DEF MIN_SQRT_PRICE_X64, MAX_SQRT_PRICE_X64
  <1>2. d \in Nat \ {0} /\ d - n \in Nat /\ d + n \in Nat /\ d - n <= d + d /\ d + n <= d + d
    OBVIOUS
  <1> HIDE DEF d, n
  <1>3. x \in Int /\ y \in Int
    <2>1. x \in 0..2 * p /\ y \in 0..2 * p
      BY <1>1, <1>2, RootTyped
    <2> QED BY <1>1, <2>1
  <1> HIDE DEF x, y
  <1>4. ClampPrice(x) \in MIN_SQRT_PRICE_X64..MAX_SQRT_PRICE_X64
        /\ ClampPrice(y) \in MIN_SQRT_PRICE_X64..MAX_SQRT_PRICE_X64
    BY <1>3, ClampTyped
  <1>5. getSlippageBoundForSqrtPrice(p, slippage)
         = [lower |-> ClampPrice(x), upper |-> ClampPrice(y)]
    BY DEF getSlippageBoundForSqrtPrice, x, y, d, n
  <1> QED BY <1>4, <1>5

-----------------------------------------------------------------------------
(* What the program moves at the pool's price *)

\* The pool's tick is its price's, or the one left of it at a price that is a tick's.
PoolAtPrice ==
    /\ pool.sqrt_price \in MIN_SQRT_PRICE_X64..MAX_SQRT_PRICE_X64
    /\ pool.tick \in TicksAt(pool.sqrt_price)

\* The current tick is on the side of an end of a range that the price is on, or
\* the price is that of the end.
LEMMA TickSides ==
    ASSUME PoolAtPrice, NEW i \in MIN_TICK_INDEX..MAX_TICK_INDEX
    PROVE  /\ pool.tick \in Int
           /\ pool.tick < i => pool.sqrt_price <= SqrtPrice[i]
           /\ i <= pool.tick => SqrtPrice[i] <= pool.sqrt_price
  <1> DEFINE p == pool.sqrt_price
             t == tick_index_from_sqrt_price(p)
  <1>1. /\ t \in MIN_TICK_INDEX..MAX_TICK_INDEX /\ SqrtPrice[t] <= p
        /\ t < MAX_TICK_INDEX => p < SqrtPrice[t + 1]
    BY TickOfPrice DEF PoolAtPrice
  <1>2. pool.tick = t \/ (pool.tick = t - 1 /\ SqrtPrice[t] = p)
    BY DEF PoolAtPrice, TicksAt
  <1>3. p \in Nat
    BY TickIndexAssumption, TickPrices DEF PoolAtPrice, MIN_SQRT_PRICE_X64, MAX_SQRT_PRICE_X64
  <1> HIDE DEF p, t
  <1>4. t \in Int /\ i \in Int /\ SqrtPrice[t] \in Nat /\ SqrtPrice[i] \in Nat
    BY <1>1, TickIndexAssumption, TickPrices
  <1>5. t < i => p < SqrtPrice[i]
    <2> SUFFICES ASSUME t < i PROVE p < SqrtPrice[i]
      OBVIOUS
    <2>1. t < MAX_TICK_INDEX /\ t + 1 \in MIN_TICK_INDEX..MAX_TICK_INDEX /\ t + 1 <= i
      BY <1>1, <1>4, TickIndexAssumption
    <2>2. SqrtPrice[t + 1] <= SqrtPrice[i] /\ SqrtPrice[t + 1] \in Nat
      BY <2>1, PriceOrder, TickPrices
    <2> QED BY <1>1, <1>3, <1>4, <2>1, <2>2
  <1>6. i <= t => SqrtPrice[i] <= SqrtPrice[t]
    BY <1>1, PriceOrder
  <1>7. pool.tick < i => p <= SqrtPrice[i]
    <2>1. CASE t = i
      BY <1>1, <1>2, <1>3, <1>4, <2>1
    <2>2. CASE t # i
      BY <1>2, <1>3, <1>4, <1>5, <2>2
    <2> QED BY <2>1, <2>2
  <1>8. i <= pool.tick => SqrtPrice[i] <= p
    BY <1>1, <1>2, <1>3, <1>4, <1>6
  <1> QED BY <1>2, <1>4, <1>7, <1>8 DEF p

\* Between a price and itself there are no tokens.
LEMMA NothingBetween ==
    ASSUME NEW x \in Nat \ {0}, NEW L \in Nat, NEW up \in BOOLEAN
    PROVE  getTokenAFromLiquidity(L, x, x, up) = 0 /\ getTokenBFromLiquidity(L, x, x, up) = 0
  <1> DEFINE d == x * x
             z == 0
  <1>1. PriceGap(x, x) = z /\ L * z = z /\ z * WORD = z
    BY Widths DEF PriceGap
  <1>2. d \in Nat \ {0} /\ z \in Nat /\ z \in Int
    BY ProductPositive
  <1> HIDE DEF d
  <1>3. ASSUME NEW c \in Nat \ {0} PROVE DivRound(z, c, up) = 0
    <2>1. z * c = z
      OBVIOUS
    <2> DEFINE e == DivRound(z, c, up)
    <2> HIDE DEF z
    <2>2. e \in Nat /\ e <= z
      BY <1>2, <2>1, Rounding
    <2> HIDE DEF e
    <2>3. e = 0
      BY <2>2 DEF z
    <2> QED BY <2>3 DEF e
  <1>4. DivRound(z, d, up) = 0 /\ DivRound(z, WORD, up) = 0
    BY <1>2, <1>3, Widths
  <1> HIDE DEF z
  <1>5. getTokenAFromLiquidity(L, x, x, up) = DivRound(z, d, up)
    BY <1>1 DEF getTokenAFromLiquidity, d
  <1>6. getTokenBFromLiquidity(L, x, x, up) = DivRound(z, WORD, up)
    BY <1>1 DEF getTokenBFromLiquidity
  <1> QED BY <1>4, <1>5, <1>6

\* The program, which compares ticks, moves what the SDK estimates, which compares
\* prices, if these are u64s.
LEMMA DeltasAsEstimated ==
    ASSUME PoolAtPrice, quote.lower \in MIN_TICK_INDEX..MAX_TICK_INDEX,
           quote.upper \in MIN_TICK_INDEX..MAX_TICK_INDEX, quote.lower <= quote.upper,
           quote.liquidity \in Nat, NEW up \in BOOLEAN, NEW e,
           e = TokenEstimates(quote.liquidity, pool.sqrt_price, quote.lower, quote.upper, up),
           \A s \in Sides : e[s] <= U64MAX
    PROVE  \A s \in Sides : TokenDeltas(up)[s] = e[s] /\ e[s] \in U64
  <1> DEFINE lower == quote.lower
             upper == quote.upper
             L == quote.liquidity
             p == pool.sqrt_price
             l == SqrtPrice[lower]
             u == SqrtPrice[upper]
             x == NearestIn(p, l, u)
             a == getTokenAFromLiquidity(L, x, u, up)
             b == getTokenBFromLiquidity(L, l, x, up)
  <1>1. p \in Nat \ {0}
    BY TickIndexAssumption, TickPrices DEF PoolAtPrice, MIN_SQRT_PRICE_X64, MAX_SQRT_PRICE_X64
  <1>2. /\ l \in 1..MAX_SQRT_PRICE_X64 /\ u \in 1..MAX_SQRT_PRICE_X64 /\ x \in 1..MAX_SQRT_PRICE_X64
        /\ l \in Nat \ {0} /\ u \in Nat \ {0} /\ x \in Nat \ {0} /\ l <= x /\ x <= u
        /\ e = [a |-> a, b |-> b]
    <2> DEFINE ll == l
               uu == u
               xx == x
    <2>1. ll = SqrtPrice[lower] /\ uu = SqrtPrice[upper] /\ xx = NearestIn(p, ll, uu)
          /\ e = TokenEstimates(L, p, lower, upper, up)
          /\ lower \in MIN_TICK_INDEX..MAX_TICK_INDEX /\ upper \in MIN_TICK_INDEX..MAX_TICK_INDEX
          /\ lower <= upper /\ L \in Nat
      OBVIOUS
    <2> HIDE DEF ll, uu, xx, L, p, lower, upper
    <2>2. /\ ll \in 1..MAX_SQRT_PRICE_X64 /\ uu \in 1..MAX_SQRT_PRICE_X64
          /\ xx \in 1..MAX_SQRT_PRICE_X64
          /\ ll \in Nat \ {0} /\ uu \in Nat \ {0} /\ xx \in Nat \ {0} /\ ll <= xx /\ xx <= uu
          /\ e = [a |-> getTokenAFromLiquidity(L, xx, uu, up),
                  b |-> getTokenBFromLiquidity(L, ll, xx, up)]
      BY <1>1, <2>1, EstimatesAt
    <2> QED BY <2>2 DEF ll, uu, xx, L, p, lower, upper
  <1>3. /\ pool.tick \in Int /\ lower \in Int /\ upper \in Int
        /\ pool.tick < lower => p <= l
        /\ lower <= pool.tick => l <= p
        /\ pool.tick < upper => p <= u
        /\ upper <= pool.tick => u <= p
    BY TickSides, TickIndexAssumption
  <1>4. a <= U64MAX /\ b <= U64MAX
    BY <1>2 DEF Sides
  <1>5. get_amount_delta_a(x, u, L, up) = a /\ a \in U64
    BY <1>2, <1>4, AmountAFits
  <1>6. get_amount_delta_b(l, x, L, up) = b /\ b \in U64
    BY <1>2, <1>4, AmountBFits
  <1>7. (x = u => a = 0) /\ (x = l => b = 0)
    BY <1>2, NothingBetween
  <1>8. x = IF p <= l THEN l ELSE IF p >= u THEN u ELSE p
    BY DEF NearestIn
  <1>9. TokenDeltas(up) =
            CASE pool.tick < lower -> [a |-> get_amount_delta_a(l, u, L, up), b |-> 0]
              [] pool.tick \in lower..upper - 1 ->
                    [a |-> get_amount_delta_a(p, u, L, up), b |-> get_amount_delta_b(l, p, L, up)]
              [] pool.tick >= upper -> [a |-> 0, b |-> get_amount_delta_b(l, u, L, up)]
    BY DEF TokenDeltas
  <1> HIDE DEF a, b, x, l, u, p, L, lower, upper
  <1>10. TokenDeltas(up) = [a |-> a, b |-> b]
    <2>1. CASE pool.tick < lower
      <3>1. x = l
        BY <1>1, <1>2, <1>3, <1>8, <2>1
      <3>2. TokenDeltas(up) = [a |-> get_amount_delta_a(l, u, L, up), b |-> 0]
        <4>1. ~(pool.tick \in lower..upper - 1) /\ ~(pool.tick >= upper)
          BY <1>3, <2>1 DEF lower, upper
        <4> QED BY <1>9, <2>1, <4>1
      <3> QED BY <1>5, <1>7, <3>1, <3>2
    <2>2. CASE pool.tick \in lower..upper - 1
      <3>1. x = p
        BY <1>1, <1>2, <1>3, <1>8, <2>2
      <3>2. ~(pool.tick < lower) /\ ~(pool.tick >= upper)
        BY <1>3, <2>2
      <3>3. TokenDeltas(up)
              = [a |-> get_amount_delta_a(p, u, L, up), b |-> get_amount_delta_b(l, p, L, up)]
        BY <1>9, <2>2, <3>2
      <3> QED BY <1>5, <1>6, <3>1, <3>3
    <2>3. CASE pool.tick >= upper
      <3>1. x = u
        BY <1>1, <1>2, <1>3, <1>8, <2>3
      <3>2. TokenDeltas(up) = [a |-> 0, b |-> get_amount_delta_b(l, u, L, up)]
        <4>1. ~(pool.tick < lower) /\ ~(pool.tick \in lower..upper - 1)
          BY <1>3, <2>3 DEF lower, upper
        <4> QED BY <1>9, <2>3, <4>1
      <3> QED BY <1>6, <1>7, <3>1, <3>2
    <2> QED BY <1>3, <2>1, <2>2, <2>3
  <1> QED BY <1>2, <1>5, <1>6, <1>10 DEF Sides

-----------------------------------------------------------------------------
(* Fees on estimates *)

-----------------------------------------------------------------------------
(* The limits of a quote *)

\* The estimates at a price, before transfer fees.
Estimated(p) ==
    TokenEstimates(quote.liquidity, p, quote.lower, quote.upper, ask.kind = "increase")

\* The limits before fees: the estimates slipped, or the worst at the three prices.
Limited ==
    LET up == ask.kind = "increase"
        around == AtBounds(quote.liquidity, quote.at, quote.lower, quote.upper, ask.slippage, up)
    IN  IF ask.on = "amounts"
        THEN [s \in Sides |-> adjustForSlippage(Estimated(quote.at)[s], ask.slippage, up)]
        ELSE IF up THEN Most(around) ELSE Least2(around)

WithFees(amounts) == IF ask.kind = "increase" THEN Included(amounts) ELSE Excluded(amounts)

\* What a quote says, and how far the pool may have moved from it.
QuoteStands ==
    /\ ask \in Asks /\ ask.kind \in {"increase", "decrease"} /\ ask.on \in {"amounts", "price"}
    /\ quote.at \in Prices
    /\ checkTickInBounds(quote.lower) /\ checkTickInBounds(quote.upper)
    /\ quote.lower <= quote.upper
    /\ ask.kind = "decrease" =>
          quote.liquidity = ask.amount /\ quote.lower = ask.lower /\ quote.upper = ask.upper
    /\ quote.estimates = WithFees(Estimated(quote.at)) /\ ~Thrown(quote.estimates)
    /\ quote.limits = WithFees(Limited) /\ ~Thrown(quote.limits)
    /\ PoolAtPrice
    /\ \/ pool.sqrt_price = quote.at
       \/ pool.sqrt_price \in getSlippageBoundForSqrtPrice(quote.at, ask.slippage).lower..
                              getSlippageBoundForSqrtPrice(quote.at, ask.slippage).upper

\* Estimates are numbers of tokens.
LEMMA EstimatesNat ==
    ASSUME NEW p \in Nat \ {0}, NEW lower \in MIN_TICK_INDEX..MAX_TICK_INDEX,
           NEW upper \in MIN_TICK_INDEX..MAX_TICK_INDEX, lower <= upper,
           NEW L \in Nat, NEW up \in BOOLEAN
    PROVE  \A s \in Sides : TokenEstimates(L, p, lower, upper, up)[s] \in Nat
  <1> DEFINE l == SqrtPrice[lower]
             u == SqrtPrice[upper]
             x == NearestIn(p, l, u)
  <1>1. l = SqrtPrice[lower] /\ u = SqrtPrice[upper] /\ x = NearestIn(p, l, u)
    OBVIOUS
  <1> HIDE DEF l, u, x
  <1> QED BY <1>1, EstimatesAt

\* The greatest and the least of three numbers.
LEMMA EndsOfThree ==
    ASSUME NEW a \in Int, NEW b \in Int, NEW c \in Int
    PROVE  /\ Max({a, b, c}) \in {a, b, c} /\ Min({a, b, c}) \in {a, b, c}
           /\ \A x \in {a, b, c} : x <= Max({a, b, c}) /\ Min({a, b, c}) <= x
  <1> DEFINE S == {a, b, c}
  <1>1. /\ \E x \in S : \A y \in S : x >= y
        /\ \E x \in S : \A y \in S : x <= y
    OBVIOUS
  <1>2. \A y \in S : y \in Int
    OBVIOUS
  <1> HIDE DEF S
  <1>3. /\ Max(S) \in S /\ \A y \in S : Max(S) >= y
        /\ Min(S) \in S /\ \A y \in S : Min(S) <= y
    BY <1>1 DEF Max, Min
  <1>4. \A y \in S : y <= Max(S) /\ Min(S) <= y
    BY <1>2, <1>3
  <1> QED BY <1>3, <1>4 DEF S

\* The highest and the least of three estimates.
LEMMA AmongBounds ==
    ASSUME NEW e, NEW f, NEW g, NEW s \in Sides, e[s] \in Nat, f[s] \in Nat, g[s] \in Nat
    PROVE  /\ Most({e, f, g})[s] \in Nat /\ Least2({e, f, g})[s] \in Nat
           /\ e[s] <= Most({e, f, g})[s] /\ f[s] <= Most({e, f, g})[s] /\ g[s] <= Most({e, f, g})[s]
           /\ Least2({e, f, g})[s] <= e[s] /\ Least2({e, f, g})[s] <= f[s]
           /\ Least2({e, f, g})[s] <= g[s]
  <1> DEFINE S == {n[s] : n \in {e, f, g}}
             x == e[s]
             y == f[s]
             z == g[s]
  <1>1. S = {x, y, z} /\ x \in Nat /\ y \in Nat /\ z \in Nat
    OBVIOUS
  <1>2. Most({e, f, g})[s] = Max(S) /\ Least2({e, f, g})[s] = Min(S)
    BY DEF Most, Least2
  <1> HIDE DEF S, x, y, z
  <1>3. /\ Max(S) \in S /\ Min(S) \in S /\ \A i \in S : i <= Max(S) /\ Min(S) <= i
    <2>1. x \in Int /\ y \in Int /\ z \in Int
      BY <1>1
    <2>2. /\ Max({x, y, z}) \in {x, y, z} /\ Min({x, y, z}) \in {x, y, z}
          /\ \A i \in {x, y, z} : i <= Max({x, y, z}) /\ Min({x, y, z}) <= i
      BY <2>1, EndsOfThree, ZenonT(60)
    <2>3. S = {x, y, z}
      BY <1>1
    <2> QED BY <2>2, <2>3, Zenon
  <1>4. /\ Max(S) \in Nat /\ Min(S) \in Nat /\ x <= Max(S) /\ y <= Max(S) /\ z <= Max(S)
        /\ Min(S) <= x /\ Min(S) <= y /\ Min(S) <= z
    BY <1>1, <1>3
  <1> QED BY <1>2, <1>4 DEF x, y, z

\* While the price is within the tolerance, or has not moved, the limits are on
\* the safe side of what the program moves.
LEMMA LimitsBound ==
    ASSUME QuoteInputs, QuoteStands, quote.liquidity \in Nat, NEW up \in BOOLEAN,
           up = (ask.kind = "increase"),
           ask.on = "price" \/ pool.sqrt_price = quote.at, NEW s \in Sides
    PROVE  /\ Estimated(pool.sqrt_price)[s] \in Nat /\ Limited[s] \in Nat
           /\ up => Estimated(pool.sqrt_price)[s] <= Limited[s]
           /\ ~up => Limited[s] <= Estimated(pool.sqrt_price)[s]
  <1> DEFINE lower == quote.lower
             upper == quote.upper
             L == quote.liquidity
             p == quote.at
             q == pool.sqrt_price
             bounds == getSlippageBoundForSqrtPrice(p, ask.slippage)
             E(x) == TokenEstimates(L, x, lower, upper, up)
             e == E(p)
             f == E(bounds.lower)
             g == E(bounds.upper)
             h == E(q)
             around == {e, f, g}
  <1>1. /\ lower \in MIN_TICK_INDEX..MAX_TICK_INDEX /\ upper \in MIN_TICK_INDEX..MAX_TICK_INDEX
        /\ lower <= upper /\ L \in Nat
        /\ ask.slippage.denominator \in Nat \ {0}
        /\ ask.slippage.numerator \in 0..ask.slippage.denominator
    BY DEF QuoteStands, QuoteInputs, checkTickInBounds
  <1>2. \A x \in MIN_SQRT_PRICE_X64..MAX_SQRT_PRICE_X64 : x \in Nat \ {0}
    BY TickIndexAssumption, TickPrices DEF MIN_SQRT_PRICE_X64, MAX_SQRT_PRICE_X64
  <1>3. p \in MIN_SQRT_PRICE_X64..MAX_SQRT_PRICE_X64 /\ q \in MIN_SQRT_PRICE_X64..MAX_SQRT_PRICE_X64
    BY DEF QuoteStands, PoolAtPrice, QuoteInputs
  <1>4. /\ bounds.lower \in MIN_SQRT_PRICE_X64..MAX_SQRT_PRICE_X64
        /\ bounds.upper \in MIN_SQRT_PRICE_X64..MAX_SQRT_PRICE_X64
    BY <1>1, <1>3, BoundsTyped
  <1>5. /\ p \in Nat \ {0} /\ q \in Nat \ {0} /\ bounds.lower \in Nat \ {0} /\ bounds.upper \in Nat \ {0}
        /\ q = p \/ (bounds.lower <= q /\ q <= bounds.upper)
    <2>1. /\ p \in Nat \ {0} /\ q \in Nat \ {0} /\ bounds.lower \in Nat \ {0} /\ bounds.upper \in Nat \ {0}
      BY <1>2, <1>3, <1>4
    <2>2. q = p \/ q \in bounds.lower..bounds.upper
      BY DEF QuoteStands
    <2> QED BY <2>1, <2>2
  <1>6. \A x \in Nat \ {0} : E(x)[s] \in Nat
    <2> SUFFICES ASSUME NEW x \in Nat \ {0} PROVE E(x)[s] \in Nat
      OBVIOUS
    <2> HIDE DEF L, lower, upper
    <2>1. \A r \in Sides : TokenEstimates(L, x, lower, upper, up)[r] \in Nat
      BY <1>1, EstimatesNat
    <2> QED BY <2>1
  <1>7. Estimated(q) = h /\ Estimated(p) = e
    BY DEF Estimated
  <1>8. /\ e[s] \in Nat /\ f[s] \in Nat /\ g[s] \in Nat /\ h[s] \in Nat
    BY <1>5, <1>6
  <1>9. CASE ask.on = "amounts"
    <2>1. h = e
      BY <1>9
    <2>2. Limited[s] = adjustForSlippage(e[s], ask.slippage, up)
      BY <1>7, <1>9 DEF Limited
    <2> HIDE DEF e, h, E
    <2> DEFINE n == e[s]
    <2>3. n \in Nat
      BY <1>8
    <2> HIDE DEF n
    <2>4. /\ adjustForSlippage(n, ask.slippage, TRUE) \in Nat
          /\ n <= adjustForSlippage(n, ask.slippage, TRUE)
          /\ adjustForSlippage(n, ask.slippage, FALSE) \in Nat
          /\ adjustForSlippage(n, ask.slippage, FALSE) <= n
      BY <1>1, <2>3, SlippageMoves
    <2>5. CASE up
      <3>1. up = TRUE
        BY <2>5
      <3> QED BY <1>7, <2>1, <2>2, <2>3, <2>4, <3>1 DEF n
    <2>6. CASE ~up
      <3>1. up = FALSE
        BY <2>6
      <3> QED BY <1>7, <2>1, <2>2, <2>3, <2>4, <3>1 DEF n
    <2> QED BY <2>5, <2>6
  <1>10. CASE ask.on = "price"
    <2>1. Limited = IF up THEN Most(around) ELSE Least2(around)
      <3>1. AtBounds(L, p, lower, upper, ask.slippage, up) = around
        BY DEF AtBounds
      <3> QED BY <1>10, <3>1 DEF Limited
    <2>2. /\ h[s] <= e[s] \/ h[s] <= f[s] \/ h[s] <= g[s]
          /\ e[s] <= h[s] \/ f[s] <= h[s] \/ g[s] <= h[s]
      <3>1. CASE q = p
        BY <1>8, <3>1
      <3>2. CASE bounds.lower <= q /\ q <= bounds.upper
        <4> DEFINE low == bounds.lower
                   high == bounds.upper
        <4>1. low \in Nat \ {0} /\ high \in Nat \ {0} /\ low <= q /\ q <= high
          BY <1>5, <3>2
        <4> HIDE DEF low, high, q, L, lower, upper, bounds
        <4>2. h["a"] <= E(low)["a"] /\ E(low)["b"] <= h["b"]
          BY <1>1, <1>5, <4>1, EstimatesFollowPrice
        <4>3. E(high)["a"] <= h["a"] /\ h["b"] <= E(high)["b"]
          BY <1>1, <1>5, <4>1, EstimatesFollowPrice
        <4>4. f = E(low) /\ g = E(high)
          BY DEF low, high
        <4> HIDE DEF f, g, h, E
        <4> QED BY <4>2, <4>3, <4>4 DEF Sides
      <3> QED BY <1>5, <3>1, <3>2
    <2> HIDE DEF e, f, g, h, E
    <2>3. /\ Most(around)[s] \in Nat /\ Least2(around)[s] \in Nat
          /\ e[s] <= Most(around)[s] /\ f[s] <= Most(around)[s] /\ g[s] <= Most(around)[s]
          /\ Least2(around)[s] <= e[s] /\ Least2(around)[s] <= f[s] /\ Least2(around)[s] <= g[s]
      BY <1>8, AmongBounds
    <2> DEFINE m == Most(around)[s]
               k == Least2(around)[s]
    <2>4. m \in Nat /\ k \in Nat /\ h[s] <= m /\ k <= h[s]
      <3> DEFINE ee == e[s]
                 ff == f[s]
                 gg == g[s]
                 hh == h[s]
      <3> HIDE DEF m, k, ee, ff, gg, hh
      <3>1. /\ ee \in Nat /\ ff \in Nat /\ gg \in Nat /\ hh \in Nat /\ m \in Nat /\ k \in Nat
            /\ ee <= m /\ ff <= m /\ gg <= m /\ k <= ee /\ k <= ff /\ k <= gg
            /\ hh <= ee \/ hh <= ff \/ hh <= gg
            /\ ee <= hh \/ ff <= hh \/ gg <= hh
        BY <1>8, <2>2, <2>3 DEF m, k, ee, ff, gg, hh
      <3> QED BY <3>1 DEF hh
    <2>5. Limited[s] = IF up THEN m ELSE k
      BY <2>1
    <2> HIDE DEF m, k
    <2> QED BY <1>7, <1>8, <2>4, <2>5
  <1> QED BY <1>9, <1>10 DEF QuoteStands

-----------------------------------------------------------------------------
(* What the program makes of a quote *)

\* The range of a quote, and the fees its amounts are subject to.
LEMMA QuoteTypes ==
    ASSUME QuoteInputs, QuoteStands
    PROVE  /\ quote.lower \in MIN_TICK_INDEX..MAX_TICK_INDEX
           /\ quote.upper \in MIN_TICK_INDEX..MAX_TICK_INDEX /\ quote.lower <= quote.upper
           /\ \A s \in Sides : Fee(s) \in FeeSettings
  BY DEF QuoteInputs, QuoteStands, Fee, Sides, checkTickInBounds

\* A deposit moves what the quote estimates for the pool's price, and its sender
\* sends no more than the limit.
LEMMA DepositWithin ==
    ASSUME QuoteInputs, QuoteStands, ask.kind = "increase", Encodable(quote),
           ask.on = "price" \/ pool.sqrt_price = quote.at, NEW s \in Sides
    PROVE  /\ TokenDeltas(TRUE)[s] \in U64
           /\ Deposit[s] = Included(Estimated(pool.sqrt_price))[s]
           /\ Deposit[s] \in 0..quote.limits[s] /\ quote.limits[s] \in U64
  <1> DEFINE est(r) == Estimated(pool.sqrt_price)[r]
             max(r) == Limited[r]
             limit(r) == quote.limits[r]
  <1>1. quote.liquidity \in Nat /\ \A r \in Sides : limit(r) \in U64
    BY Unsigned DEF Encodable
  <1>2. ASSUME NEW r \in Sides
        PROVE  /\ est(r) \in Nat /\ est(r) <= U64MAX
               /\ calculateTransferFeeIncludedAmount(Fee(r), est(r)) \in 0..limit(r)
               /\ calculate_transfer_fee_included_amount(Fee(r), est(r))
                    = calculateTransferFeeIncludedAmount(Fee(r), est(r))
    <2> DEFINE n == est(r)
               m == max(r)
               fee == Fee(r)
               x == limit(r)
               up == TRUE
    <2>1. up = (ask.kind = "increase") /\ up = TRUE /\ up \in BOOLEAN
      OBVIOUS
    <2>2. n \in Nat /\ m \in Nat /\ n <= m
      <3> HIDE DEF up
      <3> QED BY <1>1, <2>1, LimitsBound
    <2>3. x = calculateTransferFeeIncludedAmount(fee, m) /\ x # Err
      BY DEF QuoteStands, WithFees, Included, Thrown
    <2>4. x \in Nat /\ x <= U64MAX /\ U64MAX \in Nat /\ fee \in FeeSettings
      BY <1>1, Unsigned, Widths, QuoteTypes
    <2> HIDE DEF n, m, fee, x
    <2>5. /\ calculateTransferFeeIncludedAmount(fee, n) \in 0..x
          /\ calculate_transfer_fee_included_amount(fee, n)
               = calculateTransferFeeIncludedAmount(fee, n)
          /\ n <= x
      BY <2>2, <2>3, <2>4, IncludedWithin
    <2>6. n <= U64MAX
      BY <2>2, <2>4, <2>5
    <2> QED BY <2>2, <2>5, <2>6 DEF n, fee, x
  <1>3. \A r \in Sides : TokenDeltas(TRUE)[r] = est(r) /\ est(r) \in U64
    <2> DEFINE e == Estimated(pool.sqrt_price)
               up == TRUE
    <2>1. /\ e = TokenEstimates(quote.liquidity, pool.sqrt_price, quote.lower, quote.upper, up)
          /\ up \in BOOLEAN
      BY DEF Estimated
    <2>2. PoolAtPrice /\ \A r \in Sides : e[r] <= U64MAX
      BY <1>2 DEF QuoteStands
    <2> HIDE DEF e, up
    <2>3. \A r \in Sides : TokenDeltas(up)[r] = e[r] /\ e[r] \in U64
      BY <1>1, <2>1, <2>2, QuoteTypes, DeltasAsEstimated
    <2> QED BY <2>3 DEF e, up
  <1>4. /\ Deposit[s] = calculate_transfer_fee_included_amount(Fee(s), est(s))
        /\ Included(Estimated(pool.sqrt_price))[s]
             = calculateTransferFeeIncludedAmount(Fee(s), est(s))
    BY <1>3 DEF Deposit, Included
  <1> HIDE DEF est, limit
  <1>5. Deposit[s] = Included(Estimated(pool.sqrt_price))[s] /\ Deposit[s] \in 0..limit(s)
    BY <1>2, <1>4
  <1> QED BY <1>1, <1>3, <1>5 DEF limit

\* A withdrawal moves what the quote estimates for the pool's price, and of that
\* the fee leaves its receiver no less than the limit.
LEMMA WithdrawalWithin ==
    ASSUME QuoteInputs, PositionsExist, QuoteStands, ask.kind = "decrease", Encodable(quote),
           ask.on = "price" \/ pool.sqrt_price = quote.at, NEW s \in Sides
    PROVE  /\ TokenDeltas(FALSE)[s] \in U64
           /\ Withdrawal[s] = Excluded(Estimated(pool.sqrt_price))[s]
           /\ Withdrawal[s] >= quote.limits[s]
  <1> DEFINE est(r) == Estimated(pool.sqrt_price)[r]
             e == Estimated(pool.sqrt_price)
             down == FALSE
  <1>1. quote.liquidity \in Nat
    BY Unsigned DEF Encodable
  <1>2. /\ e = TokenEstimates(quote.liquidity, pool.sqrt_price, quote.lower, quote.upper, down)
        /\ down = FALSE /\ down = (ask.kind = "increase") /\ down \in BOOLEAN
    BY DEF Estimated
  <1>3. \A r \in Sides : e[r] \in U64
    <2> DEFINE bounds == getSlippageBoundForSqrtPrice(quote.at, ask.slippage)
               a == ask
               p == quote.at
               q == pool.sqrt_price
    <2>1. /\ a \in Asks /\ p \in Prices /\ a.kind = "decrease"
          /\ q \in {p} \cup bounds.lower..bounds.upper
          /\ quote.liquidity = a.amount /\ quote.lower = a.lower /\ quote.upper = a.upper
      BY DEF QuoteStands
    <2>2. bounds = getSlippageBoundForSqrtPrice(p, a.slippage)
      OBVIOUS
    <2> HIDE DEF a, p, q, bounds, e
    <2>3. \A r \in Sides : TokenEstimates(a.amount, q, a.lower, a.upper, FALSE)[r] \in U64
      BY <2>1, <2>2 DEF PositionsExist
    <2>4. e = TokenEstimates(a.amount, q, a.lower, a.upper, FALSE)
      BY <1>2, <2>1 DEF q
    <2> QED BY <2>3, <2>4
  <1>4. \A r \in Sides : TokenDeltas(down)[r] = e[r] /\ e[r] \in U64
    <2>1. PoolAtPrice /\ \A r \in Sides : e[r] <= U64MAX
      BY <1>3, Unsigned DEF QuoteStands
    <2> HIDE DEF e, down
    <2> QED BY <1>1, <1>2, <2>1, QuoteTypes, DeltasAsEstimated
  <1> DEFINE n == e[s]
             m == Limited[s]
             fee == Fee(s)
  <1>5. n \in Nat /\ m \in Nat /\ m <= n
    <2> HIDE DEF down
    <2> QED BY <1>1, <1>2, LimitsBound
  <1>6. /\ Withdrawal[s] = calculate_transfer_fee_excluded_amount(fee, n)
        /\ Excluded(e)[s] = calculateTransferFeeExcludedAmount(fee, n)
        /\ quote.limits[s] = calculateTransferFeeExcludedAmount(fee, m)
        /\ fee \in FeeSettings
    BY <1>4, QuoteTypes DEF Withdrawal, Excluded, QuoteStands, WithFees
  <1>7. /\ Withdrawal[s] = Excluded(e)[s]
        /\ quote.limits[s] = calculate_transfer_fee_excluded_amount(fee, m)
    BY <1>6 DEF calculateTransferFeeExcludedAmount, calculate_transfer_fee_excluded_amount
  <1> HIDE DEF n, m, fee, e
  <1>8. /\ calculate_transfer_fee_excluded_amount(fee, m)
             <= calculate_transfer_fee_excluded_amount(fee, n)
        /\ calculate_transfer_fee_excluded_amount(fee, m) \in Nat
        /\ calculate_transfer_fee_excluded_amount(fee, n) \in Nat
    BY <1>5, <1>6, FeeLeavesMore, FeeLeavesNat
  <1>9. Withdrawal[s] >= quote.limits[s]
    BY <1>6, <1>7, <1>8
  <1> QED BY <1>4, <1>7, <1>9 DEF e

-----------------------------------------------------------------------------
(* Quotes stand, and are what the program does *)

\* A quote stands until it is used, at the pool's price while nobody has swapped.
QuotedInv ==
    /\ ask \in Asks /\ PoolAtPrice
    /\ phase = "asked" => pool.sqrt_price \in Prices
    /\ phase \in {"quoted", "moved"} => QuoteStands
    /\ phase = "quoted" => pool.sqrt_price = quote.at
    /\ LimitsCover

LEMMA QuotedInvInit == ASSUME QuoteInputs, Init PROVE QuotedInv
  BY DEF Init, QuotedInv, PoolAtPrice, LimitsCover, QuoteInputs

\* An answer at the pool's price, of estimates and limits as they should be.
LEMMA AnswerStands ==
    ASSUME QuoteInputs, QuotedInv, phase = "asked",
           ask.kind \in {"increase", "decrease"}, ask.on \in {"amounts", "price"},
           NEW lower, NEW upper, NEW L, checkTickInBounds(lower), checkTickInBounds(upper),
           lower <= upper,
           ask.kind = "decrease" => L = ask.amount /\ lower = ask.lower /\ upper = ask.upper,
           NEW est, est = TokenEstimates(L, pool.sqrt_price, lower, upper, ask.kind = "increase"),
           NEW most,
           most = LET up == ask.kind = "increase"
                      around == AtBounds(L, pool.sqrt_price, lower, upper, ask.slippage, up)
                  IN  IF ask.on = "amounts"
                      THEN [s \in Sides |-> adjustForSlippage(est[s], ask.slippage, up)]
                      ELSE IF up THEN Most(around) ELSE Least2(around),
           Answer(QuoteOf(lower, upper, L, WithFees(est), WithFees(most)))
    PROVE  QuotedInv'
  <1>1. /\ ask \in Asks /\ PoolAtPrice /\ pool.sqrt_price \in Prices
    BY DEF QuotedInv
  <1>2. UNCHANGED <<pool, ask>> /\ phase' \in {"quoted", "thrown"}
    BY DEF Answer
  <1>3. PoolAtPrice'
    BY <1>1, <1>2 DEF PoolAtPrice
  <1>4. ASSUME phase' = "quoted" PROVE QuoteStands' /\ pool'.sqrt_price = quote'.at
    <2> DEFINE q == QuoteOf(lower, upper, L, WithFees(est), WithFees(most))
    <2>1. /\ q.lower = lower /\ q.upper = upper /\ q.liquidity = L /\ q.at = pool.sqrt_price
          /\ q.estimates = WithFees(est) /\ q.limits = WithFees(most)
      BY DEF QuoteOf
    <2> HIDE DEF q
    <2>2. quote' = q /\ ~Thrown(q.estimates) /\ ~Thrown(q.limits)
      BY <1>4 DEF Answer, q
    <2>3. Estimated(quote.at)' = est
      BY <1>2, <2>1, <2>2 DEF Estimated
    <2>4. Limited' = most
      BY <1>2, <2>1, <2>2, <2>3 DEF Limited
    <2>5. WithFees(Estimated(quote.at))' = WithFees(est) /\ WithFees(Limited)' = WithFees(most)
      BY <1>2, <2>3, <2>4 DEF WithFees, Included, Excluded, Fee
    <2> QED BY <1>1, <1>2, <1>3, <2>1, <2>2, <2>5 DEF QuoteStands
  <1> QED BY <1>1, <1>2, <1>3, <1>4 DEF QuotedInv, LimitsCover

\* A deposit's quote.
LEMMA IncreaseStands ==
    ASSUME QuoteInputs, QuotedInv, AskIncrease PROVE QuotedInv'
  <1> DEFINE lower == getInitializableTickIndex(ask.lower)
             upper == getInitializableTickIndex(ask.upper)
             L == getLiquidityFromInputToken(ask.side, ask.amount, pool.sqrt_price, lower, upper)
             p == pool.sqrt_price
             est == TokenEstimates(L, p, lower, upper, TRUE)
             around == AtBounds(L, p, lower, upper, ask.slippage, TRUE)
             by_amounts == [s \in Sides |-> adjustForSlippage(est[s], ask.slippage, TRUE)]
             by_price == Most(around)
             q(most) == QuoteOf(lower, upper, L, Included(est), Included(most))
  <1>1. phase = "asked" /\ ask.kind = "increase" /\ ask \in Asks
    BY DEF AskIncrease, QuotedInv
  <1>2. lower \in Int /\ upper \in Int
    BY <1>1, TickOnGrid DEF QuoteInputs
  <1>3. CASE phase' = "thrown" /\ UNCHANGED <<pool, ask, quote>>
    BY <1>3 DEF QuotedInv, LimitsCover, PoolAtPrice
  <1>4. CASE /\ checkTickInBounds(lower) /\ checkTickInBounds(upper)
             /\ ~(ask.on = "price" /\ lower >= upper)
             /\ \/ ask.on = "amounts" /\ IncreaseByAmounts(lower, upper, L)
                \/ ask.on = "price" /\ IncreaseByPrice(lower, upper, L)
    <2>1. lower <= upper
      <3>1. ask.on = "amounts" => lower <= upper
        BY <1>1 DEF QuoteInputs
      <3> HIDE DEF lower, upper
      <3> QED BY <1>2, <1>4, <3>1
    <2>2. /\ \A x : WithFees(x) = Included(x)
          /\ (ask.kind = "increase") = TRUE
      BY <1>1 DEF WithFees
    <2>3. CASE ask.on = "amounts"
      <3>1. Answer(q(by_amounts))
        BY <1>4, <2>3, Zenon DEF IncreaseByAmounts
      <3> HIDE DEF lower, upper, L
      <3> QED BY <1>1, <1>4, <2>1, <2>2, <2>3, <3>1, AnswerStands
    <2>4. CASE ask.on = "price"
      <3>1. Answer(q(by_price))
        BY <1>4, <2>4, Zenon DEF IncreaseByPrice
      <3> HIDE DEF lower, upper, L
      <3> QED BY <1>1, <1>4, <2>1, <2>2, <2>4, <3>1, AnswerStands
    <2> QED BY <1>4, <2>3, <2>4
  <1> QED BY <1>3, <1>4, Zenon DEF AskIncrease

\* A withdrawal's quote.
LEMMA DecreaseStands ==
    ASSUME QuoteInputs, QuotedInv, AskDecrease PROVE QuotedInv'
  <1> DEFINE lower == ask.lower
             upper == ask.upper
             L == ask.amount
             p == pool.sqrt_price
             est == TokenEstimates(L, p, lower, upper, FALSE)
             around == AtBounds(L, p, lower, upper, ask.slippage, FALSE)
             by_amounts == [s \in Sides |-> adjustForSlippage(est[s], ask.slippage, FALSE)]
             by_price == Least2(around)
             q(least) == QuoteOf(lower, upper, L, Excluded(est), Excluded(least))
  <1>1. phase = "asked" /\ ask.kind = "decrease" /\ ask \in Asks
    BY DEF AskDecrease, QuotedInv
  <1>2. checkTickInBounds(lower) /\ checkTickInBounds(upper) /\ lower <= upper
    <2>1. checkTickInBounds(lower) /\ checkTickInBounds(upper) /\ lower < upper
      BY <1>1 DEF QuoteInputs
    <2> QED BY <2>1, TickIndexAssumption DEF checkTickInBounds
  <1>3. /\ \A x : WithFees(x) = Excluded(x)
        /\ (ask.kind = "increase") = FALSE
    BY <1>1 DEF WithFees
  <1>4. CASE ask.on = "amounts" /\ DecreaseByAmounts(lower, upper, L)
    <2>1. Answer(q(by_amounts))
      BY <1>4, Zenon DEF DecreaseByAmounts
    <2> QED BY <1>1, <1>2, <1>3, <1>4, <2>1, AnswerStands
  <1>5. CASE ask.on = "price" /\ DecreaseByPrice(lower, upper, L)
    <2>1. Answer(q(by_price))
      BY <1>5, Zenon DEF DecreaseByPrice
    <2> QED BY <1>1, <1>2, <1>3, <1>5, <2>1, AnswerStands
  <1> QED BY <1>4, <1>5, Zenon DEF AskDecrease

\* A swap within the tolerance leaves the quote standing.
LEMMA SwapStands ==
    ASSUME QuoteInputs, QuotedInv, Swap PROVE QuotedInv'
  <1> DEFINE bounds == getSlippageBoundForSqrtPrice(quote.at, ask.slippage)
  <1>1. phase' = "moved" /\ UNCHANGED <<ask, quote>> /\ QuoteStands
    BY DEF Swap, QuotedInv
  <1>2. PICK p \in bounds.lower..bounds.upper :
           \E t \in TicksAt(p) : pool' = [sqrt_price |-> p, tick |-> t]
    BY DEF Swap
  <1>3. /\ ask \in Asks /\ quote.at \in MIN_SQRT_PRICE_X64..MAX_SQRT_PRICE_X64
        /\ ask.slippage.denominator \in Nat \ {0}
        /\ ask.slippage.numerator \in 0..ask.slippage.denominator
    BY <1>1 DEF QuoteStands, QuoteInputs
  <1>4. p \in MIN_SQRT_PRICE_X64..MAX_SQRT_PRICE_X64
    <2>1. /\ bounds.lower \in MIN_SQRT_PRICE_X64..MAX_SQRT_PRICE_X64
          /\ bounds.upper \in MIN_SQRT_PRICE_X64..MAX_SQRT_PRICE_X64
      BY <1>3, BoundsTyped
    <2>2. MIN_SQRT_PRICE_X64 \in Int /\ MAX_SQRT_PRICE_X64 \in Int
      BY TickIndexAssumption, TickPrices DEF MIN_SQRT_PRICE_X64, MAX_SQRT_PRICE_X64
    <2> HIDE DEF bounds
    <2> QED BY <1>2, <2>1, <2>2
  <1>5. PoolAtPrice' /\ pool'.sqrt_price = p
    BY <1>2, <1>4 DEF PoolAtPrice
  <1>6. Estimated(quote.at)' = Estimated(quote.at) /\ Limited' = Limited
    BY <1>1 DEF Estimated, Limited
  <1>7. /\ WithFees(Estimated(quote.at))' = WithFees(Estimated(quote.at))
        /\ WithFees(Limited)' = WithFees(Limited)
    BY <1>1, <1>6 DEF WithFees, Included, Excluded, Fee
  <1>8. QuoteStands'
    BY <1>1, <1>2, <1>5, <1>7 DEF QuoteStands
  <1> QED BY <1>1, <1>3, <1>5, <1>8 DEF QuotedInv, LimitsCover

\* Where the limits are sure to hold, the program does not refuse.
LEMMA ExecutionStands ==
    ASSUME QuoteInputs, PositionsExist, QuotedInv, IncreaseLiquidity \/ DecreaseLiquidity
    PROVE  QuotedInv'
  <1>1. UNCHANGED <<pool, ask, quote>> /\ phase' \in {"done", "refused"}
    BY DEF IncreaseLiquidity, DecreaseLiquidity, Outcome
  <1>2. QuoteStands /\ Encodable(quote)
    BY DEF IncreaseLiquidity, DecreaseLiquidity, QuotedInv
  <1>3. ASSUME ask.on = "price" \/ pool.sqrt_price = quote.at PROVE phase' = "done"
    <2>1. CASE IncreaseLiquidity
      <3>1. ask.kind = "increase"
        BY <2>1 DEF IncreaseLiquidity
      <3>2. \A s \in Sides : /\ TokenDeltas(TRUE)[s] \in U64 /\ quote.limits[s] \in U64
                             /\ Deposit[s] \in 0..quote.limits[s]
        BY <1>2, <1>3, <3>1, DepositWithin
      <3>3. \A s \in Sides : /\ TokenDeltas(TRUE)[s] # Err /\ Deposit[s] # Err
                             /\ Deposit[s] <= quote.limits[s]
        <4> SUFFICES ASSUME NEW s \in Sides
                     PROVE  /\ TokenDeltas(TRUE)[s] # Err /\ Deposit[s] # Err
                            /\ Deposit[s] <= quote.limits[s]
          OBVIOUS
        <4> DEFINE x == Deposit[s]
                   y == quote.limits[s]
                   z == TokenDeltas(TRUE)[s]
        <4>1. z \in U64 /\ y \in U64 /\ x \in 0..y
          BY <3>2
        <4> HIDE DEF x, y, z
        <4>2. y \in Nat
          BY <4>1, Unsigned
        <4>3. x \in Nat /\ x <= y
          BY <4>1, <4>2
        <4> QED BY <4>1, <4>3, Unsigned, NoErr DEF x, y, z
      <3> QED BY <2>1, <3>3, Zenon DEF IncreaseLiquidity, Outcome, Thrown
    <2>2. CASE DecreaseLiquidity
      <3>1. ask.kind = "decrease"
        BY <2>2 DEF DecreaseLiquidity
      <3>2. \A s \in Sides : TokenDeltas(FALSE)[s] \in U64 /\ Withdrawal[s] >= quote.limits[s]
        BY <1>2, <1>3, <3>1, WithdrawalWithin
      <3>3. \A s \in Sides : TokenDeltas(FALSE)[s] # Err
        BY <3>2, Unsigned
      <3> QED BY <2>2, <3>2, <3>3, Zenon DEF DecreaseLiquidity, Outcome, Thrown
    <2> QED BY <2>1, <2>2
  <1>4. LimitsCover'
    BY <1>1, <1>2, <1>3 DEF LimitsCover, QuoteStands
  <1> QED BY <1>1, <1>4 DEF QuotedInv, PoolAtPrice

LEMMA QuotedInvNext ==
    ASSUME QuoteInputs, PositionsExist, QuotedInv, [Next]_vars PROVE QuotedInv'
  <1>1. CASE UNCHANGED vars
    BY <1>1 DEF vars, QuotedInv, PoolAtPrice, LimitsCover, QuoteStands, Estimated, Limited,
                WithFees, Included, Excluded, Fee
  <1> QED BY <1>1, IncreaseStands, DecreaseStands, SwapStands, ExecutionStands DEF Next

LEMMA QuotedInvExact == ASSUME QuoteInputs, PositionsExist, QuotedInv PROVE EstimateExact
  <1> SUFFICES ASSUME phase = "quoted", Encodable(quote)
               PROVE  quote.estimates = IF ask.kind = "increase" THEN Deposit ELSE Withdrawal
    BY DEF EstimateExact
  <1>1. QuoteStands /\ pool.sqrt_price = quote.at
    BY DEF QuotedInv
  <1>2. CASE ask.kind = "increase"
    <2>1. quote.estimates = Included(Estimated(pool.sqrt_price))
      BY <1>1, <1>2 DEF QuoteStands, WithFees
    <2>2. \A s \in Sides : Deposit[s] = quote.estimates[s]
      BY <1>1, <1>2, <2>1, DepositWithin
    <2>3. quote.estimates = Deposit
      BY <2>1, <2>2 DEF Deposit, Included
    <2> QED BY <1>2, <2>3
  <1>3. CASE ask.kind = "decrease"
    <2>1. quote.estimates = Excluded(Estimated(pool.sqrt_price))
      BY <1>1, <1>3 DEF QuoteStands, WithFees
    <2>2. \A s \in Sides : Withdrawal[s] = quote.estimates[s]
      BY <1>1, <1>3, <2>1, WithdrawalWithin
    <2>3. quote.estimates = Withdrawal
      BY <2>1, <2>2 DEF Withdrawal, Excluded
    <2> QED BY <1>3, <2>3
  <1> QED BY <1>1, <1>2, <1>3 DEF QuoteStands

\* A quote's estimates are to the token what the program moves while nobody swaps:
\* the SDK, which compares prices, and the program, which compares ticks, agree
\* on both sides of an initialized tick, and no width the program computes with
\* is too small for them (increase-liquidity-quote.ts, liquidity_manager.rs).
THEOREM QuotesExact ==
    ASSUME QuoteInputs, PositionsExist
    PROVE  Spec => []EstimateExact
  <1>1. Init => QuotedInv
    BY QuotedInvInit
  <1>2. QuotedInv /\ [Next]_vars => QuotedInv'
    BY QuotedInvNext
  <1>3. QuotedInv => EstimateExact
    BY QuotedInvExact
  <1> QED BY <1>1, <1>2, <1>3, PTL DEF Spec

\* The limits of a quote hold wherever within the tolerance the price has gone by
\* the time the program acts on it, transfer fees included (increase- and
\* decrease-liquidity-quote.ts, v2/increase_liquidity.rs).
THEOREM LimitsHold ==
    ASSUME QuoteInputs, PositionsExist
    PROVE  Spec => []LimitsCover
  <1>1. Init => QuotedInv
    BY QuotedInvInit
  <1>2. QuotedInv /\ [Next]_vars => QuotedInv'
    BY QuotedInvNext
  <1>3. QuotedInv => LimitsCover
    BY DEF QuotedInv
  <1> QED BY <1>1, <1>2, <1>3, PTL DEF Spec

-----------------------------------------------------------------------------
(* The walk. *)

\* NoTickSkipped is not inductive alone: the search needs arrays on the grid
\* and a tick of the range to start from, and ticks are crossed once because
\* the walk never turns back.
WalkInv ==
    /\ walk.a_to_b \in BOOLEAN /\ walk.arrays \in Seq(Starts)
    /\ walk.initialized \in SUBSET Usable /\ walk.from \in Int
    /\ tick \in Int /\ index \in Nat \ {0}
    /\ IF walk.a_to_b THEN tick <= walk.from ELSE walk.from <= tick
    /\ status = "running" => IF walk.a_to_b THEN MIN_TICK_INDEX <= tick ELSE tick < MAX_TICK_INDEX
    /\ NoTickSkipped

LEMMA InitWalk == WalkInit => WalkInv
  <1> SUFFICES ASSUME WalkInit PROVE WalkInv
    OBVIOUS
  <1> USE TickIndexAssumption
  <1>1. /\ walk.a_to_b \in BOOLEAN /\ walk.arrays \in Sequences3
        /\ walk.initialized \in SUBSET Usable /\ walk.from \in Int
        /\ IF walk.a_to_b THEN walk.from >= MIN_TICK_INDEX ELSE walk.from < MAX_TICK_INDEX
        /\ tick = walk.from /\ index = 1 /\ crossed = {}
    BY DEF WalkInit
  <1>2. walk.arrays \in Seq(Starts)
    <2>1. PICK n \in 1..MaxArrays : walk.arrays \in [1..n -> Starts]
      BY <1>1 DEF Sequences3
    <2> QED BY <2>1, WalkAssumption, SeqDef
  <1>3. \A u \in walk.initialized : u \in Int
    BY <1>1, UsableOnGrid
  <1>4. NoTickSkipped
    BY <1>1, <1>3 DEF NoTickSkipped
  <1> QED BY <1>1, <1>2, <1>4 DEF WalkInv

\* What an iteration that crosses does, with the tick f its search found.
CrossesTo(f) ==
    /\ f \in Int
    /\ IF walk.a_to_b THEN MIN_TICK_INDEX <= f /\ f <= tick /\ tick' = f - 1
                      ELSE tick < f /\ f <= MAX_TICK_INDEX /\ tick' = f
    /\ \A u \in walk.initialized :
           IF walk.a_to_b THEN u <= tick => u <= f ELSE tick < u => f <= u
    /\ crossed' = IF f \in walk.initialized THEN crossed \cup {f} ELSE crossed
    /\ status = "running"
    /\ status' = IF f = IF walk.a_to_b THEN MIN_TICK_INDEX ELSE MAX_TICK_INDEX
                 THEN "limit" ELSE "running"
    /\ UNCHANGED walk

LEMMA CrossFinds ==
    WalkInv /\ Cross => index' \in Nat \ {0} /\ \E f \in Int : CrossesTo(f)
  <1> SUFFICES ASSUME WalkInv, Cross
               PROVE  index' \in Nat \ {0} /\ \E f \in Int : CrossesTo(f)
    OBVIOUS
  <1> DEFINE r == Search
             start == walk.arrays[r.array_index]
             f == r.tick_index
  <1>1. /\ status = "running" /\ ~r.error /\ UNCHANGED walk
        /\ crossed' = IF has_tick(start, f, TickSpacing) /\ f \in walk.initialized
                      THEN crossed \cup {f} ELSE crossed
        /\ index' = ArrayAfter(start, r.array_index, f, TickSpacing, walk.a_to_b)
        /\ tick' = TickAfter(f, walk.a_to_b)
        /\ status' = IF f = IF walk.a_to_b THEN MIN_TICK_INDEX ELSE MAX_TICK_INDEX
                     THEN "limit" ELSE "running"
    BY DEF Cross
  <1>2. /\ walk.a_to_b \in BOOLEAN /\ walk.arrays \in Seq(Starts)
        /\ walk.initialized \in SUBSET Usable /\ tick \in Int /\ index \in Nat \ {0}
        /\ IF walk.a_to_b THEN MIN_TICK_INDEX <= tick ELSE tick < MAX_TICK_INDEX
    BY <1>1 DEF WalkInv
  <1>3. r = get_next_initialized_tick_index(walk.arrays, walk.initialized, tick,
                                            TickSpacing, walk.a_to_b, index)
    BY DEF Search
  <1>4. Reached(walk.initialized, tick, walk.a_to_b, tick)
    BY <1>2 DEF Reached
  <1> HIDE DEF r
  <1>5. /\ r.array_index \in index..Len(walk.arrays)
        /\ f \in Int
        /\ IF walk.a_to_b THEN MIN_TICK_INDEX <= f /\ f <= tick
                          ELSE tick < f /\ f <= MAX_TICK_INDEX
        /\ \A u \in walk.initialized :
              IF walk.a_to_b THEN u <= tick => u <= f ELSE tick < u => f <= u
        /\ f \in walk.initialized => has_tick(start, f, TickSpacing)
    <2>1. \A arrays \in Seq(Starts), initialized \in SUBSET Usable, t \in Int,
              left \in BOOLEAN, first \in Nat \ {0} : \A q :
            /\ Reached(initialized, t, left, t)
            /\ q = get_next_initialized_tick_index(arrays, initialized, t, TickSpacing, left, first)
            /\ ~q.error
            => Sound(q, arrays, initialized, t, left, first)
      BY SearchSound, Zenon
    <2>2. Sound(r, walk.arrays, walk.initialized, tick, walk.a_to_b, index)
      BY <1>1, <1>2, <1>3, <1>4, <2>1, Zenon
    <2> QED BY <2>2 DEF Sound
  <1>6. index' \in Nat \ {0}
    <2>1. r.array_index \in Nat \ {0}
      BY <1>2, <1>5, LenProperties
    <2> QED BY <1>1, <2>1 DEF ArrayAfter
  <1>7. IF walk.a_to_b THEN tick' = f - 1 ELSE tick' = f
    BY <1>1 DEF TickAfter
  <1>8. crossed' = IF f \in walk.initialized THEN crossed \cup {f} ELSE crossed
    BY <1>1, <1>5
  <1> HIDE DEF f, start
  <1>9. CrossesTo(f)
    BY <1>1, <1>5, <1>7, <1>8, Zenon DEF CrossesTo
  <1> QED BY <1>5, <1>6, <1>9

LEMMA CrossKeepsOrder ==
    ASSUME WalkInv, NEW f \in Int, CrossesTo(f)
    PROVE  NoTickSkipped'
  <1>1. /\ walk.a_to_b \in BOOLEAN /\ tick \in Int /\ walk.from \in Int
        /\ \A u \in walk.initialized : u \in Int
    BY UsableOnGrid DEF WalkInv
  <1>2. UNCHANGED walk
    BY DEF CrossesTo
  <1>3. CASE walk.a_to_b
    <2>1. f <= tick /\ tick <= walk.from /\ \A u \in walk.initialized : u <= tick => u <= f
      BY <1>3 DEF CrossesTo, WalkInv
    <2>2. tick' = f - 1
      BY <1>3 DEF CrossesTo
    <2>3. crossed = {u \in walk.initialized : tick < u /\ u <= walk.from}
      BY <1>3 DEF WalkInv, NoTickSkipped
    <2>4. \A u \in walk.initialized :
             f - 1 < u /\ u <= walk.from <=> (tick < u /\ u <= walk.from) \/ u = f
      BY <1>1, <2>1
    <2>5. crossed' = {u \in walk.initialized : tick' < u /\ u <= walk.from}
      BY <2>2, <2>3, <2>4 DEF CrossesTo
    <2> QED BY <1>2, <1>3, <2>5 DEF NoTickSkipped
  <1>4. CASE ~walk.a_to_b
    <2>1. tick < f /\ walk.from <= tick /\ \A u \in walk.initialized : tick < u => f <= u
      BY <1>4 DEF CrossesTo, WalkInv
    <2>2. tick' = f
      BY <1>4 DEF CrossesTo
    <2>3. crossed = {u \in walk.initialized : walk.from < u /\ u <= tick}
      BY <1>4 DEF WalkInv, NoTickSkipped
    <2>4. \A u \in walk.initialized :
             walk.from < u /\ u <= f <=> (walk.from < u /\ u <= tick) \/ u = f
      BY <1>1, <2>1
    <2>5. crossed' = {u \in walk.initialized : walk.from < u /\ u <= tick'}
      BY <2>2, <2>3, <2>4 DEF CrossesTo
    <2> QED BY <1>2, <1>4, <2>5 DEF NoTickSkipped
  <1> QED BY <1>3, <1>4

LEMMA StepWalk == WalkInv /\ [WalkNext]_walkVars => WalkInv'
  <1> SUFFICES ASSUME WalkInv, [WalkNext]_walkVars PROVE WalkInv'
    OBVIOUS
  <1> USE TickIndexAssumption
  <1>1. CASE Cross
    <2>1. index' \in Nat \ {0}
      BY <1>1, CrossFinds
    <2>2. PICK f \in Int : CrossesTo(f)
      BY <1>1, CrossFinds
    <2>3. NoTickSkipped'
      BY <2>2, CrossKeepsOrder
    <2>4. walk' = walk
      BY <2>2 DEF CrossesTo
    <2>5. CASE walk.a_to_b
      <3>1. tick' \in Int /\ tick' <= walk.from
        BY <2>2, <2>5 DEF CrossesTo, WalkInv
      <3>2. status' = "running" => MIN_TICK_INDEX <= tick'
        BY <2>2, <2>5 DEF CrossesTo
      <3> QED BY <2>1, <2>3, <2>4, <2>5, <3>1, <3>2 DEF WalkInv
    <2>6. CASE ~walk.a_to_b
      <3>1. tick' \in Int /\ walk.from <= tick'
        BY <2>2, <2>6 DEF CrossesTo, WalkInv
      <3>2. status' = "running" => tick' < MAX_TICK_INDEX
        BY <2>2, <2>6 DEF CrossesTo
      <3> QED BY <2>1, <2>3, <2>4, <2>6, <3>1, <3>2 DEF WalkInv
    <2> QED BY <2>5, <2>6
  <1>2. CASE Fail
    BY <1>2 DEF Fail, WalkInv, NoTickSkipped
  <1>3. CASE UNCHANGED walkVars
    BY <1>3 DEF walkVars, WalkInv, NoTickSkipped
  <1> QED BY <1>1, <1>2, <1>3 DEF WalkNext

\* Whatever tick arrays a swap is given, at every iteration of its loop the
\* ticks it has crossed are exactly the initialised ones between the tick it
\* started from and the current one.
THEOREM EveryTickCrossed == WalkSpec => []NoTickSkipped
  <1>1. WalkInv => NoTickSkipped
    BY DEF WalkInv
  <1> QED BY InitWalk, StepWalk, <1>1, PTL DEF WalkSpec

-----------------------------------------------------------------------------
(* The refinement. *)

\* The initialised ticks ahead of the price.
Ahead == {u \in walk.initialized : IF walk.a_to_b THEN u <= tick ELSE u > tick}

State == CASE status = "running" -> "moving"
           [] status = "error" -> "stopped"
           [] status = "limit" -> "end"

\* The tick found is the nearest ahead or none ahead is lost.
LEMMA CrossTakesNearest ==
    ASSUME WalkInv, NEW f \in Int, CrossesTo(f)
    PROVE  /\ f \in walk.initialized =>
                /\ f \in Ahead
                /\ \A u \in Ahead : IF walk.a_to_b THEN u <= f ELSE f <= u
           /\ Ahead' = Ahead \ {f}
           /\ status' = "limit" => Ahead' = {}
  <1> USE TickIndexAssumption
  <1>1. /\ walk.a_to_b \in BOOLEAN /\ tick \in Int /\ UNCHANGED walk
        /\ \A u \in walk.initialized : u \in Int /\ MIN_TICK_INDEX <= u /\ u <= MAX_TICK_INDEX
    BY UsableOnGrid DEF WalkInv, CrossesTo
  <1>2. CASE walk.a_to_b
    <2>1. /\ f <= tick /\ tick' = f - 1
          /\ \A u \in walk.initialized : u <= tick => u <= f
          /\ status' = "limit" => f = MIN_TICK_INDEX
      BY <1>2 DEF CrossesTo
    <2>2. Ahead = {u \in walk.initialized : u <= tick} /\ Ahead' = {u \in walk.initialized : u <= tick'}
      BY <1>1, <1>2 DEF Ahead
    <2>3. f \in walk.initialized => f \in Ahead
      BY <2>1, <2>2
    <2>4. \A u \in Ahead : u <= f
      BY <2>1, <2>2
    <2>5. Ahead' = Ahead \ {f}
      <3>1. \A u \in walk.initialized : u <= f - 1 <=> u <= tick /\ u # f
        BY <1>1, <2>1
      <3> QED BY <2>1, <2>2, <3>1
    <2>6. status' = "limit" => Ahead' = {}
      BY <1>1, <2>1, <2>2
    <2> QED BY <1>2, <2>3, <2>4, <2>5, <2>6
  <1>3. CASE ~walk.a_to_b
    <2>1. /\ tick < f /\ tick' = f
          /\ \A u \in walk.initialized : tick < u => f <= u
          /\ status' = "limit" => f = MAX_TICK_INDEX
      BY <1>3 DEF CrossesTo
    <2>2. Ahead = {u \in walk.initialized : u > tick} /\ Ahead' = {u \in walk.initialized : u > tick'}
      BY <1>1, <1>3 DEF Ahead
    <2>3. f \in walk.initialized => f \in Ahead
      BY <1>1, <2>1, <2>2
    <2>4. \A u \in Ahead : f <= u
      BY <1>1, <2>1, <2>2
    <2>5. Ahead' = Ahead \ {f}
      <3>1. \A u \in walk.initialized : u > f <=> u > tick /\ u # f
        BY <1>1, <2>1
      <3> QED BY <2>1, <2>2, <3>1
    <2>6. status' = "limit" => Ahead' = {}
      BY <1>1, <2>1, <2>2
    <2> QED BY <1>3, <2>3, <2>4, <2>5, <2>6
  <1> QED BY <1>2, <1>3

LEMMA InitOrder == WalkInit => Order!Init
  <1> SUFFICES ASSUME WalkInit PROVE Order!Init
    OBVIOUS
  <1>1. Ahead \subseteq Int /\ walk.a_to_b \in BOOLEAN
    BY InitWalk, UsableOnGrid DEF Ahead, WalkInv
  <1>2. State = "moving"
    BY DEF WalkInit, State
  <1> QED BY <1>1, <1>2 DEF Order!Init, Ahead, State

LEMMA StepOrder == WalkInv /\ [WalkNext]_walkVars => [Order!Next]_(Order!vars)
  <1> SUFFICES ASSUME WalkInv, [WalkNext]_walkVars PROVE [Order!Next]_(Order!vars)
    OBVIOUS
  <1>1. CASE Cross
    <2>1. PICK f \in Int : CrossesTo(f)
      BY <1>1, CrossFinds
    <2>2. /\ status = "running" /\ walk' = walk
          /\ status' = "limit" \/ status' = "running"
      BY <2>1 DEF CrossesTo
    <2>3. State = "moving" /\ (status' = "running" => State' = "moving") /\ (status' = "limit" => State' = "end")
      BY <2>2 DEF State
    <2>4. /\ f \in walk.initialized =>
                f \in Ahead /\ \A u \in Ahead : IF walk.a_to_b THEN u <= f ELSE f <= u
          /\ Ahead' = Ahead \ {f}
          /\ status' = "limit" => Ahead' = {}
      BY <2>1, CrossTakesNearest
    <2>5. CASE f \in walk.initialized
      <3>1. Order!Pass(f)
        BY <2>2, <2>3, <2>4, <2>5 DEF Order!Pass, Order!IsNearest, Ahead, State
      <3>2. \E t \in Ahead : Order!Pass(t)
        BY <2>4, <2>5, <3>1
      <3> QED BY <3>2 DEF Order!Next, Ahead
    <2>6. CASE f \notin walk.initialized
      <3>1. Ahead' = Ahead
        BY <2>4, <2>6 DEF Ahead
      <3>2. CASE status' = "running"
        BY <2>2, <2>3, <3>1, <3>2 DEF Order!vars, Ahead, State
      <3>3. CASE status' = "limit"
        <4>1. Order!Stop
          BY <2>2, <2>3, <2>4, <3>1, <3>3 DEF Order!Stop, Ahead, State
        <4> QED BY <4>1 DEF Order!Next
      <3> QED BY <2>2, <3>2, <3>3
    <2> QED BY <2>5, <2>6
  <1>2. CASE Fail
    <2>1. State = "moving" /\ State' = "stopped" /\ UNCHANGED <<Ahead, walk>>
      BY <1>2 DEF Fail, State, Ahead
    <2>2. Order!Stop
      BY <2>1 DEF Order!Stop, State, Ahead
    <2> QED BY <2>2 DEF Order!Next
  <1>3. CASE UNCHANGED walkVars
    BY <1>3 DEF walkVars, Order!vars
  <1> QED BY <1>1, <1>2, <1>3 DEF WalkNext

\* Through any arrays, the search meets the initialised ticks in the plain order
\* of TickOrder: nearest first, one by one, and reaches the end of the price
\* range only when none is left.
THEOREM WalkFollowsOrder == WalkSpec => Order!Safety
  <1> QED BY InitWalk, StepWalk, InitOrder, StepOrder, PTL DEF WalkSpec, Order!Safety

-----------------------------------------------------------------------------
(* Good arrays are walked to their end. *)

\* Arrays that follow one another in the direction of a search.
InLine(arrays, left) ==
    \A j \in 2..Len(arrays) : arrays[j] = IF left THEN arrays[j - 1] - K ELSE arrays[j - 1] + K

\* What a search finds in array i that goes no further: the end of the range,
\* the end of the last array, or a slot.
Ends(arrays, i, f, left) ==
    \/ f = IF left THEN MIN_TICK_INDEX ELSE MAX_TICK_INDEX
    \/ i = Len(arrays) /\ f = IF left THEN arrays[i] ELSE arrays[i] + K - 1
    \/ \E o \in 0..TICK_ARRAY_SIZE - 1 : f = arrays[i] + o * TickSpacing

\* The ticks that an array can be searched from.
LEMMA RangeOf ==
    ASSUME NEW start \in Int, NEW x \in Int, NEW left \in BOOLEAN
    PROVE  in_search_range(start, x, TickSpacing, ~left) <=>
              IF left THEN start <= x /\ x < start + K
                      ELSE start - TickSpacing <= x /\ x < start + K - TickSpacing
  <1> USE SpacingAssumption
  <1>1. K \in Int /\ TicksInArray(TickSpacing) = K
    BY SizeOfArray DEF K
  <1>2. CASE left
    BY <1>1, <1>2 DEF in_search_range
  <1>3. CASE ~left
    BY <1>1, <1>3 DEF in_search_range
  <1> QED BY <1>2, <1>3

\* A search that begins in the range of an array can go on in all that follow,
\* so that it finds something.
LEMMA SearchGood ==
    ASSUME NEW arrays \in Seq(Starts), NEW initialized \in SUBSET Usable, NEW t \in Int,
           NEW left \in BOOLEAN, NEW first \in 1..Len(arrays), InLine(arrays, left),
           in_search_range(arrays[first], t, TickSpacing, ~left), NEW r,
           r = get_next_initialized_tick_index(arrays, initialized, t, TickSpacing, left, first)
    PROVE  /\ ~r.error /\ r.array_index \in first..Len(arrays) /\ r.tick_index \in Int
           /\ Ends(arrays, r.array_index, r.tick_index, left)
  <1> USE TickIndexAssumption, SpacingAssumption, TickArrayAssumption
  <1> DEFINE x(j) == At(arrays, first, t, left, j)
             searchable(j) == in_search_range(arrays[j], x(j), TickSpacing, ~left)
             ahead(j) == SlotsAhead(arrays[j], initialized, x(j), TickSpacing, left)
             stops == {j \in first..Len(arrays) :
                         ~searchable(j) \/ ahead(j) # {} \/ IsEdge(arrays, j, TickSpacing, left)}
             i == Min(stops)
             start == arrays[i]
  <1>1. r = IF first > Len(arrays) THEN SearchError
            ELSE IF ~searchable(i) THEN SearchError
            ELSE IF ahead(i) # {} THEN Found(i, Nearest(start, initialized, x(i), left))
            ELSE Found(i, EdgeTick(start, TickSpacing, left))
    BY DEF get_next_initialized_tick_index, At, Nearest
  <1>2. Len(arrays) \in Nat /\ \A j \in 1..Len(arrays) : arrays[j] \in Starts /\ arrays[j] \in Int
    BY LenProperties, ElementOfSeq, StartOnGrid
  <1>3. K \in Nat \ {0} /\ K >= TickSpacing /\ TicksInArray(TickSpacing) = K
    BY SizeOfArray DEF K
  <1>4. \A j \in first..Len(arrays) : x(j) \in Int /\ searchable(j)
    <2> SUFFICES ASSUME NEW j \in first..Len(arrays) PROVE x(j) \in Int /\ searchable(j)
      OBVIOUS
    <2>1. CASE j = first
      BY <2>1 DEF At, SearchIndex
    <2>2. CASE j # first
      <3>1. j \in 2..Len(arrays) /\ j - 1 \in 1..Len(arrays)
        BY <1>2, <2>2
      <3>2. /\ arrays[j] \in Int /\ arrays[j - 1] \in Int
            /\ arrays[j] = IF left THEN arrays[j - 1] - K ELSE arrays[j - 1] + K
        BY <1>2, <3>1 DEF InLine
      <3>3. x(j) = IF left THEN arrays[j - 1] - 1 ELSE arrays[j - 1] + K - 1
        BY <1>3, <2>2 DEF At, SearchIndex
      <3> DEFINE xj == x(j)
      <3>4. xj = IF left THEN arrays[j] + K - 1 ELSE arrays[j] - 1
        <4>1. CASE left
          BY <1>3, <3>2, <3>3, <4>1
        <4>2. CASE ~left
          BY <1>3, <3>2, <3>3, <4>2
        <4> QED BY <4>1, <4>2
      <3> HIDE DEF xj
      <3>5. xj \in Int
        BY <1>3, <3>2, <3>4
      <3>6. IF left THEN arrays[j] <= xj /\ xj < arrays[j] + K
                    ELSE arrays[j] - TickSpacing <= xj /\ xj < arrays[j] + K - TickSpacing
        <4> DEFINE aj == arrays[j]
        <4>1. aj \in Int /\ xj = IF left THEN aj + K - 1 ELSE aj - 1
          BY <3>2, <3>4
        <4> HIDE DEF aj
        <4>2. K >= 1 /\ K \in Int /\ K >= TickSpacing /\ TickSpacing >= 1 /\ TickSpacing \in Int
          BY <1>3
        <4>3. IF left THEN aj <= xj /\ xj < aj + K
                      ELSE aj - TickSpacing <= xj /\ xj < aj + K - TickSpacing
          BY <3>5, <4>1, <4>2
        <4> QED BY <4>3 DEF aj
      <3>7. in_search_range(arrays[j], xj, TickSpacing, ~left)
        BY <3>2, <3>5, <3>6, RangeOf
      <3> QED BY <3>5, <3>7 DEF xj
    <2> QED BY <2>1, <2>2
  <1>5. i \in stops
    <2>1. Len(arrays) \in stops
      BY <1>2 DEF IsEdge
    <2>2. stops \subseteq first..Len(arrays)
      OBVIOUS
    <2> HIDE DEF stops
    <2>3. stops \subseteq Nat /\ stops # {}
      BY <1>2, <2>1, <2>2
    <2> QED BY <2>3, LeastOne
  <1>6. i \in first..Len(arrays) /\ x(i) \in Int /\ searchable(i) /\ ~(first > Len(arrays))
    <2> HIDE DEF i
    <2>1. i \in first..Len(arrays)
      BY <1>5
    <2> QED BY <1>2, <1>4, <2>1
  <1>7. ahead(i) # {} \/ IsEdge(arrays, i, TickSpacing, left)
    BY <1>5, <1>6
  <1> HIDE DEF i
  <1> DEFINE y == x(i)
  <1>8. start \in Int /\ OnGrid(start) /\ y \in Int
    BY <1>2, <1>6, StartOnGrid
  <1>9. CASE ahead(i) # {}
    <2> DEFINE f == Nearest(start, initialized, y, left)
    <2>1. r = Found(i, f)
      BY <1>1, <1>6, <1>9
    <2>2. f \in initialized /\ start <= f /\ f < start + K
      BY <1>6, <1>8, <1>9, ArrayFound
    <2>3. ~r.error /\ r.array_index = i /\ r.tick_index = f
      BY <2>1 DEF Found
    <2> HIDE DEF f, y, start
    <2>4. f \in Int /\ OnGrid(f)
      BY <2>2, UsableOnGrid
    <2>5. \E o \in 0..TICK_ARRAY_SIZE - 1 : f = start + o * TickSpacing
      BY <1>8, <2>2, <2>4, SlotOf
    <2>6. Ends(arrays, i, f, left)
      BY <2>5 DEF Ends, start
    <2> QED BY <1>6, <2>3, <2>4, <2>6
  <1>10. CASE ahead(i) = {}
    <2> DEFINE f == EdgeTick(start, TickSpacing, left)
    <2>1. r = Found(i, f)
      BY <1>1, <1>6, <1>10
    <2>2. ~r.error /\ r.array_index = i /\ r.tick_index = f
      BY <2>1 DEF Found
    <2>3. IsEdge(arrays, i, TickSpacing, left)
      BY <1>7, <1>10
    <2>4. f \in Int
      BY <1>3, <1>8 DEF EdgeTick
    <2>5. Ends(arrays, i, f, left)
      <3>1. CASE left
        <4>1. f = MIN_TICK_INDEX \/ (i = Len(arrays) /\ f = arrays[i])
          BY <2>3, <3>1 DEF IsEdge, EdgeTick
        <4> HIDE DEF f
        <4> QED BY <3>1, <4>1 DEF Ends
      <3>2. CASE ~left
        <4>1. f = MAX_TICK_INDEX \/ (i = Len(arrays) /\ f = arrays[i] + K - 1)
          BY <1>3, <2>3, <3>2 DEF IsEdge, EdgeTick
        <4> HIDE DEF f
        <4> QED BY <3>2, <4>1 DEF Ends
      <3> QED BY <3>1, <3>2
    <2> HIDE DEF f
    <2> QED BY <1>6, <2>2, <2>4, <2>5
  <1> QED BY <1>9, <1>10

\* The slot of a tick of the grid, and of the last tick of an array.
LEMMA OffsetOf ==
    ASSUME NEW start \in Int, NEW o \in Int
    PROVE  /\ tick_offset(start, start + o * TickSpacing, TickSpacing) = o
           /\ tick_offset(start, start + K - 1, TickSpacing) = TICK_ARRAY_SIZE - 1
  <1> USE SpacingAssumption, TickArrayAssumption
  <1>1. o * TickSpacing \in Int /\ K \in Int
    BY SizeOfArray
  <1>2. tick_offset(start, start + o * TickSpacing, TickSpacing) = o
    <2> DEFINE x == start + o * TickSpacing
               d == tick_offset(start, x, TickSpacing)
    <2>1. x \in Int /\ d \in Int
      BY <1>1, OffsetOrders
    <2>2. o <= d
      BY <1>1, OffsetOrders
    <2>3. start + d * TickSpacing <= x
      <3> HIDE DEF x
      <3> QED BY <2>1, OffsetOrders
    <2>4. TickSpacing * d <= TickSpacing * o
      <3> HIDE DEF d
      <3> QED BY <1>1, <2>1, <2>3
    <2>5. d <= o
      <3> HIDE DEF d
      <3> QED BY <2>1, <2>4, Monotone
    <2> QED BY <2>1, <2>2, <2>5
  <1>3. tick_offset(start, start + K - 1, TickSpacing) = TICK_ARRAY_SIZE - 1
    <2> DEFINE x == start + K - 1
               d == tick_offset(start, x, TickSpacing)
    <2>1. x \in Int /\ d \in Int
      BY <1>1, OffsetOrders
    <2> HIDE DEF x
    <2>2. TICK_ARRAY_SIZE - 1 <= d <=> start + (TICK_ARRAY_SIZE - 1) * TickSpacing <= x
      BY <2>1, OffsetOrders
    <2>3. TICK_ARRAY_SIZE <= d <=> start + TICK_ARRAY_SIZE * TickSpacing <= x
      BY <2>1, OffsetOrders
    <2>4. (TICK_ARRAY_SIZE - 1) * TickSpacing = K - TickSpacing /\ TICK_ARRAY_SIZE * TickSpacing = K
      BY SizeOfArray
    <2> HIDE DEF d
    <2>5. TICK_ARRAY_SIZE - 1 <= d /\ ~(TICK_ARRAY_SIZE <= d)
      BY <1>1, <2>1, <2>2, <2>3, <2>4 DEF x
    <2>6. d = TICK_ARRAY_SIZE - 1
      BY <2>1, <2>5
    <2> QED BY <2>6 DEF d, x
  <1> QED BY <1>2, <1>3

\* Short of the end of the range, the walk goes on in an array in whose range
\* it is, or past the last one.
LEMMA GoesOn ==
    ASSUME NEW arrays \in Seq(Starts), NEW left \in BOOLEAN, NEW i \in 1..Len(arrays), NEW f \in Int,
           InLine(arrays, left), Ends(arrays, i, f, left),
           f # IF left THEN MIN_TICK_INDEX ELSE MAX_TICK_INDEX,
           NEW after, after = ArrayAfter(arrays[i], i, f, TickSpacing, left),
           NEW goal, goal = TickAfter(f, left)
    PROVE  /\ after <= Len(arrays) + 1
           /\ after <= Len(arrays) => in_search_range(arrays[after], goal, TickSpacing, ~left)
  <1> USE TickIndexAssumption, SpacingAssumption, TickArrayAssumption
  <1> DEFINE start == arrays[i]
             d == tick_offset(start, f, TickSpacing)
  <1>1. Len(arrays) \in Nat /\ \A j \in 1..Len(arrays) : arrays[j] \in Int
    BY LenProperties, ElementOfSeq, StartOnGrid
  <1>2. /\ K \in Nat \ {0} /\ K >= TickSpacing /\ TicksInArray(TickSpacing) = K
        /\ K = TICK_ARRAY_SIZE * TickSpacing
    BY SizeOfArray DEF K
  <1>3. start \in Int
    BY <1>1
  <1>4. after = IF (left /\ d = 0) \/ (~left /\ d = TICK_ARRAY_SIZE - 1) THEN i + 1 ELSE i
    BY DEF ArrayAfter
  <1>5. goal = IF left THEN f - 1 ELSE f
    BY DEF TickAfter
  <1>6. after <= Len(arrays) + 1
    BY <1>1, <1>4
  <1>7. i + 1 <= Len(arrays) => arrays[i + 1] = IF left THEN start - K ELSE start + K
    <2> SUFFICES ASSUME i + 1 <= Len(arrays)
                 PROVE  arrays[i + 1] = IF left THEN start - K ELSE start + K
      OBVIOUS
    <2>1. i + 1 \in 2..Len(arrays) /\ (i + 1) - 1 = i
      BY <1>1
    <2> QED BY <2>1 DEF InLine
  <1>8. CASE i = Len(arrays) /\ f = IF left THEN start ELSE start + K - 1
    <2>1. CASE left
      <3>1. f = start + 0 * TickSpacing
        BY <1>3, <1>8, <2>1
      <3>2. tick_offset(start, start + 0 * TickSpacing, TickSpacing) = 0
        <4>1. 0 \in Int
          OBVIOUS
        <4> QED BY <1>3, <4>1, OffsetOf, Zenon
      <3>3. d = 0
        BY <3>1, <3>2
      <3>4. after = Len(arrays) + 1
        <4> HIDE DEF d, start
        <4> QED BY <1>4, <1>8, <2>1, <3>3
      <3> QED BY <1>1, <3>4
    <2>2. CASE ~left
      <3>1. f = start + K - 1
        BY <1>8, <2>2
      <3>2. d = TICK_ARRAY_SIZE - 1
        BY <1>3, <3>1, OffsetOf
      <3>3. after = Len(arrays) + 1
        <4> HIDE DEF d, start
        <4> QED BY <1>4, <1>8, <2>2, <3>2
      <3> QED BY <1>1, <3>3
    <2> QED BY <2>1, <2>2
  <1>9. CASE \E o \in 0..TICK_ARRAY_SIZE - 1 : f = start + o * TickSpacing
    <2>1. PICK o \in 0..TICK_ARRAY_SIZE - 1 : f = start + o * TickSpacing
      BY <1>9
    <2>2. d = o
      <3>1. tick_offset(start, start + o * TickSpacing, TickSpacing) = o
        <4>1. o \in Int
          OBVIOUS
        <4> QED BY <1>3, <4>1, OffsetOf, Zenon
      <3> QED BY <2>1, <3>1
    <2> DEFINE m == o * TickSpacing
    <2>3. m \in Int
      OBVIOUS
    <2>4. o = 0 => m = 0
      OBVIOUS
    <2>5. o = TICK_ARRAY_SIZE - 1 => m = K - TickSpacing
      BY <1>2
    <2>6. o # 0 => m >= TickSpacing
      <3> SUFFICES ASSUME o # 0 PROVE m >= TickSpacing
        OBVIOUS
      <3>1. TickSpacing * 1 <= TickSpacing * o
        BY Monotone
      <3> QED BY <3>1
    <2>7. o # TICK_ARRAY_SIZE - 1 => m <= K - 2 * TickSpacing
      <3> SUFFICES ASSUME o # TICK_ARRAY_SIZE - 1 PROVE m <= K - 2 * TickSpacing
        OBVIOUS
      <3>1. TickSpacing * o <= TickSpacing * (TICK_ARRAY_SIZE - 2)
        BY Monotone
      <3>2. TickSpacing * (TICK_ARRAY_SIZE - 2) = K - 2 * TickSpacing
        BY <1>2
      <3> QED BY <3>1, <3>2
    <2>8. 0 <= m /\ m <= K - TickSpacing
      <3>1. TickSpacing * 0 <= TickSpacing * o /\ TickSpacing * o <= TickSpacing * (TICK_ARRAY_SIZE - 1)
        BY Monotone
      <3>2. TickSpacing * (TICK_ARRAY_SIZE - 1) = K - TickSpacing
        BY <1>2
      <3> QED BY <3>1, <3>2
    <2>9. f = start + m
      BY <2>1
    <2> HIDE DEF m, d, start
    <2>10. CASE left
      <3>1. CASE o = 0
        <4>1. after = i + 1 /\ goal = start - 1
          BY <1>3, <1>4, <1>5, <2>2, <2>4, <2>9, <2>10, <3>1
        <4>2. in_search_range(start - K, start - 1, TickSpacing, ~left)
          <5> DEFINE b == start - K
                     c == start - 1
          <5>1. b \in Int /\ c \in Int /\ b <= c /\ c < b + K
            BY <1>2, <1>3
          <5> HIDE DEF b, c
          <5>2. in_search_range(b, c, TickSpacing, ~left)
            BY <2>10, <5>1, RangeOf
          <5> QED BY <5>2 DEF b, c
        <4> QED BY <1>6, <1>7, <2>10, <4>1, <4>2
      <3>2. CASE o # 0
        <4>1. after = i /\ goal = start + m - 1
          BY <1>3, <1>4, <1>5, <2>2, <2>3, <2>9, <2>10, <3>2
        <4>2. goal \in Int /\ start <= goal /\ goal < start + K
          BY <1>2, <1>3, <2>3, <2>6, <2>8, <3>2, <4>1
        <4>3. in_search_range(start, goal, TickSpacing, ~left)
          BY <1>3, <2>10, <4>2, RangeOf
        <4> QED BY <1>6, <4>1, <4>3 DEF start
      <3> QED BY <3>1, <3>2
    <2>11. CASE ~left
      <3>1. CASE o = TICK_ARRAY_SIZE - 1
        <4>1. after = i + 1 /\ goal = start + K - TickSpacing
          BY <1>2, <1>3, <1>4, <1>5, <2>2, <2>5, <2>9, <2>11, <3>1
        <4> QED BY <1>2, <1>3, <1>6, <1>7, <2>11, <4>1, RangeOf
      <3>2. CASE o # TICK_ARRAY_SIZE - 1
        <4>1. after = i /\ goal = start + m
          BY <1>3, <1>4, <1>5, <2>2, <2>9, <2>11, <3>2
        <4>2. in_search_range(start, goal, TickSpacing, ~left)
          BY <1>2, <1>3, <2>3, <2>7, <2>8, <2>11, <3>2, <4>1, RangeOf
        <4> QED BY <1>6, <4>1, <4>2 DEF start
      <3> QED BY <3>1, <3>2
    <2> QED BY <2>10, <2>11
  <1> QED BY <1>8, <1>9 DEF Ends

\* In good arrays, a walk that is not over is in the range of its array, or has
\* used them all; it fails only then.
GoodInv ==
    (Adjacent /\ StartsRight /\ status # "limit") =>
        /\ index <= Len(walk.arrays) + 1
        /\ index <= Len(walk.arrays) =>
              status = "running" /\ in_search_range(walk.arrays[index], tick, TickSpacing, ~walk.a_to_b)

LEMMA InitGood == WalkInit => GoodInv
  <1> SUFFICES ASSUME WalkInit PROVE GoodInv
    OBVIOUS
  <1>1. Len(walk.arrays) \in Nat
    BY InitWalk, LenProperties DEF WalkInv
  <1> QED BY <1>1 DEF WalkInit, GoodInv, StartsRight

LEMMA StepGood == WalkInv /\ GoodInv /\ [WalkNext]_walkVars => GoodInv'
  <1> SUFFICES ASSUME WalkInv, GoodInv, [WalkNext]_walkVars PROVE GoodInv'
    OBVIOUS
  <1>1. Len(walk.arrays) \in Nat
    BY LenProperties DEF WalkInv
  <1>2. ASSUME Adjacent, StartsRight, status = "running", index <= Len(walk.arrays)
        PROVE  /\ ~Search.error /\ Search.array_index \in 1..Len(walk.arrays) /\ Search.tick_index \in Int
               /\ InLine(walk.arrays, walk.a_to_b)
               /\ Ends(walk.arrays, Search.array_index, Search.tick_index, walk.a_to_b)
    <2>1. InLine(walk.arrays, walk.a_to_b)
      BY <1>2 DEF Adjacent, InLine, K
    <2>2. /\ walk.arrays \in Seq(Starts) /\ walk.initialized \in SUBSET Usable /\ tick \in Int
          /\ walk.a_to_b \in BOOLEAN /\ index \in 1..Len(walk.arrays)
          /\ in_search_range(walk.arrays[index], tick, TickSpacing, ~walk.a_to_b)
      BY <1>1, <1>2 DEF WalkInv, GoodInv
    <2>3. \A arrays \in Seq(Starts), initialized \in SUBSET Usable, t \in Int, left \in BOOLEAN :
          \A first \in 1..Len(arrays) : \A r :
            /\ InLine(arrays, left) /\ in_search_range(arrays[first], t, TickSpacing, ~left)
            /\ r = get_next_initialized_tick_index(arrays, initialized, t, TickSpacing, left, first)
            => /\ ~r.error /\ r.array_index \in first..Len(arrays) /\ r.tick_index \in Int
               /\ Ends(arrays, r.array_index, r.tick_index, left)
      BY SearchGood, SMTT(30)
    <2>4. /\ ~Search.error /\ Search.array_index \in index..Len(walk.arrays) /\ Search.tick_index \in Int
          /\ Ends(walk.arrays, Search.array_index, Search.tick_index, walk.a_to_b)
      BY <2>1, <2>2, <2>3, Zenon DEF Search
    <2>5. Search.array_index \in 1..Len(walk.arrays)
      BY <1>1, <2>2, <2>4
    <2> QED BY <2>1, <2>4, <2>5
  <1>3. CASE Cross
    <2> SUFFICES ASSUME Adjacent', StartsRight', status' # "limit"
                 PROVE  /\ index' <= Len(walk'.arrays) + 1
                        /\ index' <= Len(walk'.arrays) =>
                              /\ status' = "running"
                              /\ in_search_range(walk'.arrays[index'], tick', TickSpacing, ~walk'.a_to_b)
      BY DEF GoodInv
    <2>1. walk' = walk /\ status = "running" /\ ~Search.error
      BY <1>3 DEF Cross
    <2>2. Adjacent /\ StartsRight
      BY <2>1 DEF Adjacent, StartsRight
    <2>3. index <= Len(walk.arrays)
      <3>1. index \in Nat
        BY DEF WalkInv
      <3>2. ~(index > Len(walk.arrays))
        BY <2>1 DEF Search, get_next_initialized_tick_index, SearchError
      <3> QED BY <1>1, <3>1, <3>2
    <2> DEFINE i == Search.array_index
               f == Search.tick_index
    <2>4. /\ i \in 1..Len(walk.arrays) /\ f \in Int /\ InLine(walk.arrays, walk.a_to_b)
          /\ Ends(walk.arrays, i, f, walk.a_to_b)
      BY <1>2, <2>1, <2>2, <2>3
    <2>5. /\ index' = ArrayAfter(walk.arrays[i], i, f, TickSpacing, walk.a_to_b)
          /\ tick' = TickAfter(f, walk.a_to_b)
          /\ status' = IF f = IF walk.a_to_b THEN MIN_TICK_INDEX ELSE MAX_TICK_INDEX
                       THEN "limit" ELSE "running"
      BY <1>3 DEF Cross
    <2> HIDE DEF i, f
    <2>6. f # (IF walk.a_to_b THEN MIN_TICK_INDEX ELSE MAX_TICK_INDEX) /\ status' = "running"
      BY <2>5
    <2>7. /\ index' <= Len(walk.arrays) + 1
          /\ index' <= Len(walk.arrays) =>
                in_search_range(walk.arrays[index'], tick', TickSpacing, ~walk.a_to_b)
      <3>1. walk.arrays \in Seq(Starts) /\ walk.a_to_b \in BOOLEAN
        BY DEF WalkInv
      <3> QED BY <2>4, <2>5, <2>6, <3>1, GoesOn
    <2> QED BY <2>1, <2>6, <2>7
  <1>4. CASE Fail
    <2>1. Search.error /\ status = "running" /\ UNCHANGED <<walk, tick, index>>
      BY <1>4 DEF Fail
    <2>2. (Adjacent /\ StartsRight) => ~(index <= Len(walk.arrays))
      BY <1>2, <2>1
    <2> QED BY <2>1, <2>2 DEF GoodInv, Adjacent, StartsRight
  <1>5. CASE UNCHANGED walkVars
    BY <1>5 DEF walkVars, GoodInv, Adjacent, StartsRight
  <1> QED BY <1>3, <1>4, <1>5 DEF WalkNext

\* A swap that is given adjacent tick arrays, the first of them around its
\* price, is never refused halfway (InvalidTickArraySequence), only at the end
\* of the last: whatever slot or edge a search ends at, the array and the tick
\* that the loop goes on from fit together (get_next_initialized_tick_index,
\* the last lines of the loop in swap_manager.rs).
THEOREM GoodArraysSuffice == WalkSpec => []GoodArraysWalked
  <1>1. WalkInv /\ GoodInv => GoodArraysWalked
    <2> SUFFICES ASSUME WalkInv, GoodInv, Adjacent, StartsRight, status = "error"
                 PROVE  index = Len(walk.arrays) + 1
      BY DEF GoodArraysWalked
    <2>1. Len(walk.arrays) \in Nat /\ index \in Nat
      BY LenProperties DEF WalkInv
    <2> QED BY <2>1 DEF GoodInv
  <1> QED BY <1>1, InitWalk, StepWalk, InitGood, StepGood, PTL DEF WalkSpec

-----------------------------------------------------------------------------
(* The partition.  The part of an array from l to r. *)

\* The elements of the part, in some order; all others where they were.
Rearranged(a, b, l, r) ==
    /\ \A m \in DOMAIN a \ (l..r) : b[m] = a[m]
    /\ \A m \in l..r : (\E x \in l..r : b[m] = a[x]) /\ (\E x \in l..r : a[m] = b[x])

LEMMA ArrayLength ==
    ASSUME NEW n \in Nat, NEW E, NEW a \in [1..n -> E]
    PROVE  Len(a) = n
  OBVIOUS

LEMMA SwapIs ==
    ASSUME NEW n \in Nat, NEW E, NEW a \in [1..n -> E], NEW i \in 1..n, NEW j \in 1..n
    PROVE  LET b == SwapAt(a, i, j)
           IN  /\ b \in [1..n -> E] /\ b[i] = a[j] /\ b[j] = a[i]
               /\ \A m \in 1..n \ {i, j} : b[m] = a[m]
  BY DEF SwapAt

LEMMA SwapRearranges ==
    ASSUME NEW n \in Nat, NEW E, NEW a \in [1..n -> E], NEW l \in 1..n, NEW r \in 1..n,
           NEW i \in l..r, NEW j \in l..r
    PROVE  Rearranged(a, SwapAt(a, i, j), l, r)
  <1> DEFINE b == SwapAt(a, i, j)
  <1>1. i \in 1..n /\ j \in 1..n /\ l..r \subseteq 1..n /\ DOMAIN a = 1..n
    OBVIOUS
  <1>2. b[i] = a[j] /\ b[j] = a[i] /\ \A m \in 1..n \ {i, j} : b[m] = a[m]
    BY <1>1 DEF SwapAt
  <1> HIDE DEF b
  <1>3. \A m \in DOMAIN a \ (l..r) : b[m] = a[m]
    BY <1>1, <1>2
  <1>4. ASSUME NEW m \in l..r
        PROVE  (\E x \in l..r : b[m] = a[x]) /\ (\E x \in l..r : a[m] = b[x])
    <2>1. CASE m = i
      BY <1>2, <2>1
    <2>2. CASE m = j
      BY <1>2, <2>2
    <2>3. CASE m # i /\ m # j
      BY <1>1, <1>2, <2>3
    <2> QED BY <2>1, <2>2, <2>3
  <1> QED BY <1>3, <1>4 DEF Rearranged, b

LEMMA RearrangedTwice ==
    ASSUME NEW a, NEW b, NEW c, NEW l, NEW r, DOMAIN a = DOMAIN b,
           Rearranged(a, b, l, r), Rearranged(b, c, l, r)
    PROVE  Rearranged(a, c, l, r)
  <1>1. ASSUME NEW m \in DOMAIN a \ (l..r) PROVE c[m] = a[m]
    BY DEF Rearranged
  <1>2. ASSUME NEW m \in l..r PROVE \E x \in l..r : c[m] = a[x]
    <2>1. PICK y \in l..r : c[m] = b[y]
      BY Zenon DEF Rearranged
    <2>2. PICK x \in l..r : b[y] = a[x]
      BY Zenon DEF Rearranged
    <2> QED BY <2>1, <2>2
  <1>3. ASSUME NEW m \in l..r PROVE \E x \in l..r : a[m] = c[x]
    <2>1. PICK y \in l..r : a[m] = b[y]
      BY Zenon DEF Rearranged
    <2>2. PICK x \in l..r : b[y] = c[x]
      BY Zenon DEF Rearranged
    <2> QED BY <2>1, <2>2
  <1> QED BY <1>1, <1>2, <1>3, Zenon DEF Rearranged

-----------------------------------------------------------------------------
(* A round of the inner loop. *)

\* Ups and downs: the elements before i are at most t, those after j at least.
\* The elements at i and j are still to be exchanged, unless i and j have met;
\* and an element that is equal to t stays at one of the ends.
Meeting(cost, t, l, r, s) ==
    /\ DOMAIN s = {"array", "i", "j"} /\ s.i \in Int /\ s.j \in Int
    /\ s.i <= s.j + 1
    /\ (s.i = l /\ s.j = r) \/ (s.i > l /\ s.j < r)
    /\ \A m \in l..r : /\ m < s.i => cost[s.array[m]] <= cost[t]
                       /\ m > s.j => cost[s.array[m]] >= cost[t]
    /\ s.i <= s.j => cost[s.array[s.i]] >= cost[t] /\ cost[s.array[s.j]] <= cost[t]
    /\ cost[s.array[l]] = cost[t] \/ cost[s.array[r]] = cost[t]

LEMMA UpStops ==
    ASSUME NEW n \in Nat, NEW E, NEW cost \in [E -> Int], NEW t \in E, NEW a \in [1..n -> E],
           NEW i \in 1..n, NEW j \in i..n, cost[a[j]] >= cost[t]
    PROVE  LET u == Up(cost, a, t, i)
           IN  u \in i..j /\ cost[a[u]] >= cost[t] /\ \A m \in i..u - 1 : cost[a[m]] < cost[t]
  <1> DEFINE S == {m \in i..n : cost[a[m]] >= cost[t]}
             Fits(u) == cost[a[u]] >= cost[t] /\ \A m \in i..u - 1 : cost[a[m]] < cost[t]
  <1>1. \A m \in 1..n : cost[a[m]] \in Int
    OBVIOUS
  <1>2. S \subseteq Nat /\ j \in S
    OBVIOUS
  <1>3. PICK u \in S : \A m \in S : u <= m
    <2> HIDE DEF S
    <2>1. S # {}
      BY <1>2
    <2> QED BY <1>2, <2>1, LeastOne
  <1>4. u \in i..n /\ Fits(u)
    BY <1>1, <1>3
  <1> DEFINE v == CHOOSE x \in i..n : Fits(x)
  <1>5. v \in i..n /\ Fits(v)
    <2> HIDE DEF Fits
    <2> QED BY <1>4
  <1>6. Up(cost, a, t, i) = v
    BY ArrayLength DEF Up
  <1> HIDE DEF v
  <1>7. v <= j
    <2> SUFFICES ASSUME v > j PROVE FALSE
      BY <1>5
    <2>1. j \in i..v - 1
      BY <1>5
    <2> QED BY <1>1, <1>5, <2>1
  <1> QED BY <1>5, <1>6, <1>7

LEMMA DownStops ==
    ASSUME NEW n \in Nat, NEW E, NEW cost \in [E -> Int], NEW t \in E, NEW a \in [1..n -> E],
           NEW j \in 1..n, NEW i \in 1..j, cost[a[i]] <= cost[t]
    PROVE  LET d == Down(cost, a, t, j)
           IN  d \in i..j /\ cost[a[d]] <= cost[t] /\ \A m \in d + 1..j : cost[a[m]] > cost[t]
  <1> DEFINE S == {m \in 1..j : cost[a[m]] <= cost[t]}
             Fits(d) == cost[a[d]] <= cost[t] /\ \A m \in d + 1..j : cost[a[m]] > cost[t]
  <1>1. \A m \in 1..n : cost[a[m]] \in Int
    OBVIOUS
  <1>2. S \subseteq 0..j /\ i \in S
    OBVIOUS
  <1>3. PICK d \in S : \A m \in S : m <= d
    <2> HIDE DEF S
    <2>1. S # {}
      BY <1>2
    <2> QED BY <1>2, <2>1, j \in Nat, GreatestOne
  <1>4. d \in 1..j /\ Fits(d)
    BY <1>1, <1>3
  <1> DEFINE v == CHOOSE x \in 1..j : Fits(x)
  <1>5. v \in 1..j /\ Fits(v)
    <2> HIDE DEF Fits
    <2> QED BY <1>4
  <1>6. Down(cost, a, t, j) = v
    BY DEF Down
  <1> HIDE DEF v
  <1>7. v >= i
    <2> SUFFICES ASSUME v < i PROVE FALSE
      BY <1>5
    <2>1. i \in v + 1..j
      BY <1>5
    <2> QED BY <1>1, <1>5, <2>1
  <1> QED BY <1>5, <1>6, <1>7

LEMMA ExchangeMeets ==
    ASSUME NEW n \in Nat, NEW E, NEW cost \in [E -> Int], NEW t \in E,
           NEW l \in 1..n, NEW r \in l + 1..n, NEW s, Meeting(cost, t, l, r, s),
           s.array \in [1..n -> E], s.i < s.j
    PROVE  LET x == Exchange(cost, t, s)
           IN  /\ x.array \in [1..n -> E] /\ Rearranged(s.array, x.array, l, r)
               /\ Meeting(cost, t, l, r, x) /\ x.i > s.i
  <1> DEFINE a == s.array
             i == s.i
             j == s.j
             b == SwapAt(a, i, j)
             u == Up(cost, b, t, i + 1)
             d == Down(cost, b, t, j - 1)
             x == Exchange(cost, t, s)
             T == cost[t]
  <1>1. /\ i \in l..r /\ j \in l..r /\ i < j
        /\ (i = l /\ j = r) \/ (i > l /\ j < r)
        /\ \A m \in l..r : (m < i => cost[a[m]] <= T) /\ (m > j => cost[a[m]] >= T)
        /\ cost[a[i]] >= T /\ cost[a[j]] <= T
        /\ cost[a[l]] = T \/ cost[a[r]] = T
    BY DEF Meeting
  <1>2. /\ x = [array |-> b, i |-> u, j |-> d]
        /\ a \in [1..n -> E]
    BY DEF Exchange
  <1> HIDE DEF x, a, i, j
  <1>3. /\ n \in Int /\ l \in Int /\ r \in Int /\ 1 <= l /\ l < r /\ r <= n
        /\ l \in 1..n /\ r \in 1..n
    OBVIOUS
  <1>4. i \in Int /\ j \in Int /\ l <= i /\ i < j /\ j <= r
    BY <1>3, <1>1
  <1>5. /\ i \in 1..n /\ j \in 1..n /\ l..r \subseteq 1..n
        /\ i + 1 \in 1..n /\ j \in i + 1..n /\ j - 1 \in 1..n /\ i \in 1..j - 1
    BY <1>3, <1>4
  <1>6. /\ b \in [1..n -> E] /\ b[i] = a[j] /\ b[j] = a[i]
        /\ \A m \in 1..n \ {i, j} : b[m] = a[m]
    BY <1>2, <1>5 DEF SwapAt
  <1>7. Rearranged(a, b, l, r)
    BY <1>3, <1>1, <1>2, <1>5, SwapRearranges
  <1> HIDE DEF b
  <1>8. u \in i + 1..j /\ cost[b[u]] >= T /\ \A m \in i + 1..u - 1 : cost[b[m]] < T
    BY <1>1, <1>5, <1>6, UpStops
  <1>9. d \in i..j - 1 /\ cost[b[d]] <= T /\ \A m \in d + 1..j - 1 : cost[b[m]] > T
    BY <1>1, <1>5, <1>6, DownStops
  <1> HIDE DEF u, d
  <1>10. T \in Int /\ \A m \in 1..n : cost[b[m]] \in Int /\ cost[a[m]] \in Int
    BY <1>2, <1>6
  <1>11. u <= d + 1
    <2> SUFFICES ASSUME u > d + 1 PROVE FALSE
      BY <1>8, <1>9
    <2>1. d + 1 \in i + 1..u - 1 /\ d + 1 \in d + 1..j - 1 /\ d + 1 \in 1..n
      BY <1>5, <1>8, <1>9
    <2>2. cost[b[d + 1]] < T /\ cost[b[d + 1]] > T
      BY <1>8, <1>9, <2>1
    <2> QED BY <1>10, <2>1, <2>2
  <1>12. ASSUME NEW m \in l..r, m < u PROVE cost[b[m]] <= T
    <2>1. m \in 1..n
      BY <1>5
    <2>2. CASE m < i
      <3>1. m \in 1..n \ {i, j}
        BY <1>4, <2>1, <2>2
      <3> QED BY <1>1, <1>6, <2>2, <3>1
    <2>3. CASE m = i
      BY <1>1, <1>6, <2>3
    <2>4. CASE m > i
      <3>1. m \in i + 1..u - 1
        <4>1. u \in Int /\ i \in Int /\ m \in Int /\ i < m /\ m < u
          BY <1>4, <1>8, <1>12, <2>1, <2>4
        <4> QED BY <4>1
      <3> QED BY <1>8, <1>10, <2>1, <3>1
    <2> QED BY <1>1, <2>2, <2>3, <2>4
  <1>13. ASSUME NEW m \in l..r, m > d PROVE cost[b[m]] >= T
    <2>1. m \in 1..n
      BY <1>5
    <2>2. CASE m > j
      <3>1. m \in 1..n \ {i, j}
        BY <1>4, <2>1, <2>2
      <3> QED BY <1>1, <1>6, <2>2, <3>1
    <2>3. CASE m = j
      BY <1>1, <1>6, <2>3
    <2>4. CASE m < j
      <3>1. m \in d + 1..j - 1
        <4>1. d \in Int /\ j \in Int /\ m \in Int /\ d < m /\ m < j
          BY <1>4, <1>9, <1>13, <2>1, <2>4
        <4> QED BY <4>1
      <3> QED BY <1>9, <1>10, <2>1, <3>1
    <2> QED BY <1>1, <2>2, <2>3, <2>4
  <1>14. cost[b[l]] = T \/ cost[b[r]] = T
    <2>1. l \in 1..n /\ r \in 1..n
      OBVIOUS
    <2>2. CASE i = l /\ j = r
      BY <1>1, <1>6, <2>2
    <2>3. CASE i > l /\ j < r
      <3>1. l \in 1..n \ {i, j} /\ r \in 1..n \ {i, j}
        BY <1>4, <2>1, <2>3
      <3>2. b[l] = a[l] /\ b[r] = a[r]
        BY <1>6, <3>1
      <3> QED BY <1>1, <3>2
    <2> QED BY <1>1, <2>2, <2>3
  <1>15. u > l /\ d < r /\ u > i
    <2>1. u \in Int /\ d \in Int /\ i + 1 <= u /\ d <= j - 1
      BY <1>4, <1>8, <1>9
    <2> QED BY <1>3, <1>4, <2>1
  <1>16. Meeting(cost, t, l, r, [array |-> b, i |-> u, j |-> d])
    BY <1>8, <1>9, <1>11, <1>12, <1>13, <1>14, <1>15 DEF Meeting
  <1> QED BY <1>2, <1>6, <1>7, <1>15, <1>16 DEF a, i, x

\* t is put between the others.
LEMMA PlaceParts ==
    ASSUME NEW n \in Nat, NEW E, NEW cost \in [E -> Int], NEW t \in E,
           NEW l \in 1..n, NEW r \in l + 1..n, NEW s, Meeting(cost, t, l, r, s),
           s.array \in [1..n -> E], s.i >= s.j
    PROVE  LET p == Place(cost, s.array, l, r, t, s.j)
           IN  /\ p.array \in [1..n -> E] /\ Rearranged(s.array, p.array, l, r) /\ p.at \in l..r
               /\ \A m \in l..p.at : cost[p.array[m]] <= cost[t]
               /\ \A m \in p.at..r : cost[p.array[m]] >= cost[t]
  <1> DEFINE a == s.array
             i == s.i
             j == s.j
             p == Place(cost, a, l, r, t, j)
             T == cost[t]
  <1>1. /\ i \in Int /\ j \in Int /\ i > l /\ j < r /\ (i = j \/ i = j + 1)
        /\ \A m \in l..r : (m < i => cost[a[m]] <= T) /\ (m > j => cost[a[m]] >= T)
        /\ i <= j => cost[a[i]] >= T /\ cost[a[j]] <= T
        /\ cost[a[l]] = T \/ cost[a[r]] = T
    BY DEF Meeting
  <1>2. a \in [1..n -> E]
    OBVIOUS
  <1> HIDE DEF a, i, j
  <1>3. l \in 1..n /\ r \in 1..n /\ n \in Int
    OBVIOUS
  <1>4. T \in Int /\ \A m \in 1..n : cost[a[m]] \in Int
    BY <1>2
  <1>5. j \in l..r - 1 /\ j + 1 \in l + 1..r /\ l..r \subseteq 1..n
        /\ j \in 1..n /\ j + 1 \in 1..n /\ j \in l..r /\ j + 1 \in l..r /\ l \in l..r /\ r \in l..r
    BY <1>3, <1>1
  <1>6. /\ \A m \in l..j : cost[a[m]] <= T
        /\ \A m \in j + 1..r : cost[a[m]] >= T
    <2>1. ASSUME NEW m \in l..j PROVE cost[a[m]] <= T
      <3>1. CASE m < i
        BY <1>1, <1>5, <3>1
      <3>2. CASE m >= i
        <4>1. m = j /\ i <= j
          BY <1>1, <3>2
        <4> QED BY <1>1, <4>1
      <3> QED BY <1>1, <3>1, <3>2
    <2>2. ASSUME NEW m \in j + 1..r PROVE cost[a[m]] >= T
      BY <1>1, <1>5
    <2> QED BY <2>1, <2>2
  <1>7. CASE cost[a[l]] = T
    <2> DEFINE b == SwapAt(a, l, j)
    <2>1. p = [array |-> b, at |-> j]
      BY <1>7 DEF Place
    <2>2. /\ b \in [1..n -> E] /\ b[l] = a[j] /\ b[j] = a[l]
          /\ \A m \in 1..n \ {l, j} : b[m] = a[m]
      BY <1>3, <1>2, <1>5 DEF SwapAt
    <2>3. Rearranged(a, b, l, r)
      BY <1>3, <1>2, <1>5, SwapRearranges
    <2> HIDE DEF b, p
    <2>4. ASSUME NEW m \in l..j PROVE cost[b[m]] <= T
      <3>1. CASE m = l
        BY <1>5, <1>6, <2>2, <3>1
      <3>2. CASE m = j
        BY <1>4, <1>7, <2>2, <3>2
      <3>3. CASE m # l /\ m # j
        <4>1. m \in 1..n \ {l, j}
          BY <1>5, <3>3
        <4> QED BY <1>6, <2>2, <4>1
      <3> QED BY <3>1, <3>2, <3>3
    <2>5. ASSUME NEW m \in j..r PROVE cost[b[m]] >= T
      <3>1. CASE m = j
        BY <1>4, <1>7, <2>2, <3>1
      <3>2. CASE m # j
        <4>1. m \in 1..n \ {l, j} /\ m \in j + 1..r
          BY <1>5, <3>2
        <4> QED BY <1>6, <2>2, <4>1
      <3> QED BY <3>1, <3>2
    <2>6. p.array = b /\ p.at = j /\ j \in l..r
      BY <1>5, <2>1
    <2> QED BY <2>2, <2>3, <2>4, <2>5, <2>6 DEF a, j, p
  <1>8. CASE cost[a[l]] # T
    <2> DEFINE b == SwapAt(a, j + 1, r)
    <2>1. p = [array |-> b, at |-> j + 1] /\ cost[a[r]] = T
      BY <1>1, <1>8 DEF Place
    <2>2. /\ b \in [1..n -> E] /\ b[r] = a[j + 1] /\ b[j + 1] = a[r]
          /\ \A m \in 1..n \ {j + 1, r} : b[m] = a[m]
      BY <1>3, <1>2, <1>5 DEF SwapAt
    <2>3. Rearranged(a, b, l, r)
      BY <1>3, <1>2, <1>5, SwapRearranges
    <2> HIDE DEF b, p
    <2>4. ASSUME NEW m \in l..j + 1 PROVE cost[b[m]] <= T
      <3>1. CASE m = j + 1
        BY <1>4, <2>1, <2>2, <3>1
      <3>2. CASE m # j + 1
        <4>1. m \in 1..n \ {j + 1, r} /\ m \in l..j
          BY <1>5, <3>2
        <4> QED BY <1>6, <2>2, <4>1
      <3> QED BY <3>1, <3>2
    <2>5. ASSUME NEW m \in j + 1..r PROVE cost[b[m]] >= T
      <3>1. CASE m = j + 1
        BY <1>4, <2>1, <2>2, <3>1
      <3>2. CASE m = r
        BY <1>3, <1>5, <1>6, <2>2, <3>2
      <3>3. CASE m # j + 1 /\ m # r
        <4>1. m \in 1..n \ {j + 1, r}
          BY <1>5, <3>3
        <4> QED BY <1>6, <2>2, <4>1
      <3> QED BY <3>1, <3>2, <3>3
    <2>6. p.array = b /\ p.at = j + 1 /\ j + 1 \in l..r
      BY <1>5, <2>1
    <2> QED BY <2>2, <2>3, <2>4, <2>5, <2>6 DEF a, j, p
  <1> QED BY <1>7, <1>8

-----------------------------------------------------------------------------
(* The loops.  They are told apart by a name, so that there is one proof   *)
(* that each has a round after every other.                                *)

Round(loop, cost, x, s) ==
    IF loop = "meet" THEN IF s.i < s.j THEN Exchange(cost, x, s) ELSE s
    ELSE IF s.left < s.right THEN Partition(cost, x, s) ELSE s

IsLoop(f, loop, cost, x, start, n) ==
    f = [m \in 0..n |-> IF m = 0 THEN start ELSE Round(loop, cost, x, f[m - 1])]

\* A set that holds 0 and what follows each of its numbers holds all.
LEMMA Onwards ==
    ASSUME NEW n \in Nat, NEW Q, 0 \in Q, \A m \in 0..n - 1 : m \in Q => m + 1 \in Q
    PROVE  \A m \in 0..n : m \in Q
  <1> DEFINE bad == (0..n) \ Q
  <1> SUFFICES ASSUME bad # {} PROVE FALSE
    OBVIOUS
  <1>1. bad \subseteq Nat
    OBVIOUS
  <1>2. PICK m \in bad : \A k \in bad : m <= k
    <2> HIDE DEF bad
    <2> QED BY <1>1, LeastOne
  <1>3. m # 0 /\ m \in 0..n
    OBVIOUS
  <1>4. m - 1 \in 0..n - 1 /\ m - 1 \in 0..n /\ ~(m <= m - 1) /\ (m - 1) + 1 = m
    BY <1>3
  <1>5. m - 1 \in Q
    BY <1>2, <1>4
  <1>6. m \in Q
    BY <1>4, <1>5
  <1> QED BY <1>6

LEMMA LoopExists ==
    ASSUME NEW n \in Nat, NEW loop, NEW cost, NEW x, NEW start
    PROVE  \E f : IsLoop(f, loop, cost, x, start, n)
  <1> DEFINE Q == {k \in 0..n : \E f : IsLoop(f, loop, cost, x, start, k)}
  <1>1. 0 \in Q
    <2> DEFINE f == [m \in 0..0 |-> start]
    <2>1. \A m \in 0..0 : m = 0
      OBVIOUS
    <2>2. IsLoop(f, loop, cost, x, start, 0)
      BY <2>1 DEF IsLoop
    <2> QED BY <2>2
  <1>2. ASSUME NEW k \in 0..n - 1, k \in Q PROVE k + 1 \in Q
    <2>1. PICK f : IsLoop(f, loop, cost, x, start, k)
      BY <1>2
    <2> DEFINE g == [m \in 0..k + 1 |-> IF m <= k THEN f[m] ELSE Round(loop, cost, x, f[k])]
               h == [m \in 0..k + 1 |-> IF m = 0 THEN start ELSE Round(loop, cost, x, g[m - 1])]
    <2>2. ASSUME NEW m \in 0..k + 1 PROVE g[m] = h[m]
      <3>1. CASE m = 0
        BY <2>1, <3>1 DEF IsLoop
      <3>2. CASE m # 0 /\ m <= k
        <4>1. m \in 0..k /\ m - 1 \in 0..k /\ m - 1 \in 0..k + 1 /\ m - 1 <= k
          BY <3>2
        <4>2. f[m] = Round(loop, cost, x, f[m - 1])
          BY <2>1, <3>2, <4>1 DEF IsLoop
        <4>3. g[m] = f[m] /\ g[m - 1] = f[m - 1] /\ h[m] = Round(loop, cost, x, g[m - 1])
          BY <3>2, <4>1
        <4> QED BY <4>2, <4>3
      <3>3. CASE m > k
        <4>1. m = k + 1 /\ m - 1 = k /\ k \in 0..k + 1 /\ ~(m <= k) /\ m # 0
          BY <3>3
        <4>2. g[m] = Round(loop, cost, x, f[k]) /\ g[k] = f[k] /\ h[m] = Round(loop, cost, x, g[k])
          BY <4>1
        <4> QED BY <4>2
      <3> QED BY <3>1, <3>2, <3>3
    <2>3. g = h
      <3>1. g = [m \in 0..k + 1 |-> g[m]] /\ h = [m \in 0..k + 1 |-> h[m]]
        OBVIOUS
      <3> HIDE DEF g, h
      <3> QED BY <2>2, <3>1
    <2>4. IsLoop(g, loop, cost, x, start, k + 1)
      <3> HIDE DEF g
      <3> QED BY <2>3 DEF IsLoop
    <2> HIDE DEF g
    <2> QED BY <2>4
  <1>3. \A k \in 0..n : k \in Q
    <2> HIDE DEF Q
    <2> QED BY <1>1, <1>2, Onwards
  <1> QED BY <1>3

\* What is true at first and stays true in every round is true at the end.
LEMMA LoopSteps ==
    ASSUME NEW n \in Nat, NEW loop, NEW cost, NEW x, NEW start, NEW f,
           IsLoop(f, loop, cost, x, start, n)
    PROVE  /\ f[0] = start
           /\ \A m \in 0..n - 1 : f[m + 1] = Round(loop, cost, x, f[m])
  <1>1. 0 \in 0..n /\ f[0] = start
    BY DEF IsLoop
  <1>2. ASSUME NEW m \in 0..n - 1 PROVE f[m + 1] = Round(loop, cost, x, f[m])
    <2>1. m + 1 \in 0..n /\ m + 1 # 0 /\ (m + 1) - 1 = m
      OBVIOUS
    <2> QED BY <2>1 DEF IsLoop
  <1> QED BY <1>1, <1>2

LEMMA MeetLoops ==
    ASSUME NEW cost, NEW a, NEW t, NEW l, NEW r, Len(a) \in Nat
    PROVE  \E f : /\ IsLoop(f, "meet", cost, t, [array |-> a, i |-> l, j |-> r], Len(a))
                  /\ Meet(cost, a, t, l, r) = f[Len(a)]
  <1> DEFINE Is(f) == f = [round \in 0..Len(a) |->
                            IF round = 0 THEN [array |-> a, i |-> l, j |-> r]
                            ELSE LET s == f[round - 1] IN IF s.i < s.j THEN Exchange(cost, t, s) ELSE s]
             f == CHOOSE g : Is(g)
  <1>1. \A g : Is(g) <=> IsLoop(g, "meet", cost, t, [array |-> a, i |-> l, j |-> r], Len(a))
    BY DEF IsLoop, Round
  <1>2. \E g : Is(g)
    <2> HIDE DEF Is
    <2> QED BY <1>1, LoopExists
  <1>3. Is(f)
    <2> HIDE DEF Is
    <2> QED BY <1>2
  <1>4. Meet(cost, a, t, l, r) = f[Len(a)]
    BY Zenon DEF Meet
  <1> HIDE DEF f, Is
  <1> QED BY <1>1, <1>3, <1>4

LEMMA PartitionLoops ==
    ASSUME NEW cost, NEW a, NEW k, Len(a) \in Nat
    PROVE  \E f : /\ IsLoop(f, "part", cost, k, [array |-> a, left |-> 1, right |-> Len(a)], Len(a))
                  /\ kSmallestPartition(cost, a, k) = f[Len(a)].array
  <1> DEFINE Is(f) == f = [round \in 0..Len(a) |->
                            IF round = 0 THEN [array |-> a, left |-> 1, right |-> Len(a)]
                            ELSE LET s == f[round - 1] IN IF s.left < s.right THEN Partition(cost, k, s) ELSE s]
             f == CHOOSE g : Is(g)
  <1>1. \A g : Is(g) <=> IsLoop(g, "part", cost, k, [array |-> a, left |-> 1, right |-> Len(a)], Len(a))
    BY DEF IsLoop, Round
  <1>2. \E g : Is(g)
    <2> HIDE DEF Is
    <2> QED BY <1>1, LoopExists
  <1>3. Is(f)
    <2> HIDE DEF Is
    <2> QED BY <1>2
  <1>4. kSmallestPartition(cost, a, k) = f[Len(a)].array
    BY Zenon DEF kSmallestPartition
  <1> HIDE DEF f, Is
  <1> QED BY <1>1, <1>3, <1>4

LEMMA MeetEnds ==
    ASSUME NEW n \in Nat, NEW E, NEW cost \in [E -> Int], NEW t \in E,
           NEW l \in 1..n, NEW r \in l + 1..n, NEW a \in [1..n -> E],
           Meeting(cost, t, l, r, [array |-> a, i |-> l, j |-> r])
    PROVE  LET s == Meet(cost, a, t, l, r)
           IN  s.array \in [1..n -> E] /\ Rearranged(a, s.array, l, r)
               /\ Meeting(cost, t, l, r, s) /\ s.i >= s.j
  <1> DEFINE start == [array |-> a, i |-> l, j |-> r]
             Good(m, s) == /\ s.array \in [1..n -> E] /\ Rearranged(a, s.array, l, r)
                           /\ Meeting(cost, t, l, r, s) /\ (s.i >= s.j \/ s.i >= l + m)
  <1>1. Len(a) = n /\ Len(a) \in Nat
    BY ArrayLength
  <1>2. PICK f : IsLoop(f, "meet", cost, t, start, n) /\ Meet(cost, a, t, l, r) = f[n]
    BY <1>1, MeetLoops, ZenonT(60)
  <1>3. f[0] = start /\ \A m \in 0..n - 1 : f[m + 1] = Round("meet", cost, t, f[m])
    <2> HIDE DEF start
    <2> QED BY <1>2, LoopSteps
  <1> DEFINE Q == {m \in 0..n : Good(m, f[m])}
  <1>4. 0 \in Q
    <2>1. Rearranged(a, a, l, r)
      BY DEF Rearranged
    <2>2. start.array = a /\ start.i = l /\ l >= l + 0
      OBVIOUS
    <2>3. Good(0, start)
      <3> HIDE DEF start
      <3> QED BY <2>1, <2>2 DEF start
    <2> HIDE DEF Good, start
    <2> QED BY <1>3, <2>3
  <1>5. ASSUME NEW m \in 0..n - 1, m \in Q PROVE m + 1 \in Q
    <2> DEFINE s == f[m]
               x == Exchange(cost, t, s)
    <2>1. Good(m, s)
      BY <1>5
    <2>2. s.i \in Int /\ s.j \in Int
      BY <2>1 DEF Meeting
    <2>3. CASE s.i < s.j
      <3>1. f[m + 1] = x
        BY <1>3, <2>3 DEF Round
      <3> HIDE DEF s
      <3>2. /\ x.array \in [1..n -> E] /\ Rearranged(s.array, x.array, l, r)
            /\ Meeting(cost, t, l, r, x) /\ x.i > s.i
        BY <2>1, <2>3, ExchangeMeets
      <3>3. Rearranged(a, x.array, l, r)
        <4>1. DOMAIN a = DOMAIN s.array
          BY <2>1
        <4> HIDE DEF x
        <4> QED BY <2>1, <3>2, <4>1, RearrangedTwice
      <3> HIDE DEF x
      <3>4. x.i \in Int /\ x.i >= l + (m + 1)
        <4>1. x.i \in Int /\ s.i >= l + m
          BY <2>1, <2>2, <2>3, <3>2 DEF Meeting
        <4> QED BY <2>2, <3>2, <4>1
      <3>5. Good(m + 1, x) /\ m + 1 \in 0..n
        BY <3>2, <3>3, <3>4
      <3> HIDE DEF Good
      <3> QED BY <3>1, <3>5
    <2>4. CASE ~(s.i < s.j)
      <3>1. f[m + 1] = s
        BY <1>3, <2>4 DEF Round
      <3> HIDE DEF s
      <3>2. Good(m + 1, s) /\ m + 1 \in 0..n
        BY <2>1, <2>2, <2>4
      <3> HIDE DEF Good
      <3> QED BY <3>1, <3>2
    <2> QED BY <2>3, <2>4
  <1>6. n \in Q
    <2>1. \A m \in 0..n : m \in Q
      <3> HIDE DEF Q
      <3> QED BY <1>4, <1>5, Onwards
    <2> QED BY <2>1
  <1> DEFINE s == f[n]
  <1>7. Good(n, s)
    BY <1>6
  <1> HIDE DEF s
  <1>8. s.i >= s.j
    <2>0. /\ s.i \in Int /\ s.j \in Int
          /\ (s.i = l /\ s.j = r) \/ (s.i > l /\ s.j < r)
      BY <1>7, Zenon DEF Meeting
    <2>2. l \in Int /\ r \in Int /\ r <= n /\ 1 <= l
      OBVIOUS
    <2>1. s.i \in Int /\ s.j \in Int /\ s.j <= r
      BY <2>0, <2>2
    <2> QED BY <1>7, <2>1, <2>2
  <1>9. Meet(cost, a, t, l, r) = s
    BY <1>2 DEF s
  <1> QED BY <1>7, <1>8, <1>9

\* One round of the outer loop: the k-th element goes between those that are
\* not above it and those that are not below.
LEMMA AroundParts ==
    ASSUME NEW n \in Nat, NEW E, NEW cost \in [E -> Int], NEW a \in [1..n -> E],
           NEW l \in 1..n, NEW r \in l + 1..n, NEW k \in l..r
    PROVE  LET p == Around(cost, a, l, r, k)
           IN  /\ p.array \in [1..n -> E] /\ Rearranged(a, p.array, l, r) /\ p.at \in l..r
               /\ \A m \in l..p.at : cost[p.array[m]] <= cost[a[k]]
               /\ \A m \in p.at..r : cost[p.array[m]] >= cost[a[k]]
  <1> DEFINE t == a[k]
             b == SwapAt(a, l, k)
             c == IF cost[b[r]] > cost[t] THEN SwapAt(b, l, r) ELSE b
             s == Meet(cost, c, t, l, r)
             p == Place(cost, s.array, l, r, t, s.j)
  <1>1. Around(cost, a, l, r, k) = p
    BY DEF Around
  <1>2. l \in 1..n /\ r \in 1..n /\ k \in 1..n /\ l < r /\ l \in l..r /\ r \in l..r /\ n \in Int /\ l # r
    OBVIOUS
  <1>3. t \in E /\ b \in [1..n -> E] /\ b[l] = t
    BY <1>2 DEF SwapAt
  <1>4. Rearranged(a, b, l, r)
    BY <1>2, SwapRearranges
  <1> HIDE DEF b, t
  <1>5. /\ c \in [1..n -> E] /\ Rearranged(a, c, l, r)
        /\ cost[c[l]] >= cost[t] /\ cost[c[r]] <= cost[t]
        /\ cost[c[l]] = cost[t] \/ cost[c[r]] = cost[t]
    <2>0. cost[t] \in Int /\ cost[b[r]] \in Int /\ cost[b[l]] = cost[t]
      BY <1>2, <1>3
    <2>1. CASE cost[b[r]] > cost[t]
      <3> DEFINE d == SwapAt(b, l, r)
      <3>1. d \in [1..n -> E] /\ d[l] = b[r] /\ d[r] = t
        BY <1>2, <1>3 DEF SwapAt
      <3>2. Rearranged(b, d, l, r)
        BY <1>2, <1>3, SwapRearranges
      <3>3. DOMAIN a = DOMAIN b
        BY <1>3
      <3> HIDE DEF d
      <3>4. Rearranged(a, d, l, r)
        BY <1>4, <3>2, <3>3, RearrangedTwice
      <3>5. c = d
        BY <2>1 DEF d
      <3> HIDE DEF c
      <3> QED BY <2>0, <2>1, <3>1, <3>4, <3>5
    <2>2. CASE ~(cost[b[r]] > cost[t])
      <3>1. c = b
        BY <2>2
      <3> HIDE DEF c
      <3> QED BY <1>3, <1>4, <2>0, <2>2, <3>1
    <2> QED BY <2>1, <2>2
  <1> HIDE DEF c
  <1>6. Meeting(cost, t, l, r, [array |-> c, i |-> l, j |-> r])
    <2> DEFINE q == [array |-> c, i |-> l, j |-> r]
    <2>1. DOMAIN q = {"array", "i", "j"} /\ q.array = c /\ q.i = l /\ q.j = r
      OBVIOUS
    <2> HIDE DEF q
    <2>2. /\ q.i \in Int /\ q.j \in Int /\ q.i <= q.j + 1 /\ q.i = l /\ q.j = r
          /\ \A m \in l..r : ~(m < q.i) /\ ~(m > q.j)
      BY <1>2, <2>1
    <2>3. /\ cost[q.array[q.i]] >= cost[t] /\ cost[q.array[q.j]] <= cost[t]
          /\ cost[q.array[l]] = cost[t] \/ cost[q.array[r]] = cost[t]
      BY <1>5, <2>1
    <2>4. Meeting(cost, t, l, r, q)
      BY <2>1, <2>2, <2>3, Zenon DEF Meeting
    <2> QED BY <2>4 DEF q
  <1>7. /\ s.array \in [1..n -> E] /\ Rearranged(c, s.array, l, r)
        /\ Meeting(cost, t, l, r, s) /\ s.i >= s.j
    BY <1>3, <1>5, <1>6, MeetEnds
  <1> HIDE DEF s
  <1>8. /\ p.array \in [1..n -> E] /\ Rearranged(s.array, p.array, l, r) /\ p.at \in l..r
        /\ \A m \in l..p.at : cost[p.array[m]] <= cost[t]
        /\ \A m \in p.at..r : cost[p.array[m]] >= cost[t]
    BY <1>3, <1>7, PlaceParts, ZenonT(60)
  <1> HIDE DEF p
  <1>9. Rearranged(a, p.array, l, r)
    <2>1. DOMAIN a = 1..n /\ DOMAIN c = 1..n /\ DOMAIN s.array = 1..n
      BY <1>5, <1>7
    <2>2. Rearranged(a, s.array, l, r)
      BY <1>5, <1>7, <2>1, RearrangedTwice
    <2> QED BY <1>8, <2>1, <2>2, RearrangedTwice
  <1> QED BY <1>1, <1>8, <1>9 DEF t

-----------------------------------------------------------------------------
(* The outer loop. *)

\* What is left of the part costs no more than the rest, what is right of it no
\* less; k is in the part, or was put where it belongs.
Parted(cost, k, n, s) ==
    /\ s.array \in [1..n -> 1..n] /\ \A e \in 1..n : \E m \in 1..n : s.array[m] = e
    /\ s.left \in Int /\ s.right \in Int /\ 1 <= s.left /\ s.right <= n
    /\ (s.left <= k /\ k <= s.right) \/ (s.left = k + 1 /\ s.right = k - 1)
    /\ \A m, x \in 1..n :
          /\ m < s.left /\ x >= s.left => cost[s.array[m]] <= cost[s.array[x]]
          /\ m <= s.right /\ x > s.right => cost[s.array[m]] <= cost[s.array[x]]

LEMMA PartitionParts ==
    ASSUME NEW n \in Nat, NEW cost \in [1..n -> Int], NEW k \in 1..n, NEW s,
           Parted(cost, k, n, s), s.left < s.right
    PROVE  LET x == Partition(cost, k, s)
           IN  Parted(cost, k, n, x) /\ (x.right <= x.left \/ x.right - x.left < s.right - s.left)
  <1> DEFINE a == s.array
             l == s.left
             r == s.right
             p == Around(cost, a, l, r, k)
             b == p.array
             at == p.at
             lower == IF at <= k THEN at + 1 ELSE l
             upper == IF k <= at THEN at - 1 ELSE r
             x == Partition(cost, k, s)
             E == 1..n
             T == cost[a[k]]
  <1>1. /\ a \in [1..n -> E] /\ \A e \in 1..n : \E m \in 1..n : a[m] = e
        /\ l \in Int /\ r \in Int /\ 1 <= l /\ r <= n /\ l < r
        /\ \A m, y \in 1..n : /\ m < l /\ y >= l => cost[a[m]] <= cost[a[y]]
                              /\ m <= r /\ y > r => cost[a[m]] <= cost[a[y]]
    BY DEF Parted
  <1>2. l <= k /\ k <= r /\ l \in 1..n /\ r \in l + 1..n /\ k \in l..r /\ k \in Int /\ n \in Int
    <2>1. (l <= k /\ k <= r) \/ (l = k + 1 /\ r = k - 1)
      BY DEF Parted
    <2>2. l \in Int /\ r \in Int /\ 1 <= l /\ r <= n /\ l < r /\ k \in Int /\ n \in Int
      BY <1>1
    <2> HIDE DEF l, r
    <2>3. l <= k /\ k <= r
      BY <2>1, <2>2
    <2> QED BY <2>2, <2>3
  <1>3. x = [array |-> b, left |-> lower, right |-> upper]
    BY DEF Partition, Narrow
  <1> HIDE DEF a, l, r, p, x
  <1>4. /\ b \in [1..n -> E] /\ Rearranged(a, b, l, r) /\ at \in l..r
        /\ \A m \in l..at : cost[b[m]] <= T
        /\ \A m \in at..r : cost[b[m]] >= T
    <2>1. cost \in [E -> Int]
      OBVIOUS
    <2> HIDE DEF E
    <2> QED BY <1>1, <1>2, <2>1, AroundParts DEF p
  <1> HIDE DEF b, at
  <1>5. /\ T \in Int /\ \A m \in 1..n : cost[b[m]] \in Int /\ cost[a[m]] \in Int
        /\ at \in Int /\ l <= at /\ at <= r
    <2>1. a[k] \in 1..n /\ \A m \in 1..n : b[m] \in 1..n /\ a[m] \in 1..n
      BY <1>1, <1>4
    <2>2. \A e \in 1..n : cost[e] \in Int
      OBVIOUS
    <2>3. at \in Int /\ l <= at /\ at <= r
      BY <1>1, <1>4
    <2> QED BY <2>1, <2>2, <2>3
  <1>6. ASSUME NEW m \in 1..n, m < l \/ m > r PROVE b[m] = a[m]
    <2>1. m \in DOMAIN a \ (l..r)
      BY <1>1, <1>6
    <2> QED BY <1>4, <2>1 DEF Rearranged
  <1>7. ASSUME NEW m \in 1..n, l <= m, m <= r PROVE \E y \in 1..n : l <= y /\ y <= r /\ b[m] = a[y]
    <2>1. m \in l..r /\ l..r \subseteq 1..n
      BY <1>1, <1>7
    <2>2. PICK y \in l..r : b[m] = a[y]
      BY <1>4, <2>1 DEF Rearranged
    <2> QED BY <2>1, <2>2
  <1>8. ASSUME NEW e \in 1..n PROVE \E m \in 1..n : b[m] = e
    <2>1. PICK y \in 1..n : a[y] = e
      BY <1>1
    <2>2. CASE y < l \/ y > r
      BY <1>6, <2>1, <2>2
    <2>3. CASE l <= y /\ y <= r
      <3>1. y \in l..r /\ l..r \subseteq 1..n
        BY <1>1, <2>3
      <3>2. PICK m \in l..r : a[y] = b[m]
        BY <1>4, <3>1 DEF Rearranged
      <3> QED BY <2>1, <3>1, <3>2
    <2>4. y \in Int
      OBVIOUS
    <2> QED BY <1>1, <2>2, <2>3, <2>4
  \* The part's borders hold as before.
  <1>9. ASSUME NEW m \in 1..n, NEW y \in 1..n, m < l, y >= l
        PROVE  cost[b[m]] <= cost[b[y]]
    <2>1. b[m] = a[m] /\ \E z \in 1..n : z >= l /\ b[y] = a[z]
      <3>1. CASE y <= r
        BY <1>6, <1>7, <1>9, <3>1
      <3>2. CASE y > r
        BY <1>6, <1>9, <3>2
      <3>3. y \in Int
        OBVIOUS
      <3> QED BY <1>1, <3>1, <3>2, <3>3
    <2> QED BY <1>1, <1>9, <2>1
  <1>10. ASSUME NEW m \in 1..n, NEW y \in 1..n, m <= r, y > r
         PROVE  cost[b[m]] <= cost[b[y]]
    <2>1. b[y] = a[y] /\ \E z \in 1..n : z <= r /\ b[m] = a[z]
      <3>1. CASE m >= l
        BY <1>6, <1>7, <1>10, <3>1
      <3>2. CASE m < l
        BY <1>6, <1>10, <3>2
      <3>3. m \in Int
        OBVIOUS
      <3> QED BY <1>1, <3>1, <3>2, <3>3
    <2> QED BY <1>1, <1>10, <2>1
  \* And within it, on both sides of where the k-th element went.
  <1>11. ASSUME NEW m \in 1..n, NEW y \in 1..n, m <= at, y >= at
         PROVE  m = y \/ cost[b[m]] <= cost[b[y]]
    <2>0. m \in Int /\ y \in Int /\ cost[b[m]] \in Int /\ cost[b[y]] \in Int
      BY <1>5
    <2>1. CASE m < l
      <3>1. y >= l
        BY <1>1, <1>5, <1>11, <2>0
      <3> QED BY <1>9, <2>1, <3>1
    <2>2. CASE y > r
      <3>1. m <= r
        BY <1>1, <1>5, <1>11, <2>0
      <3> QED BY <1>10, <2>2, <3>1
    <2>3. CASE m >= l /\ y <= r
      <3>1. m \in l..at /\ y \in at..r
        BY <1>1, <1>5, <1>11, <2>0, <2>3
      <3>2. cost[b[m]] <= T /\ T <= cost[b[y]]
        BY <1>4, <3>1
      <3> QED BY <1>5, <2>0, <3>2
    <2> QED BY <1>1, <2>0, <2>1, <2>2, <2>3
  <1>12. ASSUME NEW m \in 1..n, NEW y \in 1..n
         PROVE  /\ m < lower /\ y >= lower => cost[b[m]] <= cost[b[y]]
                /\ m <= upper /\ y > upper => cost[b[m]] <= cost[b[y]]
    <2>0. m \in Int /\ y \in Int
      OBVIOUS
    <2>1. ASSUME m < lower, y >= lower PROVE cost[b[m]] <= cost[b[y]]
      <3>1. CASE at <= k
        <4>1. m <= at /\ y >= at /\ m # y
          BY <1>5, <2>0, <2>1, <3>1
        <4> QED BY <1>11, <4>1
      <3>2. CASE ~(at <= k)
        BY <1>9, <2>1, <3>2
      <3> QED BY <3>1, <3>2
    <2>2. ASSUME m <= upper, y > upper PROVE cost[b[m]] <= cost[b[y]]
      <3>1. CASE k <= at
        <4>1. m <= at /\ y >= at /\ m # y
          BY <1>5, <2>0, <2>2, <3>1
        <4> QED BY <1>11, <4>1
      <3>2. CASE ~(k <= at)
        BY <1>10, <2>2, <3>2
      <3> QED BY <3>1, <3>2
    <2> QED BY <2>1, <2>2
  <1>13. /\ lower \in Int /\ upper \in Int /\ 1 <= lower /\ upper <= n
         /\ (lower <= k /\ k <= upper) \/ (lower = k + 1 /\ upper = k - 1)
         /\ upper <= lower \/ upper - lower < r - l
    <2>1. /\ l \in Int /\ r \in Int /\ k \in Int /\ n \in Int /\ at \in Int
          /\ 1 <= l /\ r <= n /\ l <= k /\ k <= r /\ l <= at /\ at <= r
      BY <1>1, <1>2, <1>5
    <2>2. CASE at < k
      <3>1. lower = at + 1 /\ upper = r
        BY <2>1, <2>2
      <3> HIDE DEF lower, upper
      <3> QED BY <2>1, <2>2, <3>1
    <2>3. CASE at > k
      <3>1. lower = l /\ upper = at - 1
        BY <2>1, <2>3
      <3> HIDE DEF lower, upper
      <3> QED BY <2>1, <2>3, <3>1
    <2>4. CASE at = k
      <3>1. lower = k + 1 /\ upper = k - 1
        BY <2>1, <2>4
      <3> HIDE DEF lower, upper
      <3> QED BY <2>1, <3>1
    <2> QED BY <2>1, <2>2, <2>3, <2>4
  <1> HIDE DEF lower, upper
  <1>14. x.array = b /\ x.left = lower /\ x.right = upper
    BY <1>3
  <1>15. Parted(cost, k, n, x)
    BY <1>4, <1>8, <1>12, <1>13, <1>14 DEF Parted
  <1> QED BY <1>13, <1>14, <1>15 DEF l, r, x

LEMMA PartitionEnds ==
    ASSUME NEW n \in Nat, NEW cost \in [1..n -> Int], NEW k \in 1..n
    PROVE  LET b == kSmallestPartition(cost, [i \in 1..n |-> i], k)
           IN  /\ b \in [1..n -> 1..n] /\ \A e \in 1..n : \E m \in 1..n : b[m] = e
               /\ \A m \in 1..k - 1, x \in k..n : cost[b[m]] <= cost[b[x]]
  <1> DEFINE a == [i \in 1..n |-> i]
             start == [array |-> a, left |-> 1, right |-> n]
             Good(m, s) == Parted(cost, k, n, s) /\ (s.right <= s.left \/ s.right - s.left <= n - 1 - m)
  <1>0. a \in [1..n -> 1..n] /\ \A e \in 1..n : a[e] = e
    OBVIOUS
  <1> HIDE DEF a
  <1>1. Len(a) = n /\ Len(a) \in Nat
    BY <1>0, ArrayLength
  <1>2. PICK f : IsLoop(f, "part", cost, k, start, n) /\ kSmallestPartition(cost, a, k) = f[n].array
    BY <1>1, PartitionLoops
  <1>3. f[0] = start /\ \A m \in 0..n - 1 : f[m + 1] = Round("part", cost, k, f[m])
    <2> HIDE DEF start
    <2> QED BY <1>2, LoopSteps
  <1> DEFINE Q == {m \in 0..n : Good(m, f[m])}
  <1>4. 0 \in Q
    <2>1. start.array = a /\ start.left = 1 /\ start.right = n
      OBVIOUS
    <2> HIDE DEF start
    <2>2. Good(0, start) /\ 0 \in 0..n
      BY <1>0, <2>1 DEF Parted
    <2> HIDE DEF Good
    <2> QED BY <1>3, <2>2
  <1>5. ASSUME NEW m \in 0..n - 1, m \in Q PROVE m + 1 \in Q
    <2> DEFINE s == f[m]
               x == Partition(cost, k, s)
    <2>1. Good(m, s) /\ m + 1 \in 0..n
      BY <1>5
    <2>2. s.left \in Int /\ s.right \in Int
      BY <2>1 DEF Parted
    <2>3. CASE s.left < s.right
      <3>1. f[m + 1] = x
        BY <1>3, <2>3 DEF Round
      <3> HIDE DEF s
      <3>2. Parted(cost, k, n, x) /\ (x.right <= x.left \/ x.right - x.left < s.right - s.left)
        BY <2>1, <2>3, PartitionParts
      <3> HIDE DEF x
      <3>3. x.left \in Int /\ x.right \in Int
        BY <3>2 DEF Parted
      <3>4. Good(m + 1, x)
        BY <2>1, <2>2, <2>3, <3>2, <3>3
      <3> HIDE DEF Good
      <3> QED BY <2>1, <3>1, <3>4
    <2>4. CASE ~(s.left < s.right)
      <3>1. f[m + 1] = s
        BY <1>3, <2>4 DEF Round
      <3> HIDE DEF s
      <3>2. Good(m + 1, s)
        BY <2>1, <2>2, <2>4
      <3> HIDE DEF Good
      <3> QED BY <2>1, <3>1, <3>2
    <2> QED BY <2>3, <2>4
  <1>6. n \in Q
    <2>1. \A m \in 0..n : m \in Q
      <3> HIDE DEF Q
      <3> QED BY <1>4, <1>5, Onwards
    <2> QED BY <2>1
  <1> DEFINE s == f[n]
             b == s.array
  <1>7. Good(n, s)
    BY <1>6
  <1>8. kSmallestPartition(cost, a, k) = b
    BY <1>2
  <1> HIDE DEF s
  <1>9. /\ s.left \in Int /\ s.right \in Int /\ s.right <= s.left
        /\ (s.left = k /\ s.right = k) \/ (s.left = k + 1 /\ s.right = k - 1)
        /\ b \in [1..n -> 1..n] /\ \A e \in 1..n : \E m \in 1..n : b[m] = e
    <2>1. /\ s.left \in Int /\ s.right \in Int
          /\ (s.left <= k /\ k <= s.right) \/ (s.left = k + 1 /\ s.right = k - 1)
          /\ b \in [1..n -> 1..n] /\ \A e \in 1..n : \E m \in 1..n : b[m] = e
      BY <1>7 DEF Parted
    <2>2. s.right <= s.left \/ s.right - s.left <= n - 1 - n
      BY <1>7
    <2>3. k \in Int /\ n \in Int
      OBVIOUS
    <2> DEFINE lower == s.left
               upper == s.right
    <2>4. /\ lower \in Int /\ upper \in Int
          /\ (lower <= k /\ k <= upper) \/ (lower = k + 1 /\ upper = k - 1)
      BY <2>1
    <2>5. upper <= lower \/ upper - lower <= n - 1 - n
      BY <2>2
    <2> HIDE DEF lower, upper
    <2>6. upper <= lower
      BY <2>3, <2>4, <2>5
    <2>7. (lower = k /\ upper = k) \/ (lower = k + 1 /\ upper = k - 1)
      BY <2>3, <2>4, <2>6
    <2> QED BY <2>1, <2>6, <2>7 DEF lower, upper
  <1>10. ASSUME NEW m \in 1..k - 1, NEW x \in k..n PROVE cost[b[m]] <= cost[b[x]]
    <2>1. m \in 1..n /\ x \in 1..n /\ m < k /\ k <= x /\ m <= k - 1 /\ x > k - 1
      OBVIOUS
    <2>2. CASE s.left = k
      BY <1>7, <2>1, <2>2 DEF Parted
    <2>3. CASE s.right = k - 1
      BY <1>7, <2>1, <2>3 DEF Parted
    <2> QED BY <1>9, <2>2, <2>3
  <1> HIDE DEF b
  <1> QED BY <1>8, <1>9, <1>10 DEF a

-----------------------------------------------------------------------------
SelectInv ==
    /\ \E n \in Nat : elements \in [cost : [1..n -> Int], keep : 1..n - 1]
    /\ KeepsSmallest

LEMMA SelectInvInit == SelectInit => SelectInv
  <1> SUFFICES ASSUME SelectInit PROVE SelectInv
    OBVIOUS
  <1>1. PICK n \in 2..MaxLength : elements \in [cost : [1..n -> Costs], keep : 1..n - 1]
    BY DEF SelectInit
  <1>2. n \in Nat /\ elements \in [cost : [1..n -> Int], keep : 1..n - 1]
    <2>1. n \in Nat /\ elements.cost \in [1..n -> Costs] /\ elements.keep \in 1..n - 1
          /\ elements = [cost |-> elements.cost, keep |-> elements.keep]
      BY <1>1, SelectionAssumption
    <2>2. elements.cost \in [1..n -> Int]
      BY <2>1, SelectionAssumption
    <2> QED BY <2>1, <2>2
  <1> QED BY <1>2 DEF SelectInit, SelectInv, KeepsSmallest

LEMMA SelectInvNext == SelectInv /\ [Select]_selectVars => SelectInv'
  <1> SUFFICES ASSUME SelectInv, [Select]_selectVars PROVE SelectInv'
    OBVIOUS
  <1>1. CASE UNCHANGED selectVars
    BY <1>1 DEF SelectInv, KeepsSmallest, selectVars
  <1>2. CASE Select
    <2>1. PICK n \in Nat : elements \in [cost : [1..n -> Int], keep : 1..n - 1]
      BY DEF SelectInv
    <2> DEFINE cost == elements.cost
               k == elements.keep + 1
               b == kSmallestPartition(cost, [i \in 1..n |-> i], k)
    <2>2. /\ cost \in [1..n -> Int] /\ k \in 1..n /\ k - 1 = elements.keep /\ DOMAIN cost = 1..n
          /\ Len(cost) = n /\ elements.keep \in Int
      BY <2>1, ArrayLength
    <2>3. order' = b /\ elements' = elements
      BY <1>2, <2>2 DEF Select
    <2> HIDE DEF cost, k
    <2>4. /\ b \in [1..n -> 1..n] /\ \A e \in 1..n : \E m \in 1..n : b[m] = e
          /\ \A m \in 1..k - 1, x \in k..n : cost[b[m]] <= cost[b[x]]
      BY <2>2, PartitionEnds, ZenonT(40)
    <2> HIDE DEF b
    <2>5. Len(b) = n /\ DOMAIN b = 1..n
      BY <2>4, ArrayLength
    <2>6. ToSet(b) = 1..n
      <3>1. ToSet(b) = {b[m] : m \in 1..n}
        BY <2>5, Zenon DEF ToSet
      <3>2. \A m \in 1..n : b[m] \in 1..n
        BY <2>4
      <3>3. \A e \in 1..n : \E m \in 1..n : b[m] = e
        BY <2>4
      <3> QED BY <3>1, <3>2, <3>3, Zenon
    <2>7. k - 1 = elements.keep /\ elements.keep + 1 = k
      BY <2>2 DEF k
    <2>8. KeepsSmallest'
      BY <2>2, <2>3, <2>4, <2>5, <2>6, <2>7 DEF KeepsSmallest, cost
    <2> QED BY <2>1, <2>3, <2>8 DEF SelectInv
  <1> QED BY <1>1, <1>2

\* For any number of elements and any costs, with ties or without: the partition
\* only reorders them, its loops stop within the array, and none of those it puts
\* first costs more than one of the rest (k-smallest-partition.ts).
THEOREM SmallestKept == SelectSpec => []KeepsSmallest
  BY SelectInvInit, SelectInvNext, PTL DEF SelectSpec, SelectInv

=============================================================================
