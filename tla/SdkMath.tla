------------------------------ MODULE SdkMath ------------------------------
(***************************************************************************)
(* The arithmetic of the TypeScript SDK (utils/math), with which a quote   *)
(* foretells what the program's PoolMath will compute.  Numbers are BN,    *)
(* without a width of their own; where the SDK tests for one and throws,   *)
(* the result is Err.                                                      *)
(***************************************************************************)
EXTENDS PoolMath

-----------------------------------------------------------------------------
(* bit-math.ts *)

mulDivRoundUpIf(n0, n1, d, roundUp, limit) ==
    IF d = 0 \/ n0 * n1 > limit THEN Err ELSE DivRound(n0 * n1, d, roundUp)

\* Rounds up when the quotient, not the remainder, has a bit set.
mulShiftRightRoundUpIf(n0, n1, roundUp, limit) ==
    LET result == (n0 * n1) \div WORD
        shouldRound == roundUp /\ result % WORD > 0
    IN  IF n0 = 0 \/ n1 = 0 THEN 0
        ELSE IF n0 * n1 > limit \/ (shouldRound /\ result = U64MAX) THEN Err
        ELSE IF shouldRound THEN result + 1 ELSE result

divRoundUpIf(n, d, roundUp) == IF d = 0 THEN Err ELSE DivRound(n, d, roundUp)

-----------------------------------------------------------------------------
(* token-math.ts *)

getAmountDeltaA(p0, p1, liquidity, roundUp) ==
    LET result == DivRound(liquidity * PriceGap(p0, p1) * WORD, p0 * p1, roundUp)
    IN  IF p0 * p1 = 0 \/ result > U64MAX THEN Err ELSE result

getAmountDeltaB(p0, p1, liquidity, roundUp) ==
    mulShiftRightRoundUpIf(liquidity, PriceGap(p0, p1), roundUp, U128MAX)

getNextSqrtPriceFromARoundUp(p, liquidity, amount, isInput) ==
    LET numerator == liquidity * p * WORD
        denominator == IF isInput THEN liquidity * WORD + p * amount
                                  ELSE liquidity * WORD - p * amount
        price == DivRound(numerator, denominator, TRUE)
    IN  IF amount = 0 THEN p
        ELSE IF p * amount > U256MAX \/ numerator > U256MAX \/ denominator <= 0 THEN Err
        ELSE IF price < MIN_SQRT_PRICE_X64 \/ price > MAX_SQRT_PRICE_X64 THEN Err
        ELSE price

\* Neither the sum nor the difference is tested.
getNextSqrtPriceFromBRoundDown(p, liquidity, amount, isInput) ==
    LET delta == divRoundUpIf(amount * WORD, liquidity, ~isInput)
    IN  IF delta = Err THEN Err ELSE IF isInput THEN p + delta ELSE p - delta

getNextSqrtPrice(p, liquidity, amount, isInput, aToB) ==
    IF isInput = aToB THEN getNextSqrtPriceFromARoundUp(p, liquidity, amount, isInput)
                      ELSE getNextSqrtPriceFromBRoundDown(p, liquidity, amount, isInput)

\* A Percentage is a fraction; the lower bound divides by one plus it.
adjustForSlippage(n, slippage, adjustUp) ==
    IF adjustUp
    THEN (n * (slippage.denominator + slippage.numerator)) \div slippage.denominator
    ELSE (n * slippage.denominator) \div (slippage.denominator + slippage.numerator)

-----------------------------------------------------------------------------
(* swap-math.ts *)

getAmountFixedDelta(p0, p1, liquidity, isInput, aToB) ==
    IF aToB = isInput THEN getAmountDeltaA(p0, p1, liquidity, isInput)
                      ELSE getAmountDeltaB(p0, p1, liquidity, isInput)

getAmountUnfixedDelta(p0, p1, liquidity, isInput, aToB) ==
    IF aToB = isInput THEN getAmountDeltaB(p0, p1, liquidity, ~isInput)
                      ELSE getAmountDeltaA(p0, p1, liquidity, ~isInput)

amountCalc(remaining, feeRate, isInput) ==
    IF isInput
    THEN mulDivRoundUpIf(remaining, FEE_RATE_MUL_VALUE - feeRate, FEE_RATE_MUL_VALUE, FALSE, U128MAX)
    ELSE remaining

computeSwapStep(remaining, feeRate, liquidity, current, target, isInput, aToB) ==
    LET fixedToTarget == getAmountFixedDelta(current, target, liquidity, isInput, aToB)
        calc == amountCalc(remaining, feeRate, isInput)
        next == IF calc >= fixedToTarget THEN target
                ELSE getNextSqrtPrice(current, liquidity, calc, isInput, aToB)
        isMax == next = target
        unfixed == getAmountUnfixedDelta(current, next, liquidity, isInput, aToB)
        fixed == IF isMax THEN fixedToTarget
                 ELSE getAmountFixedDelta(current, next, liquidity, isInput, aToB)
        in == IF isInput THEN fixed ELSE unfixed
        out == IF isInput THEN unfixed
               ELSE IF fixed > remaining THEN remaining ELSE fixed
        feeOfIn == mulDivRoundUpIf(in, feeRate, FEE_RATE_MUL_VALUE - feeRate, TRUE, U128MAX)
        allIsFee == isInput /\ ~isMax
    IN  IF \/ Err \in {fixedToTarget, calc, next} \/ Err \in {unfixed, fixed}
           \/ ~allIsFee /\ feeOfIn = Err
        THEN StepError
        ELSE [error |-> FALSE, amount_in |-> in, amount_out |-> out, next_price |-> next,
              fee_amount |-> IF allIsFee THEN remaining - in ELSE feeOfIn]

=============================================================================
