--------------------------- MODULE MCCalculations ---------------------------
(* Four calculations, each on all of its inputs: compute_swap between      *)
(* prices of which many are next to each other, so that every way of       *)
(* rounding occurs; a transfer fee and its inverse, with fees from none to *)
(* all of the amount and caps from none to out of reach; deposits and      *)
(* withdrawals from quote to execution, over the ticks -5..5, asked for    *)
(* off and on the grid of 2; and the partition of a few elements.          *)
EXTENDS SwapStep, FeeRoundTrip, LiquidityQuotes, Selection

CONSTANT Nothing

VARIABLE part   \* which of the four; the variables of the others stay as they are

-----------------------------------------------------------------------------
MCMin == -5

\* 64 * sqrt(2)^t.
MCSqrtPrice ==
    [t \in -5..5 |-> <<11, 16, 23, 32, 45, 64, 91, 128, 181, 256, 362>>[t + 6]]

MCPrices == {12, 16, 23, 32, 33, 50, 63, 64, 65, 91, 110, 128, 150}

MCFees == {NoFee, [basis_points |-> 3, maximum_fee |-> 2]}

MCSlippages == {[numerator |-> n, denominator |-> 10] : n \in {0, 1, 4}}

MCIncreases ==
    [kind : {"increase"}, on : {"amounts", "price"}, side : {"a", "b"}, lower : {-3, -2, 0},
     upper : {-1, 1, 3}, amount : {1, 7, 20}, slippage : MCSlippages, feeA : MCFees, feeB : MCFees]

MCDecreases ==
    [kind : {"decrease"}, on : {"amounts", "price"}, side : {"a"}, lower : {-2, 0}, upper : {2, 4},
     amount : {1, 7, 20}, slippage : MCSlippages, feeA : MCFees, feeB : MCFees]

MCAsks == MCIncreases \cup MCDecreases

-----------------------------------------------------------------------------
MCStepPrices == 11..16 \cup 45..91 \cup {128, 256, 361, 362}

MCLiquidities == {0, 1, 7, 33, 64, 150, 700, 4000}

MCStepAmounts == {1, 2, 3, 5, 8, 9, 15, 40, 63}

MCFeeRates == {0, 3}

MCSettings == [basis_points : 0..10, maximum_fee : {0, 1, 3, 10, 63}]

MCOffers == {0, 1, 2, 3, 7, 10, 19, 20, 33, 50, 62, 63}

\* What the theorems on these calculations assume of their inputs.
ASSUME Inputs == StepInputs /\ TripInputs /\ QuoteInputs /\ PositionsExist

MCCosts == 1..3

-----------------------------------------------------------------------------
NoStep == call = Nothing /\ result = Pending

NoTrip == transfer = Nothing /\ sent = Unsent

NoQuote == pool = Nothing /\ ask = Nothing /\ phase = "none" /\ quote = Nothing

NoSelection == elements = Nothing /\ order = <<>>

CalculationInit ==
    \/ part = "step" /\ StepInit /\ NoTrip /\ NoQuote /\ NoSelection
    \/ part = "trip" /\ TripInit /\ NoStep /\ NoQuote /\ NoSelection
    \/ part = "quotes" /\ Init /\ NoStep /\ NoTrip /\ NoSelection
    \/ part = "select" /\ SelectInit /\ NoStep /\ NoTrip /\ NoQuote

CalculationNext ==
    \/ part = "step" /\ StepNext /\ UNCHANGED <<part, tripVars, vars, selectVars>>
    \/ part = "trip" /\ TripNext /\ UNCHANGED <<part, stepVars, vars, selectVars>>
    \/ part = "quotes" /\ Next /\ UNCHANGED <<part, stepVars, tripVars, selectVars>>
    \/ part = "select" /\ Select /\ UNCHANGED <<part, stepVars, tripVars, vars>>

CalculationSpec ==
    CalculationInit /\ [][CalculationNext]_<<part, stepVars, tripVars, vars, selectVars>>

=============================================================================
