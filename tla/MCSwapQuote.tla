---------------------------- MODULE MCSwapQuote ----------------------------
(* Pools over the ticks -5..5 with spacing 2 and four arrays of two slots.  *)
EXTENDS SwapQuote

MCMin == -5

\* 64 * sqrt(2)^t.
MCSqrtPrice ==
    [t \in -5..5 |-> <<11, 16, 23, 32, 45, 64, 91, 128, 181, 256, 362>>[t + 6]]

MCRanges == {<<-2, 2>>, <<0, 4>>, <<-4, 0>>, <<-4, 4>>}

MCArrays == {{-8, -4, 0, 4}, {-4, 0, 4}, {-4, 0}}

\* Liquidity of 25 in each of a set of ranges.
MCNet(ranges) ==
    LET ends == {r[1] : r \in ranges} \cup {r[2] : r \in ranges}
        net(t) == 25 * (Cardinality({r \in ranges : r[1] = t}) - Cardinality({r \in ranges : r[2] = t}))
    IN  [t \in ends |-> net(t)]

\* A move to the left that ends on a tick leaves the pool left of it.
MCTicks(p) ==
    LET t == tick_index_from_sqrt_price(p)
    IN  IF SqrtPrice[t] = p THEN {t, t - 1} ELSE {t}

MCPool(p, t, ranges, arrays) ==
    [sqrt_price |-> p, tick |-> t, net |-> MCNet(ranges), arrays |-> arrays,
     liquidity |-> 25 * Cardinality({r \in ranges : r[1] <= t /\ t < r[2]})]

\* What was deposited for the pool to be there fits its accounts.
MCHeld(p, ranges) ==
    LET low(r) == SqrtPrice[r[1]]
        up(r) == SqrtPrice[r[2]]
        at(r) == Max({low(r), Min({p, up(r)})})
        heldA(r) == DivRound(25 * WORD * (up(r) - at(r)), up(r) * at(r), TRUE)
        heldB(r) == DivRound(25 * (at(r) - low(r)), WORD, TRUE)
    IN  MapThenSumSet(heldA, ranges) <= U64MAX /\ MapThenSumSet(heldB, ranges) <= U64MAX

\* On and between the ticks, and where the SDK's rounding of b decides.
MCPrices == {16, 32, 50, 62, 64, 70, 100, 127, 128, 300}

MCPools ==
    UNION {UNION {{MCPool(p, t, ranges, arrays) :
                      ranges \in {r \in SUBSET MCRanges \ {{}} : MCHeld(p, r)}, arrays \in MCArrays}
              : t \in MCTicks(p)} : p \in MCPrices}

\* Liquidity at a tick, and what is held of b below it.
MCDepth(p) ==
    [t \in MIN_TICK_INDEX - 1..MAX_TICK_INDEX |->
        LET net(s) == p.net[s] IN MapThenSumSet(net, {s \in DOMAIN p.net : s <= t})]

MCBelow(p) ==
    [t \in MIN_TICK_INDEX..MAX_TICK_INDEX |->
        LET within(s) == MCDepth(p)[s] * (SqrtPrice[s + 1] - SqrtPrice[s])
        IN  MapThenSumSet(within, MIN_TICK_INDEX..t - 1)]

MCNoFee == NoFee
MCFee == [basis_points |-> 3, maximum_fee |-> 2]

MCSlippages == {[numerator |-> 0, denominator |-> 10]}

MCCalls ==
    {[amount |-> n, isInput |-> i, aToB |-> a, limit |-> IF a THEN 11 ELSE 362, slippage |-> s,
      feeIn |-> f, feeOut |-> g] :
        n \in {1, 2, 3, 5, 20, 32}, i \in BOOLEAN, a \in BOOLEAN, s \in MCSlippages,
        f \in {MCNoFee, MCFee}, g \in {MCNoFee, MCFee}}

\* What the theorems on quotes assume of pools and calls.
ASSUME Inputs == CallsTyped /\ \A p \in Pools : RealPool(p, MCDepth(p), MCBelow(p))

=============================================================================
