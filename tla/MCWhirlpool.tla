---------------------------- MODULE MCWhirlpool ----------------------------
(* Fees and liquidity: two positions and swaps over the ticks -5..5 with    *)
(* spacing 2, four tick arrays of two slots.  Word size 64.                 *)
EXTENDS BoundedPool, TLC

MCMin == -5

\* 64 * sqrt(2)^t.
MCSqrtPrice ==
    [t \in -5..5 |-> <<11, 16, 23, 32, 45, 64, 91, 128, 181, 256, 362>>[t + 6]]

MCRanges == {<<-2, 2>>, <<0, 4>>, <<-4, 0>>}

MCArrays == {<<4, 0, -4>>, <<0, -4>>, <<0, 4>>, <<-4, 0, 4>>, <<-4>>}

MCFirstArrays == {-4, 0, 4}

MCBudget == [array |-> 0, open |-> 2, increase |-> 2, swap |-> 2, rate |-> 0, emission |-> 0, fund |-> 0, clock |-> 0]

NoRewards == <<>>

PositionSymmetry == Permutations(PositionIds)

=============================================================================
