----------------------------- MODULE MCRewards -----------------------------
(* Rewards: two positions, one reward, a clock that moves both ways and a   *)
(* swap that takes the price out of one range and into another.             *)
EXTENDS BoundedPool, TLC

MCMin == -5

\* 64 * sqrt(2)^t.
MCSqrtPrice ==
    [t \in -5..5 |-> <<11, 16, 23, 32, 45, 64, 91, 128, 181, 256, 362>>[t + 6]]

MCRanges == {<<-2, 2>>, <<0, 4>>}

MCArrays == {<<0, -4>>, <<-4, 0>>}

MCFirstArrays == {0, -4}

MCBudget ==
    [array |-> 0, open |-> 2, increase |-> 2, swap |-> 1, rate |-> 0, emission |-> 2, fund |-> 1, clock |-> 2]

MCRewardNames == <<"r0">>

PositionSymmetry == Permutations(PositionIds)

=============================================================================
