---------------------------- MODULE MCPoolEdges ----------------------------
(* The ends of the price range: a pool that starts without tick arrays, at  *)
(* the lowest, a middle or the highest price; one position whose ticks are  *)
(* the last usable ones; swaps that use it up; fee rates that change.       *)
EXTENDS BoundedPool

MCMin == -5

\* 64 * sqrt(2)^t.
MCSqrtPrice ==
    [t \in -5..5 |-> <<11, 16, 23, 32, 45, 64, 91, 128, 181, 256, 362>>[t + 6]]

MCRanges == {<<-4, 4>>, <<-2, 0>>}

MCArrays == {<<0, -4, -8>>, <<-8, -4, 0>>, <<-4, -8>>, <<0, 4>>, <<4, 0, -4>>, <<4>>, <<-8>>}

MCBudget == [array |-> 4, open |-> 1, increase |-> 1, swap |-> 2, rate |-> 1, emission |-> 0, fund |-> 0, clock |-> 0]

NoRewards == <<>>

=============================================================================
