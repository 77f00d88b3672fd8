---------------------------- MODULE PositionTx ----------------------------
(***************************************************************************)
(* The transactions of the Position and Whirlpool objects of the client.   *)
(* [s] is the chain as read, [object] the liquidity of the positions as    *)
(* their objects last read it.                                             *)
(***************************************************************************)
EXTENDS ClientTx

\* Accounts are created, or taken to exist.
OwnerAccounts(p, resolveATA, k) ==
    IF resolveATA THEN AccountsOf(PairOf[p], k) ELSE [n \in {1, 2} |-> ATA(PairOf[p][n])]

Resolve(s, p, resolveATA, k) ==
    IF resolveATA THEN resolveOrCreateATAs(s, PairOf[p], k, FALSE) ELSE EmptyTx

IncreaseTx(s, p, resolveATA) ==
    Merge(Resolve(s, p, resolveATA, 1),
          Single(increaseIx(p, 1, s.price, OwnerAccounts(p, resolveATA, 1))))

DecreaseTx(s, p, amount, resolveATA) ==
    Merge(Resolve(s, p, resolveATA, 1),
          Single(decreaseIx(p, amount, s.price, OwnerAccounts(p, resolveATA, 1))))

OpenTx(s, p) == Merge(Single(openPositionIx(p)), IncreaseTx(s, p, TRUE))

\* Mutant: a position is brought up to date in any case.
UpdateAlways(object, p) == Single(updateFeesAndRewardsIx(p))

\* A position without liquidity is not brought up to date: the program would refuse.
UpdateTx(object, p) == IF object[p] > 0 THEN Single(updateFeesAndRewardsIx(p)) ELSE EmptyTx

\* A map of token accounts replaces those that are resolved: it must have both mints.
CollectFeesThrows(p, map) == map # None /\ ~(ToSet(PairOf[p]) \subseteq map)

\* The accounts of the pool's mints come first, then one of wrapped SOL.
CollectFeesTx(s, object, p, map) ==
    LET pool  == Among(PairOf[p], Mints \ {Native})
        sol   == Among(PairOf[p], {Native})
        accts == IF map = None THEN AccountsOf(PairOf[p], 1) ELSE [n \in {1, 2} |-> ATA(PairOf[p][n])]
    IN  MergeAll(<<IF map = None THEN resolveOrCreateATAs(s, pool \o sol, 1, FALSE) ELSE EmptyTx,
                   UpdateTx(object, p), Single(feesIx(p, accts))>>)

\* The loop over the pool's rewards ends at the first that is not asked for.
Leading(p, asked) ==
    LET unasked == {n \in DOMAIN initializedRewards(p) : RewardsOf[p][initializedRewards(p)[n]] \notin asked}
    IN  SubSeq(initializedRewards(p), 1, IF unasked = {} THEN Len(initializedRewards(p)) ELSE Min(unasked) - 1)

\* Accounts passed by the caller exist, so that nothing is created for them.
Holding(s, map) == IF map = None THEN s ELSE [s EXCEPT !.accounts = @ \cup {ATA(m) : m \in map}]

AddAsked(f, s, p, i) ==
    addInstructions(f, s, <<RewardsOf[p][i]>>,
        [k \in Nat |-> Single(rewardIx(p, i, AccountOf(RewardsOf[p][i], k)))])

AddAllAsked(f, s, p, rewards) == FoldLeft(LAMBDA g, i : AddAsked(g, s, p, i), f, rewards)

CollectRewardsFactory(s, object, p, asked, map) ==
    LET start  == NewFactory(IF map = None THEN getTokenMints(p, "reward") ELSE map)
        update == IF object[p] > 0
                  THEN addInstructions(start, s, <<>>, [k \in Nat |-> UpdateTx(object, p)]) ELSE start
    IN  AddAllAsked(update, Holding(s, map), p, Leading(p, asked))

=============================================================================
