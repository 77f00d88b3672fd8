---------------------------- MODULE CollectAll ----------------------------
(***************************************************************************)
(* collectAllForPositionAddressesTxns: one task for the fees and one for   *)
(* each reward of each position, packed into transactions in turn.  [s] is *)
(* the chain as read, [cached] the positions the account cache knows, with *)
(* their liquidity.                                                        *)
(***************************************************************************)
EXTENDS ClientTx

CONSTANT PositionList   \* the positions, in the order given

ASSUME ListAssumption == PositionList \in Seq(Positions)

(* A task is a position and what to collect: 0 its fees, i its reward i. *)

TasksOf(p) ==
    <<<<p, 0>>>> \o [n \in DOMAIN initializedRewards(p) |-> <<p, initializedRewards(p)[n]>>]

collectionTasks(cached) ==
    FlattenSeq([n \in DOMAIN PositionList |->
        IF PositionList[n] \in DOMAIN cached THEN TasksOf(PositionList[n]) ELSE <<>>])

MintsOf(task) == IF task[2] = 0 THEN PairOf[task[1]] ELSE <<RewardsOf[task[1]][task[2]]>>

CollectIx(task, k) ==
    LET accts == AccountsOf(MintsOf(task), k)
    IN  IF task[2] = 0 THEN feesIx(task[1], accts) ELSE rewardIx(task[1], task[2], accts[1])

\* Mutant: rewards are collected as they stand.
UpdateForFees(cached, task, alreadyUpdated) == cached[task[1]] > 0 /\ ~alreadyUpdated /\ task[2] = 0

\* A position with liquidity is brought up to date once in a transaction.
NeedsUpdate(cached, task, alreadyUpdated) == cached[task[1]] > 0 /\ ~alreadyUpdated

constructCollectIxForPosition(s, cached, task, alreadyUpdated, touched, k) ==
    Merge(IF NeedsUpdate(cached, task, alreadyUpdated) THEN Single(updateFeesAndRewardsIx(task[1])) ELSE EmptyTx,
          WithAccounts(s, touched, MintsOf(task), Single(CollectIx(task, k)), k))

NoTx == [done |-> <<>>, pending |-> EmptyTx, touched |-> {}, lastUpdatedPosition |-> None,
         thrown |-> FALSE]

\* Mutant: the position counts as updated in the next transaction too.
KeepUpdated(b) == [NoTx EXCEPT !.done = Append(b.done, b.pending),
                               !.lastUpdatedPosition = b.lastUpdatedPosition]

\* The pending transaction is full: nothing is resolved or updated in the next.
StartNext(b) == [NoTx EXCEPT !.done = Append(b.done, b.pending)]

Attempt(s, cached, b, task) ==
    Merge(b.pending,
          constructCollectIxForPosition(s, cached, task, b.lastUpdatedPosition = task[1], b.touched, Len(b.done) + 1))

Added(s, cached, b, task) ==
    [b EXCEPT !.pending = Attempt(s, cached, b, task), !.touched = @ \cup ToSet(MintsOf(task)),
              !.lastUpdatedPosition = task[1]]

\* Mutant: the task that did not fit is not attempted again.
PackOnce(s, cached, b, task) ==
    IF checkMergedTransactionSizeIsValid(Attempt(s, cached, b, task)) THEN Added(s, cached, b, task) ELSE StartNext(b)

Pack(s, cached, b, task) ==
    IF b.thrown THEN b
    ELSE IF checkMergedTransactionSizeIsValid(Attempt(s, cached, b, task)) THEN Added(s, cached, b, task)
    ELSE IF checkMergedTransactionSizeIsValid(Attempt(s, cached, StartNext(b), task)) THEN Added(s, cached, StartNext(b), task)
    ELSE [b EXCEPT !.thrown = TRUE]

PackAll(s, cached, tasks) == FoldLeft(LAMBDA b, task : Pack(s, cached, b, task), NoTx, tasks)

collectAllForPositionsTxns(s, cached) ==
    LET b == PackAll(s, cached, collectionTasks(cached))
    IN  [thrown |-> b.thrown,
         txs |-> IF collectionTasks(cached) = <<>> THEN <<>> ELSE Append(b.done, b.pending)]

=============================================================================
