----------------------------- MODULE ClientTx -----------------------------
(***************************************************************************)
(* How the SDK puts transactions together: the instruction builders, the   *)
(* resolution of token accounts, and the factory that packs instructions   *)
(* into as few transactions as their size allows (utils/txn-utils.ts).     *)
(***************************************************************************)
EXTENDS ClientLedger

CONSTANT TxSize   \* the instructions a transaction has room for

ASSUME TxSizeAssumption == TxSize \in Nat

\* A builder's content: instructions, and clean-up that runs after them in
\* reverse order.
EmptyTx == [body |-> <<>>, cleanup |-> <<>>]
Single(ix) == [body |-> <<ix>>, cleanup |-> <<>>]
Merge(t, u) == [body |-> t.body \o u.body, cleanup |-> u.cleanup \o t.cleanup]
MergeAll(txs) == FoldLeft(Merge, EmptyTx, txs)

checkMergedTransactionSizeIsValid(tx) == Len(tx.body) + Len(tx.cleanup) <= TxSize

-----------------------------------------------------------------------------
(* Instruction builders.  The version 1 instructions name the token program *)
(* themselves; version 2 is given the program of each mint.                 *)

TokenPrograms(mints) == [k \in DOMAIN mints |-> "token"]
MintPrograms(mints) == [k \in DOMAIN mints |-> ProgramOf(mints[k])]

updateFeesAndRewardsIx(p) == [op |-> "update", pos |-> p]

decreaseLiquidityIx(p, amount, price, accts) ==
    [op |-> "decrease", pos |-> p, amount |-> amount, price |-> price, accts |-> accts,
     programs |-> TokenPrograms(PairOf[p])]
decreaseLiquidityV2Ix(p, amount, price, accts) ==
    [decreaseLiquidityIx(p, amount, price, accts) EXCEPT !.programs = MintPrograms(PairOf[p])]

increaseLiquidityIx(p, amount, price, accts) ==
    [op |-> "increase", pos |-> p, amount |-> amount, price |-> price, accts |-> accts,
     programs |-> TokenPrograms(PairOf[p])]
increaseLiquidityV2Ix(p, amount, price, accts) ==
    [increaseLiquidityIx(p, amount, price, accts) EXCEPT !.programs = MintPrograms(PairOf[p])]

collectFeesIx(p, accts) ==
    [op |-> "fees", pos |-> p, accts |-> accts, programs |-> TokenPrograms(PairOf[p])]
collectFeesV2Ix(p, accts) == [collectFeesIx(p, accts) EXCEPT !.programs = MintPrograms(PairOf[p])]

collectRewardIx(p, index, vault, acct) ==
    [op |-> "reward", pos |-> p, index |-> index, vault |-> vault, accts |-> <<acct>>,
     programs |-> TokenPrograms(<<vault>>)]
collectRewardV2Ix(p, index, vault, acct) ==
    [collectRewardIx(p, index, vault, acct) EXCEPT !.programs = MintPrograms(<<vault>>)]

closePositionIx(p) == [op |-> "close", pos |-> p]

openPositionIx(p) == [op |-> "open", pos |-> p]

\* Version 2 is taken when one of the mints is a Token-2022 mint.
isV2IxRequiredPool(p) == \E k \in DOMAIN PairOf[p] : PairOf[p][k] \in Token2022
isV2IxRequiredReward(p, index) == RewardsOf[p][index] \in Token2022

decreaseIx(p, amount, price, accts) ==
    IF isV2IxRequiredPool(p) THEN decreaseLiquidityV2Ix(p, amount, price, accts)
    ELSE decreaseLiquidityIx(p, amount, price, accts)

increaseIx(p, amount, price, accts) ==
    IF isV2IxRequiredPool(p) THEN increaseLiquidityV2Ix(p, amount, price, accts)
    ELSE increaseLiquidityIx(p, amount, price, accts)

feesIx(p, accts) == IF isV2IxRequiredPool(p) THEN collectFeesV2Ix(p, accts) ELSE collectFeesIx(p, accts)

rewardIx(p, index, acct) ==
    IF isV2IxRequiredReward(p, index)
    THEN collectRewardV2Ix(p, index, RewardsOf[p][index], acct)
    ELSE collectRewardIx(p, index, RewardsOf[p][index], acct)

-----------------------------------------------------------------------------
(* Token accounts.  [s] is the chain as it was read; k numbers the          *)
(* transaction, for the wrapped SOL account that it opens and closes.       *)

AccountOf(mint, k) == IF mint = Native THEN <<Native, k>> ELSE ATA(mint)
AccountsOf(mints, k) == [n \in DOMAIN mints |-> AccountOf(mints[n], k)]

\* Mutant: the account is left open.
WrappedLeftOpen(k) ==
    [body |-> <<[op |-> "create", acct |-> <<Native, k>>, idempotent |-> FALSE]>>, cleanup |-> <<>>]

createWrappedNativeAccountInstruction(k) ==
    [body |-> <<[op |-> "create", acct |-> <<Native, k>>, idempotent |-> FALSE]>>,
     cleanup |-> <<[op |-> "closeAcct", acct |-> <<Native, k>>]>>]

resolveOrCreateATA(s, mint, k, idempotent) ==
    IF mint = Native THEN createWrappedNativeAccountInstruction(k)
    ELSE IF ATA(mint) \in s.accounts THEN EmptyTx
    ELSE Single([op |-> "create", acct |-> ATA(mint), idempotent |-> idempotent])

resolveOrCreateATAs(s, mints, k, idempotent) ==
    MergeAll([n \in DOMAIN mints |-> resolveOrCreateATA(s, mints[n], k, idempotent)])

\* The mints of a pool and its rewards that the client resolves; those of
\* the pair leave out wrapped SOL, which every transaction handles itself.
getTokenMints(p, types) ==
    (IF types \in {"all", "pool"} THEN {PairOf[p][k] : k \in DOMAIN PairOf[p]} \ {Native} ELSE {})
    \cup (IF types \in {"all", "reward"} THEN {RewardsOf[p][i] : i \in Rewards(p)} ELSE {})

initializedRewards(p) == Among([i \in DOMAIN RewardsOf[p] |-> i], Rewards(p))

-----------------------------------------------------------------------------
(* MultipleTransactionBuilderFactoryWithAccountResolver: complete           *)
(* transactions, the pending one, the mints it has resolved, the mints it   *)
(* knows, and whether an exception was thrown.                              *)

NewFactory(known) ==
    [done |-> <<>>, pending |-> EmptyTx, touched |-> {}, known |-> known \cup {Native}, thrown |-> FALSE]

\* Mutant: the accounts are created strictly.
WithNewAccounts(s, touched, mints, ixs, k) ==
    Merge(resolveOrCreateATAs(s, Among(mints, ToSet(mints) \ touched), k, FALSE), ixs)

\* The instructions of one call, after those that create the accounts which
\* the transaction has not resolved yet.
WithAccounts(s, touched, mints, ixs, k) ==
    Merge(resolveOrCreateATAs(s, Among(mints, ToSet(mints) \ touched), k, TRUE), ixs)

\* ixs[k] are the instructions as part of transaction k.  When they do not fit
\* into the pending transaction, they start the next one; when they do not fit
\* there, they never will.
addInstructions(f, s, mints, ixs) ==
    LET k    == Len(f.done) + 1
        here == Merge(f.pending, WithAccounts(s, f.touched, mints, ixs[k], k))
        next == WithAccounts(s, {}, mints, ixs[k + 1], k + 1)
    IN  IF f.thrown \/ ~(ToSet(mints) \subseteq f.known) THEN [f EXCEPT !.thrown = TRUE]
        ELSE IF checkMergedTransactionSizeIsValid(here)
        THEN [f EXCEPT !.pending = here, !.touched = @ \cup ToSet(mints)]
        ELSE IF checkMergedTransactionSizeIsValid(next)
        THEN [f EXCEPT !.done = Append(@, f.pending), !.pending = next,
                       !.touched = ToSet(mints)]
        ELSE [f EXCEPT !.thrown = TRUE]

build(f) == IF f.pending = EmptyTx THEN f.done ELSE Append(f.done, f.pending)

=============================================================================
