--------------------------- MODULE ClientLedger ---------------------------
(***************************************************************************)
(* What the transactions the SDK composes do to the chain: the positions   *)
(* of one wallet, its token accounts, and the instructions the client puts *)
(* together, executed in order and as a whole.  An instruction keeps of    *)
(* the program's handler the conditions under which it fails and the       *)
(* amounts it moves between "accrued", "owed" and "paid".                  *)
(***************************************************************************)
EXTENDS Integers, FiniteSets, SequencesExt

CONSTANTS
    Positions,        \* the wallet's positions
    Mints, Native,    \* token mints, and the one of wrapped SOL
    Token2022,        \* the mints of the Token-2022 program
    Withholding,      \* those of them that withhold a fee of one from a transfer
    PairOf,           \* the pool mints of a position: <<mint A, mint B>>
    RewardsOf,        \* the reward mints of its pool; None in a slot not initialised
    None,
    Tolerance         \* the price move that the slippage limits allow

ASSUME LedgerAssumption ==
    /\ Native \in Mints \ Token2022
    /\ Withholding \subseteq Token2022 /\ Token2022 \subseteq Mints
    /\ PairOf \in [Positions -> Mints \X Mints]
    /\ \A p \in Positions : RewardsOf[p] \in Seq(Mints \cup {None})
    /\ None \notin Mints \cup Positions
    /\ Tolerance \in Nat

\* The elements of a sequence that are in a set, in order.  (The prover has no
\* definition of SelectSeq.)
Among(s, set) ==
    FoldLeft(LAMBDA kept, x : IF x \in set THEN Append(kept, x) ELSE kept, <<>>, s)

Rewards(p) == {i \in DOMAIN RewardsOf[p] : RewardsOf[p][i] # None}

ProgramOf(mint) == IF mint \in Token2022 THEN "token-2022" ELSE "token"

\* What arrives of a transfer, with the fee the mint withholds.
Net(mint, amount) == IF mint \in Withholding /\ amount > 0 THEN amount - 1 ELSE amount

\* A token account is a mint and a number: 0 the wallet's associated token
\* account, k > 0 the temporary wrapped SOL account of the k-th transaction.
ATA(mint) == <<mint, 0>>

-----------------------------------------------------------------------------
(* Each handler: what it requires, and what it leaves.  [s] is the chain:   *)
(* liq and open by position, fee and grown[p] owed and not yet credited,    *)
(* rew and due the same for rewards, vault the reward vaults, accounts the  *)
(* token accounts that exist, paid what arrived in them, price.             *)

Credit(s, p) ==
    [s EXCEPT !.fee[p] = <<@[1] + s.grown[p][1], @[2] + s.grown[p][2]>>, !.grown[p] = <<0, 0>>,
              !.rew[p] = [i \in DOMAIN @ |-> @[i] + s.due[p][i]],
              !.due[p] = [i \in DOMAIN @ |-> 0]]

Pay(s, acct, amount) == [s EXCEPT !.paid[acct[1]] = @ + Net(acct[1], amount)]

\* The token accounts and programs an instruction names are those of the mints.
Accounts(s, ix, mints) ==
    /\ \A k \in DOMAIN mints :
          /\ ix.accts[k] \in s.accounts /\ ix.accts[k][1] = mints[k]
          /\ ix.programs[k] = ProgramOf(mints[k])

update_fees_and_rewards(s, ix) == Credit(s, ix.pos)

decrease_liquidity(s, ix) ==
    [Pay(Pay(Credit(s, ix.pos), ix.accts[1], ix.amount), ix.accts[2], ix.amount)
        EXCEPT !.liq[ix.pos] = @ - ix.amount]

increase_liquidity(s, ix) == [Credit(s, ix.pos) EXCEPT !.liq[ix.pos] = @ + ix.amount]

collect_fees(s, ix) ==
    [Pay(Pay(s, ix.accts[1], s.fee[ix.pos][1]), ix.accts[2], s.fee[ix.pos][2])
        EXCEPT !.fee[ix.pos] = <<0, 0>>]

\* The vault pays what it has; the rest stays owed.
collect_reward(s, ix) ==
    LET owed   == s.rew[ix.pos][ix.index]
        amount == IF owed > s.vault[ix.pos][ix.index] THEN s.vault[ix.pos][ix.index] ELSE owed
    IN  [Pay(s, ix.accts[1], amount)
            EXCEPT !.rew[ix.pos][ix.index] = owed - amount, !.vault[ix.pos][ix.index] = @ - amount]

is_position_empty(s, p) ==
    s.liq[p] = 0 /\ s.fee[p] = <<0, 0>> /\ \A i \in DOMAIN s.rew[p] : s.rew[p][i] = 0

may_close(s, p) == is_position_empty(s, p)

Allowed(s, ix) ==
    CASE ix.op = "create"   -> ix.acct \notin s.accounts \/ ix.idempotent
      [] ix.op = "closeAcct" -> ix.acct \in s.accounts
      [] ix.op = "open"     -> ix.pos \notin s.open
      [] ix.op = "update"   -> ix.pos \in s.open /\ s.liq[ix.pos] > 0
      [] ix.op = "increase" -> ix.pos \in s.open /\ Accounts(s, ix, PairOf[ix.pos])
                               /\ s.price - ix.price \in -Tolerance..Tolerance
      [] ix.op = "decrease" -> ix.pos \in s.open /\ Accounts(s, ix, PairOf[ix.pos])
                               /\ s.price - ix.price \in -Tolerance..Tolerance
                               /\ ix.amount \in 1..s.liq[ix.pos]
      [] ix.op = "fees"     -> ix.pos \in s.open /\ Accounts(s, ix, PairOf[ix.pos])
      [] ix.op = "reward"   -> ix.pos \in s.open /\ ix.index \in Rewards(ix.pos)
                               /\ ix.vault = RewardsOf[ix.pos][ix.index]
                               /\ Accounts(s, ix, <<RewardsOf[ix.pos][ix.index]>>)
      [] ix.op = "close"    -> ix.pos \in s.open /\ may_close(s, ix.pos)

Effect(s, ix) ==
    CASE ix.op = "create"    -> [s EXCEPT !.accounts = @ \cup {ix.acct}]
      [] ix.op = "closeAcct" -> [s EXCEPT !.accounts = @ \ {ix.acct}]
      [] ix.op = "open"      -> [s EXCEPT !.open = @ \cup {ix.pos}]
      [] ix.op = "update"    -> update_fees_and_rewards(s, ix)
      [] ix.op = "increase"  -> increase_liquidity(s, ix)
      [] ix.op = "decrease"  -> decrease_liquidity(s, ix)
      [] ix.op = "fees"      -> collect_fees(s, ix)
      [] ix.op = "reward"    -> collect_reward(s, ix)
      [] ix.op = "close"     -> [s EXCEPT !.open = @ \ {ix.pos}]

\* A transaction runs its instructions and then its clean-up, or not at all.
Failed == [ok |-> FALSE]

Step(r, ix) == IF r.ok /\ Allowed(r.chain, ix) THEN [ok |-> TRUE, chain |-> Effect(r.chain, ix)]
               ELSE Failed

Execute(s, tx) == FoldLeft(Step, [ok |-> TRUE, chain |-> s], tx.body \o tx.cleanup)

-----------------------------------------------------------------------------
(* What others do meanwhile. *)

\* A swap crosses the wallet's positions: it moves the price and pays a fee
\* in the token it takes in.
Traded(s, side, to) ==
    [s EXCEPT !.price = to,
              !.grown = [p \in Positions |->
                  IF p \in s.open /\ s.liq[p] > 0 THEN [s.grown[p] EXCEPT ![side] = @ + 1] ELSE s.grown[p]]]

\* Time passes: reward i is emitted to the positions with liquidity.
Emitted(s, i) ==
    [s EXCEPT !.due = [p \in Positions |->
        IF p \in s.open /\ s.liq[p] > 0 /\ i \in Rewards(p)
        THEN [s.due[p] EXCEPT ![i] = @ + 1] ELSE s.due[p]]]

Owed(s, p) == <<s.fee[p][1] + s.grown[p][1], s.fee[p][2] + s.grown[p][2]>>
RewardOwed(s, p, i) == s.rew[p][i] + s.due[p][i]

=============================================================================
