------------------------------ MODULE Wallet ------------------------------
(***************************************************************************)
(* A wallet that uses the client: its calls read the chain (or the cache), *)
(* build transactions and return them; the wallet submits the transactions *)
(* of one call one after the other, those of several calls in any order,   *)
(* while swaps, emissions and other applications of the wallet go on.      *)
(***************************************************************************)
EXTENDS ClosePosition, CollectAll, PositionTx

CONSTANTS
    Starts,        \* chains to start from
    Prices,        \* the prices swaps can reach
    AccountMaps,   \* mints for which a caller passes token accounts of its own
    MaxRequests,   \* bound: calls
    MaxEvents      \* bound: calls, and what others do or the wallet does elsewhere

VARIABLES
    chain,     \* the chain
    cached,    \* the positions the client has read, with their liquidity then
    requests,  \* the calls: what was asked, the chain and the cache then, how it went
    queues,    \* by call, the transactions that remain to be submitted
    events     \* how much was asked, and happened meanwhile

vars == <<chain, cached, requests, queues, events>>

\* A chain as the program keeps it.
Chain(s) ==
    /\ DOMAIN s = {"liq", "fee", "grown", "rew", "due", "vault", "accounts", "open", "paid", "price"}
    /\ s.open \subseteq Positions
    /\ s.liq \in [Positions -> Nat]
    /\ s.fee \in [Positions -> Nat \X Nat] /\ s.grown \in [Positions -> Nat \X Nat]
    /\ DOMAIN s.rew = Positions /\ DOMAIN s.due = Positions /\ DOMAIN s.vault = Positions
    /\ \A p \in Positions :
          \A rewards \in {s.rew[p], s.due[p], s.vault[p]} : rewards \in [DOMAIN RewardsOf[p] -> Nat]

\* Without liquidity, everything that accrued is credited; a position that is
\* not open has nothing.
Settled(s) ==
    \A p \in Positions :
        /\ s.liq[p] = 0 => s.grown[p] = <<0, 0>> /\ \A i \in DOMAIN s.due[p] : s.due[p][i] = 0
        /\ p \notin s.open => is_position_empty(s, p)

ASSUME StartsAssumption ==
    \A s \in Starts : Chain(s) /\ Settled(s) /\ \A a \in s.accounts : a[2] = 0

Init ==
    /\ chain \in Starts /\ cached = Restrict(chain.liq, chain.open)
    /\ requests = <<>> /\ queues = <<>> /\ events = 0

-----------------------------------------------------------------------------
(* Calls.  Each returns its transactions, or throws. *)

Request(kind, p) ==
    [kind |-> kind, pos |-> p, resolved |-> TRUE, threw |-> FALSE, failed |-> FALSE,
     read |-> chain, knew |-> cached]

Return(request, threw, transactions) ==
    /\ Len(requests) < MaxRequests /\ events < MaxEvents
    /\ requests' = Append(requests, [request EXCEPT !.threw = threw])
    /\ queues' = Append(queues, IF threw THEN <<>> ELSE transactions)
    /\ events' = events + 1
    /\ UNCHANGED <<chain, cached>>

openPosition(p) == p \notin chain.open /\ Return(Request("open", p), FALSE, <<OpenTx(chain, p)>>)

increaseLiquidity(p, resolveATA) ==
    /\ p \in chain.open
    /\ Return([Request("increase", p) EXCEPT !.resolved = resolveATA], FALSE,
              <<IncreaseTx(chain, p, resolveATA)>>)

decreaseLiquidity(p, resolveATA) ==
    /\ p \in chain.open /\ chain.liq[p] > 0
    /\ Return([Request("decrease", p) EXCEPT !.resolved = resolveATA], FALSE,
              <<DecreaseTx(chain, p, 1, resolveATA)>>)

collectFees(p, map) ==
    /\ p \in DOMAIN cached
    /\ Return([Request("fees", p) EXCEPT !.resolved = map = None],
              CollectFeesThrows(p, map), <<CollectFeesTx(chain, cached, p, map)>>)

collectRewards(p, asked, map) ==
    /\ p \in DOMAIN cached
    /\ \E f \in {CollectRewardsFactory(chain, cached, p, asked, map)} :
          Return([Request("rewards", p) EXCEPT !.resolved = map = None], f.thrown, build(f))

closePosition(p) ==
    /\ p \in chain.open
    /\ \E f \in {getClosePositionIx(chain, p)} : Return(Request("close", p), f.thrown, build(f))

collectAll ==
    \E all \in {collectAllForPositionsTxns(chain, cached)} :
        Return(Request("all", None), all.thrown, all.txs)

refreshData(p) ==
    /\ p \in chain.open
    /\ cached' = [q \in DOMAIN cached \cup {p} |-> IF q = p THEN chain.liq[p] ELSE cached[q]]
    /\ cached' # cached
    /\ UNCHANGED <<chain, requests, queues, events>>

-----------------------------------------------------------------------------
(* Transactions.  Those that collect everything do not depend on each other: *)
(* they go in any order, and one that fails or expires is just left out.     *)

Unordered(r) == requests[r].kind = "all"

Submittable(r) == {n \in DOMAIN queues[r] : Unordered(r) \/ n = 1}

GivenUp(r, n) == [queues EXCEPT ![r] = IF Unordered(r) THEN RemoveAt(@, n) ELSE <<>>]

Submit(r, n) ==
    /\ n \in Submittable(r)
    /\ \E res \in {Execute(chain, queues[r][n])} :
          IF res.ok
          THEN /\ chain' = res.chain
               /\ queues' = [queues EXCEPT ![r] = RemoveAt(@, n)]
               /\ UNCHANGED requests
          ELSE /\ queues' = GivenUp(r, n)
               /\ requests' = [requests EXCEPT ![r].failed = TRUE]
               /\ UNCHANGED chain
    /\ UNCHANGED <<cached, events>>

Lose(r, n) ==
    /\ n \in Submittable(r)
    /\ queues' = GivenUp(r, n)
    /\ UNCHANGED <<chain, cached, requests, events>>

-----------------------------------------------------------------------------
(* Meanwhile. *)

Others(next) ==
    /\ events < MaxEvents /\ next # chain
    /\ chain' = next /\ events' = events + 1
    /\ UNCHANGED <<cached, requests, queues>>

Trade == \E side \in {1, 2}, to \in Prices : Others(Traded(chain, side, to))
Emission == \E i \in UNION {Rewards(p) : p \in Positions} : Others(Emitted(chain, i))

\* The wallet withdraws elsewhere, or opens a token account there.
Withdraw(p) == chain.liq[p] > 0 /\ Others([Credit(chain, p) EXCEPT !.liq[p] = 0])
OpenAccount(mint) == mint # Native /\ Others([chain EXCEPT !.accounts = @ \cup {ATA(mint)}])

Next ==
    \/ \E p \in Positions : openPosition(p) \/ closePosition(p) \/ refreshData(p)
    \/ \E p \in Positions, resolveATA \in BOOLEAN :
          increaseLiquidity(p, resolveATA) \/ decreaseLiquidity(p, resolveATA)
    \/ \E p \in Positions, map \in AccountMaps :
          \/ collectFees(p, map)
          \/ \E asked \in SUBSET {RewardsOf[p][i] : i \in Rewards(p)} : collectRewards(p, asked, map)
    \/ collectAll
    \/ \E r \in DOMAIN queues : \E n \in DOMAIN queues[r] : Submit(r, n) \/ Lose(r, n)
    \/ Trade \/ Emission
    \/ \E p \in Positions : Withdraw(p)
    \/ \E mint \in Mints : OpenAccount(mint)

Spec == Init /\ [][Next]_vars

-----------------------------------------------------------------------------
(* Why a transaction may be refused. *)

Ixs(r, n) == ToSet(queues[r][n].body)
Has(r, n, op) == \E ix \in Ixs(r, n) : ix.op = op

\* A reward that owes nothing comes before one that owes something.
SkipsReward(s, p) ==
    \E n \in DOMAIN rewardsToCollect(s, p) :
        RewardsOf[p][n] # RewardsOf[p][rewardsToCollect(s, p)[n]]

\* Fees are owed, and the mint withholds every token of them.
AllFeesWithheld(s, p) == Owed(s, p) # <<0, 0>> /\ ~shouldCollectFees(s, p)

\* A reward vault cannot pay all that is owed.
VaultShort(s, p) == \E i \in Rewards(p) : RewardOwed(s, p, i) > s.vault[p][i]

\* Fees or a reward are owed now, of which nothing was owed when it was read,
\* so that they are not collected.
NewlyOwed(s, p) ==
    \/ ~shouldCollectFees(s, p) /\ Owed(chain, p) # <<0, 0>>
    \/ \E i \in Rewards(p) : RewardOwed(s, p, i) = 0 /\ RewardOwed(chain, p, i) > 0

\* A close finds the position as it was read, or refuses.
CloseExplained(r, n) ==
    LET s == requests[r].read
        p == requests[r].pos
    IN  \/ p \notin chain.open
        \/ SkipsReward(s, p) \/ AllFeesWithheld(s, p) \/ VaultShort(chain, p) \/ NewlyOwed(s, p)
        \/ Has(r, n, "close") /\ ~Has(r, n, "decrease") /\ chain.liq[p] > 0
        \/ Has(r, n, "decrease") /\ chain.liq[p] > s.liq[p]

PriceMoved(ix) == chain.price - ix.price \notin -Tolerance..Tolerance

\* What others, or another call of the wallet, did after a transaction was built.
Overtaken(r, ix) ==
    \/ ix.op = "update" /\ (chain.liq[ix.pos] = 0 \/ ix.pos \notin chain.open)
    \/ ix.op = "decrease" /\ ix.amount > chain.liq[ix.pos]
    \/ ix.op \in {"increase", "decrease"} /\ PriceMoved(ix)
    \/ ix.op = "open" /\ ix.pos \in chain.open
    \/ ix.op \in {"increase", "decrease", "fees", "reward"} /\ ix.pos \notin chain.open
    \/ ix.op = "create" /\ ~ix.idempotent /\ ix.acct \in chain.accounts

\* Told not to create the accounts, or given others, they do not exist.
AccountsMissing(r, ix) ==
    /\ ~requests[r].resolved /\ ix.op \in {"increase", "decrease", "fees", "reward"}
    /\ \E a \in ToSet(ix.accts) : a \notin chain.accounts

\* A transaction that the client built is refused only for what others, or
\* another call of the same wallet, did to the position, the price or the
\* accounts after it was built, because the caller said that it need not create
\* the accounts or gave accounts of its own, or for one of the reasons that keep a position from being
\* closed.  Collecting rewards, collecting everything and closing create the accounts
\* idempotently, so that they are never refused for an account; and the version
\* of an instruction, the order of transactions that do not depend on each
\* other, and one of them that is lost never matter (position-impl.ts,
\* whirlpool-impl.ts, txn-utils.ts, collect-all-txn.ts).
RefusedOnlyFor ==
    \A r \in DOMAIN queues : \A n \in Submittable(r) :
        ~Execute(chain, queues[r][n]).ok =>
            \/ \E ix \in Ixs(r, n) : AccountsMissing(r, ix)
            \/ \E ix \in Ixs(r, n) :
                  /\ Overtaken(r, ix)
                  /\ requests[r].kind \in {"rewards", "all", "close"} => ix.op # "create"
            \/ requests[r].kind = "close" /\ CloseExplained(r, n)

\* The transactions of a call that was the only one, with an object that is up
\* to date while nothing else happened, are not refused, unless its caller
\* told it not to create the accounts or gave accounts of its own.
AloneNotRefused ==
    Len(requests) = 1 /\ events = 1 /\ requests[1].failed =>
        ~requests[1].resolved \/ requests[1].kind = "close"

\* A closed position leaves nothing behind: no liquidity, nothing owed, and
\* nothing accrued that the program had not yet credited when it looked; and no
\* transaction leaves its temporary wrapped SOL account, with what was paid into
\* it, whether the pool's pair or a reward is paid in SOL (close_position.rs,
\* whirlpool-impl.ts, txn-utils.ts).
NothingLeftBehind ==
    /\ \A p \in Positions \ chain.open :
          /\ chain.liq[p] = 0 /\ Owed(chain, p) = <<0, 0>>
          /\ \A i \in DOMAIN chain.rew[p] : RewardOwed(chain, p, i) = 0
    /\ \A a \in chain.accounts : a[2] = 0

\* The tasks that a sequence of instructions does.
Collections(ixs) == Among(ixs, {ix \in ToSet(ixs) : ix.op \in {"fees", "reward"}})
TaskOf(ix) == <<ix.pos, IF ix.op = "fees" THEN 0 ELSE ix.index>>
TasksIn(ixs) == [n \in DOMAIN Collections(ixs) |-> TaskOf(Collections(ixs)[n])]

Bodies(txs) == FlattenSeq([n \in DOMAIN txs |-> txs[n].body])

\* Every collection task is in one transaction, once, and in the order of the
\* tasks (collect-all-txn.ts, the loop over collectionTasks).
EveryTaskOnce ==
    [][\A r \in DOMAIN requests' \ DOMAIN requests :
          requests'[r].kind = "all" /\ ~requests'[r].threw =>
              collectionTasks(cached) = TasksIn(Bodies(queues'[r]))]_vars

\* What a transaction of collectAll collects, it collects up to the moment it
\* executes: no fee or reward of the position stays behind, credited or not, but for
\* a position whose liquidity the cache did not know of, or a vault run dry.
CollectsToDate ==
    [][\A r \in DOMAIN queues : requests[r].kind = "all" /\ queues'[r] # queues[r] /\ chain' # chain =>
          \E n \in DOMAIN queues[r] :
              /\ queues'[r] = RemoveAt(queues[r], n)
              /\ \A ix \in Ixs(r, n) :
                    ix.op \in {"fees", "reward"} /\ requests[r].knew[ix.pos] = chain.liq[ix.pos]
                        /\ ~VaultShort(chain, ix.pos) =>
                      /\ ix.op = "fees" => Owed(chain', ix.pos) = <<0, 0>>
                      /\ ix.op = "reward" => RewardOwed(chain', ix.pos, ix.index) = 0]_vars

\* What the doc says of the transactions that closePosition returns: they will
\* close the position.  (While nothing else happens, and the vaults can pay.)
CloseWillClose ==
    Len(requests) = 1 /\ events = 1 /\ requests[1].kind = "close" /\ requests[1].failed =>
        VaultShort(chain, requests[1].pos)

=============================================================================
