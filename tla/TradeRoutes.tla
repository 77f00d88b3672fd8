----------------------------- MODULE TradeRoutes -----------------------------
(***************************************************************************)
(* A trade through the router: routes are found on the pools as they are   *)
(* read, one is selected, its transaction is built and executed, while     *)
(* others trade in the pools and the trader's token accounts come and go.  *)
(* [chain] is pools, vault (token balances of their vaults), accounts (the *)
(* trader's token accounts, None when closed), sol, and wrapped (the       *)
(* temporary wrapped SOL account of a transaction).                        *)
(***************************************************************************)
EXTENDS RouteTx

CONSTANTS
    Tokens,         \* the mints, as numbers
    PoolList,       \* the pools the router knows, in the order they are listed
    Chains,         \* initial states of the chain
    Trades,         \* trades that are asked for
    Options,        \* routing options
    Slippages,      \* slippage tolerances
    TxSize,         \* the instructions a transaction has room for
    OtherAmounts,   \* amounts that others trade
    MaxEvents       \* bound on what happens between two steps of the trader

ASSUME TradeAssumption ==
    /\ Native \in Tokens /\ Tokens \subseteq Nat
    /\ OtherAmounts \subseteq Nat \ {0} /\ TxSize \in Nat /\ MaxEvents \in Nat

VARIABLES
    chain,
    ask,        \* the trade, its options and its tolerance, or None
    found,      \* what findAllRoutes returned, with the chain it read and the route taken
    tx,         \* the transaction, or None
    phase,      \* "idle", "found", "built", "done" or "refused"
    outcome,    \* the chain before the transaction, its error, and whether a pool filled it in part
    events

vars == <<chain, ask, found, tx, phase, outcome, events>>

Graph == buildPoolGraph(Tokens, PoolList)

-----------------------------------------------------------------------------
(* Execution.  [r] is the chain so far, the error, and whether some swap    *)
(* was filled in part.                                                      *)

Running(s) == [s |-> s, error |-> None, partial |-> FALSE]
Fail(r, reason) == [r EXCEPT !.error = reason]

Balance(s, mint) == IF mint = Native THEN s.wrapped ELSE s.accounts[mint]

Credit(s, mint, amount) ==
    IF mint = Native THEN [s EXCEPT !.wrapped = @ + amount] ELSE [s EXCEPT !.accounts[mint] = @ + amount]

\* A token transfer between the trader and a vault.
ToVault(r, p, mint, amount) ==
    IF r.error # None THEN r
    ELSE IF Balance(r.s, mint) = None THEN Fail(r, "account")
    ELSE IF Balance(r.s, mint) < amount THEN Fail(r, "funds")
    ELSE [r EXCEPT !.s = [Credit(r.s, mint, -amount) EXCEPT !.vault[p][mint] = @ + amount]]

FromVault(r, p, mint, amount) ==
    IF r.error # None THEN r
    ELSE IF Balance(r.s, mint) = None THEN Fail(r, "account")
    ELSE IF r.s.vault[p][mint] < amount THEN Fail(r, "vault")
    ELSE [r EXCEPT !.s = [Credit(r.s, mint, amount) EXCEPT !.vault[p][mint] = @ - amount]]

VaultToVault(r, p, q, mint, amount) ==
    IF r.error # None THEN r
    ELSE IF r.s.vault[p][mint] < amount THEN Fail(r, "vault")
    ELSE [r EXCEPT !.s.vault[p][mint] = @ - amount, !.s.vault[q][mint] = @ + amount]

AfterSwap(r, hop, calc) ==
    [r EXCEPT !.s.pools[hop.whirlpool] = Swapped(@, hop.inputMint, hop.outputMint, calc),
              !.partial = @ \/ calc.partial]

SwapOf(s, hop, amount, isInput) == Swap(s.pools[hop.whirlpool], hop.inputMint, hop.outputMint, amount, isInput)

LimitMissed(ix, in, out) == IF ix.isInput THEN ix.threshold > out ELSE ix.threshold < in

update_and_swap_whirlpool(r, hop, calc) ==
    FromVault(ToVault(AfterSwap(r, hop, calc), hop.whirlpool, hop.inputMint, calc.in),
              hop.whirlpool, hop.outputMint, calc.out)

swap(r, ix) ==
    LET calc == SwapOf(r.s, ix.hop, ix.amount, ix.isInput)
    IN  IF calc.error # None THEN Fail(r, calc.error)
        ELSE IF LimitMissed(ix, calc.in, calc.out) THEN Fail(r, "threshold")
        ELSE update_and_swap_whirlpool(r, ix.hop, calc)

\* The two calculations: an exact input forwards, an exact output backwards.
TwoHopCalculations(s, ix) ==
    IF ix.isInput
    THEN LET one == SwapOf(s, ix.one, ix.amount, TRUE)
         IN  IF one.error # None THEN <<one, one>>
             ELSE <<one, SwapOf(s, ix.two, one.out, TRUE)>>
    ELSE LET two == SwapOf(s, ix.two, ix.amount, FALSE)
         IN  IF two.error # None THEN <<two, two>>
             ELSE <<SwapOf(s, ix.one, two.in, FALSE), two>>

\* The second swap is settled after the first, out of the trader's account.
update_both(r, ix, one, two) ==
    update_and_swap_whirlpool(update_and_swap_whirlpool(r, ix.one, one), ix.two, two)

\* Version 2 moves what the first swap pays out from vault to vault.
update_and_two_hop_swap_whirlpool_v2(r, ix, one, two) ==
    LET after == AfterSwap(AfterSwap(r, ix.one, one), ix.two, two)
    IN  FromVault(
            VaultToVault(ToVault(after, ix.one.whirlpool, ix.one.inputMint, one.in),
                         ix.one.whirlpool, ix.two.whirlpool, ix.one.outputMint, one.out),
            ix.two.whirlpool, ix.two.outputMint, two.out)

\* Mutant: version 2 does not compare what the first swap pays with what the second takes.
NeverMismatch(ix, one, two) == FALSE

Mismatch(ix, one, two) == ix.op = "twoHopV2" /\ one.out # two.in

two_hop_swap(r, ix) ==
    LET calcs == TwoHopCalculations(r.s, ix)
        one   == calcs[1]
        two   == calcs[2]
        seen  == [r EXCEPT !.partial = @ \/ one.partial \/ two.partial]
    IN  IF ix.one.whirlpool = ix.two.whirlpool THEN Fail(r, "DuplicateTwoHopPool")
        ELSE IF ix.one.outputMint # ix.two.inputMint THEN Fail(r, "InvalidIntermediaryMint")
        ELSE IF one.error # None THEN Fail(r, one.error)
        ELSE IF two.error # None THEN Fail(r, two.error)
        ELSE IF Mismatch(ix, one, two) THEN Fail(seen, "mismatch")
        ELSE IF LimitMissed(ix, one.in, two.out) THEN Fail(seen, "threshold")
        ELSE IF ix.op = "twoHop" THEN update_both(r, ix, one, two)
        ELSE update_and_two_hop_swap_whirlpool_v2(r, ix, one, two)

\* The token programs.
Wrap(r, ix) ==
    IF r.s.sol < ix.amount THEN Fail(r, "sol")
    ELSE [r EXCEPT !.s.sol = @ - ix.amount, !.s.wrapped = ix.amount]

Unwrap(r) == [r EXCEPT !.s.sol = @ + r.s.wrapped, !.s.wrapped = None]

Create(r, ix) ==
    IF r.s.accounts[ix.mint] = None THEN [r EXCEPT !.s.accounts[ix.mint] = 0]
    ELSE IF ix.op = "create" THEN Fail(r, "exists")
    ELSE r

Close(r, ix) ==
    IF r.s.accounts[ix.mint] # 0 THEN Fail(r, "leftover") ELSE [r EXCEPT !.s.accounts[ix.mint] = None]

Step(r, ix) ==
    IF r.error # None THEN r
    ELSE CASE ix.op = "wrap" -> Wrap(r, ix)
           [] ix.op = "unwrap" -> Unwrap(r)
           [] ix.op \in {"create", "createIdempotent"} -> Create(r, ix)
           [] ix.op = "closeAcct" -> Close(r, ix)
           [] ix.op = "swap" -> swap(r, ix)
           [] ix.op \in {"twoHop", "twoHopV2"} -> two_hop_swap(r, ix)

Execute(s, t) == FoldLeft(Step, Running(s), t.body \o t.cleanup)

-----------------------------------------------------------------------------
(* The trader. *)

Size(t) == Len(t.body) + Len(t.cleanup)

\* The first route whose transaction has room, measured without a tolerance.
selectFirstExecutableRoute(routes, isInput, accounts) ==
    LET none == [numerator |-> 0, denominator |-> 100]
    IN  SelectSeq(routes, LAMBDA r : Size(getSwapFromRoute(r, none, isInput, accounts)) <= TxSize)

FindRoute ==
    /\ phase = "idle"
    /\ \E trade \in Trades, opts \in Options, slippage \in Slippages :
          \E paths \in {getPath(Graph, trade.tokenIn, trade.tokenOut, Tokens)} :
             \E all \in {findAllRoutes(chain.pools, paths, trade, opts)} :
                \E fitting \in {selectFirstExecutableRoute(all.routes, trade.isInput, chain.accounts)} :
                   /\ ask' = [trade |-> trade, opts |-> opts, slippage |-> slippage]
                   /\ found' = [chain |-> chain, all |-> all,
                                route |-> IF fitting = <<>> THEN None ELSE Head(fitting)]
                   /\ phase' = IF fitting = <<>> THEN "refused" ELSE "found"
    /\ UNCHANGED <<chain, tx, outcome, events>>

\* The caller takes another route of the list.
ChooseRoute ==
    /\ phase = "found"
    /\ chain = found.chain
    /\ \E route \in ToSet(found.all.routes) \ {found.route} : found' = [found EXCEPT !.route = route]
    /\ UNCHANGED <<chain, ask, tx, phase, outcome, events>>

\* The other routes of the list are not needed any more.
RouteTaken == found' = [chain |-> found.chain, route |-> found.route]

\* The router's transaction, with the accounts as they are now or as the
\* caller listed them with the quote.
BuildRoute ==
    /\ phase = "found"
    /\ \E accounts \in {chain.accounts, found.chain.accounts} :
          tx' = getSwapFromRoute(found.route, ask.slippage, ask.trade.isInput, accounts)
    /\ phase' = "built"
    /\ RouteTaken
    /\ UNCHANGED <<chain, ask, outcome, events>>

\* Whirlpool.swap with the quote of a single pool.
BuildSwapAsync ==
    /\ phase = "found"
    /\ Len(found.route.quotes) = 1 /\ Len(found.route.quotes[1].hops) = 1
    /\ tx' = swapAsync(found.route.quotes[1].hops[1], ask.slippage, ask.trade.isInput, chain.accounts)
    /\ phase' = "built"
    /\ RouteTaken
    /\ UNCHANGED <<chain, ask, outcome, events>>

\* A caller that sends the version 2 instruction itself, for mints it has accounts of.
BuildTwoHopV2 ==
    /\ phase = "found"
    /\ Len(found.route.quotes) = 1 /\ Len(found.route.quotes[1].hops) = 2
    /\ ask.trade.tokenIn # Native /\ ask.trade.tokenOut # Native
    /\ LET quote == found.route.quotes[1]
       IN  tx' = [body |-> <<twoHopSwapV2Ix(quote, adjustQuoteForSlippage(quote, ask.slippage, ask.trade.isInput),
                                            ask.trade.isInput)>>,
                  cleanup |-> <<>>]
    /\ phase' = "built"
    /\ RouteTaken
    /\ UNCHANGED <<chain, ask, outcome, events>>

Submit ==
    /\ phase = "built"
    /\ \E r \in {Execute(chain, tx)} :
          /\ chain' = IF r.error = None THEN r.s ELSE chain
          /\ outcome' = [before |-> chain, error |-> r.error, partial |-> r.partial]
    /\ phase' = "done"
    /\ UNCHANGED <<ask, found, tx, events>>

-----------------------------------------------------------------------------
(* Others, and the trader elsewhere, while the trader waits. *)

Waiting ==
    /\ phase \in {"found", "built"}
    /\ events < MaxEvents
    /\ events' = events + 1
    /\ UNCHANGED <<ask, found, tx, phase, outcome>>

OthersTrade ==
    /\ Waiting
    /\ \E p \in DOMAIN chain.pools, amount \in OtherAmounts :
          \E in \in DOMAIN chain.pools[p].reserve :
             \E out \in {OtherMint(chain.pools[p], in)} :
                \E r \in {Swap(chain.pools[p], in, out, amount, TRUE)} :
                   /\ r.error = None
                   /\ chain' = [chain EXCEPT !.pools[p] = Swapped(@, in, out, r),
                                             !.vault[p] = [@ EXCEPT ![in] = @ + r.in, ![out] = @ - r.out]]

\* The trader's account of a mint is opened, or emptied and closed.
AccountOpened ==
    /\ Waiting
    /\ \E m \in Tokens \ {Native} :
          chain.accounts[m] = None /\ chain' = [chain EXCEPT !.accounts[m] = 0]

AccountClosed ==
    /\ Waiting
    /\ \E m \in Tokens \ {Native} :
          chain.accounts[m] # None /\ chain' = [chain EXCEPT !.accounts[m] = None]

-----------------------------------------------------------------------------
Init ==
    /\ chain \in Chains
    /\ ask = None /\ found = None /\ tx = None /\ outcome = None
    /\ phase = "idle"
    /\ events = 0

Next ==
    \/ FindRoute
    \/ ChooseRoute
    \/ BuildRoute
    \/ BuildSwapAsync
    \/ BuildTwoHopV2
    \/ Submit
    \/ OthersTrade
    \/ AccountOpened
    \/ AccountClosed

Spec == Init /\ [][Next]_vars

-----------------------------------------------------------------------------
(* What the trader has of a token. *)

Holding(s, mint) ==
    IF mint = Native THEN s.sol ELSE IF s.accounts[mint] = None THEN 0 ELSE s.accounts[mint]

Spent(mint) == Holding(outcome.before, mint) - Holding(chain, mint)

Sum(s) == FoldLeft(LAMBDA x, y : x + y, 0, s)

Executed == phase = "done" /\ outcome.error = None

\* The router looks at every path: the graph finds those of one or two pools
\* that connect the two tokens through any of the tokens it is given (the router
\* gives it none to choose from, which is all of them), each once, in either
\* direction of the trade; and at every split of the trade over their best
\* quotes without a common pool, each once (adjacency-list-pool-graph.ts
\* findWalks, convert-quote-map.ts buildRoutes).
RoutesComplete ==
    phase \in {"found", "refused"} /\ chain = found.chain =>
        LET Paths(between) == getPath(Graph, ask.trade.tokenIn, ask.trade.tokenOut, between)
            routes == generateRoutes(found.all.map, ask.opts.maxSplits)
            splits == Splits(found.all.map, ask.opts.maxSplits)
        IN  /\ \A between \in SUBSET Tokens :
                  /\ ToSet(Paths(between)) = Walks(PoolList, ask.trade.tokenIn, ask.trade.tokenOut, between)
                  /\ IsInjective(Paths(between))
            /\ {ToSet(routes[n].quotes) : n \in DOMAIN routes} = splits
            /\ Len(routes) = Cardinality(splits)

\* The list is in order, and a split that is not in it is no better than any of
\* numTopRoutes that are: neither the partition nor the routes through one
\* pool, which are added again, drop a better one (convert-quote-map.ts).
BestFirst ==
    phase \in {"found", "refused"} /\ chain = found.chain =>
        LET routes == found.all.routes
            isInput == ask.trade.isInput
            Total(S) == [amountIn |-> FoldSet(LAMBDA q, x : x + q.amountIn, 0, S),
                         amountOut |-> FoldSet(LAMBDA q, x : x + q.amountOut, 0, S)]
            listed == {ToSet(routes[n].quotes) : n \in DOMAIN routes}
            dropped == Splits(found.all.map, ask.opts.maxSplits) \ listed
        IN  /\ \A n \in 2..Len(routes) : Cost(routes[n - 1], isInput) <= Cost(routes[n], isInput)
            /\ \A S \in dropped :
                  Cardinality({L \in listed : Cost(Total(L), isInput) <= Cost(Total(S), isInput)})
                      >= ask.opts.numTopRoutes

\* The limit of a part of the split: what its last pool was quoted to pay out, or
\* its first to take in, with the tolerance.
Limit(q) ==
    adjustForSlippage(IF ask.trade.isInput THEN Last(q.hops).estimatedOut ELSE Head(q.hops).estimatedIn,
                      ask.slippage, ~ask.trade.isInput)

Limits == Sum([n \in DOMAIN found.route.quotes |-> Limit(found.route.quotes[n])])

\* Whatever happened in between, an executed trade spends no more and gets no
\* less than its quote allows with the tolerance, over all parts of the split
\* together; an exact amount is kept up to the rounding of the shares, less
\* than one token each, unless a pool reached the end of its price range.
LimitsKept ==
    Executed =>
        LET trade == ask.trade
            spent == Spent(trade.tokenIn)
            got   == -Spent(trade.tokenOut)
            Exact(amount) ==
                /\ amount <= trade.tradeAmount
                /\ amount <= trade.tradeAmount - Len(found.route.quotes) => outcome.partial
        IN  IF trade.isInput THEN Exact(spent) /\ got >= Limits ELSE Exact(got) /\ spent <= Limits

Undisturbed == events = 0

\* The wallet could pay what the transaction may take.
Funded ==
    Holding(outcome.before, ask.trade.tokenIn) >=
        IF ask.trade.isInput THEN Sum([n \in DOMAIN found.route.quotes |-> found.route.quotes[n].hops[1].amount])
                             ELSE Limits

\* The version 2 instruction creates no accounts.
AccountsThere ==
    \/ tx.body[1].op # "twoHopV2"
    \/ /\ outcome.before.accounts[ask.trade.tokenIn] # None
       /\ outcome.before.accounts[ask.trade.tokenOut] # None

\* What a part of the split comes to by the program's own rounding, on the pools
\* it was quoted on.
Executable(q) ==
    quotePath([p \in DOMAIN found.chain.pools |-> [found.chain.pools[p] EXCEPT !.skew = 0]],
              q.path, ask.trade, q.asked)

Partial(hops) == \E h \in ToSet(hops) : h.partial

TakesB(q) == \E h \in ToSet(q.hops) : h.inputMint = TokenB(found.chain.pools[h.whirlpool])

\* What the transaction wraps, of a trade that starts with SOL.
Wrapped == Sum([n \in DOMAIN tx.body |-> IF tx.body[n].op = "wrap" THEN tx.body[n].amount ELSE 0])

\* swapAsync wraps the amount that is asked for even when it is one of the other token.
WrapsOutputAmount == ask.trade.tokenIn = Native /\ ~ask.trade.isInput /\ Wrapped # Limits

\* A transaction executed on the chain its route was quoted on, by a trader who can pay,
\* comes to what the program computes for each part of the route alone: no split,
\* hop, account or wrapped SOL stands in its way.  It is refused only when a part
\* misses its limit, runs out of arrays or has nothing left for its second hop, and
\* that only where the SDK rounds b (bit-math.ts:53); or when swapAsync wrapped more SOL than there is, or less than the
\* swap takes.  A route that takes in no b pays and gets what was quoted.
\* Whatever others traded meanwhile, it is not for the tokens there are that a swap
\* is refused, but for swapAsync's SOL (swap-with-route.ts getSwapFromRoute, swap-async.ts).
AcceptedAsQuoted ==
    phase = "done" /\ Funded =>
        \A parts \in {found.route.quotes} :
        \A real \in {[n \in DOMAIN parts |-> Executable(parts[n])]} :
            LET in     == Sum([n \in DOMAIN parts |-> Head(real[n].hops).amountIn])
                out    == Sum([n \in DOMAIN parts |-> Last(real[n].hops).amountOut])
                ends   == {real[n].error : n \in DOMAIN parts} \ {None}
                filled == \A n \in DOMAIN parts : ~Partial(parts[n].hops)
                takesB == \E n \in DOMAIN parts : TakesB(parts[n])
                missed == \/ ends # {}
                          \/ \E n \in DOMAIN parts :
                                IF ask.trade.isInput THEN Last(real[n].hops).amountOut < Limit(parts[n])
                                                     ELSE Head(real[n].hops).amountIn > Limit(parts[n])
            IN  /\ Undisturbed /\ AccountsThere /\ filled /\ ~(\E n \in DOMAIN parts : Partial(real[n].hops)) =>
                      /\ missed => takesB
                      /\ IF WrapsOutputAmount /\ Wrapped > outcome.before.sol THEN outcome.error = "sol"
                         ELSE IF missed THEN outcome.error \in {"threshold"} \cup ends
                         ELSE IF WrapsOutputAmount /\ Wrapped < in THEN outcome.error = "funds"
                         ELSE /\ outcome.error = None
                              /\ Spent(ask.trade.tokenIn) = in /\ -Spent(ask.trade.tokenOut) = out
                              /\ ~takesB => in = found.route.amountIn /\ out = found.route.amountOut
                /\ filled =>
                      /\ outcome.error \in {"vault", "leftover"} => outcome.partial
                      /\ outcome.error \in {"funds", "sol"} => outcome.partial \/ WrapsOutputAmount

\* What one pool pays out is what the next takes in: no vault holds less than
\* its pool counts on, and what passes through the trader's hands neither
\* adds to nor takes from what the trader had of it, unless version 1 of the
\* instruction met the end of a price range (two_hop_swap.rs).
HopsBalance ==
    /\ \A p \in DOMAIN chain.pools : \A m \in DOMAIN chain.pools[p].reserve :
          chain.vault[p][m] = chain.pools[p].reserve[m]
    /\ Executed =>
          \A m \in Tokens \ {ask.trade.tokenIn, ask.trade.tokenOut} :
              \/ Spent(m) = 0
              \/ outcome.partial /\ \E ix \in ToSet(tx.body) : ix.op = "twoHop"

=============================================================================
