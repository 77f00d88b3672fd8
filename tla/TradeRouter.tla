----------------------------- MODULE TradeRouter -----------------------------
(***************************************************************************)
(* How the SDK's router finds its routes (router/quote-map.ts,             *)
(* router/convert-quote-map.ts): each path is quoted for each share of the *)
(* trade, the best quotes of each share are combined into splits of the    *)
(* whole trade, and the best of these are kept.                            *)
(*                                                                         *)
(* A pool keeps of its curve its two reserves, as those of a constant      *)
(* product, with the reserve below which its last array or the price range *)
(* ends.  Quotes and swaps are two computations, as they are two programs, *)
(* and they differ as SwapQuote shows: by how the SDK rounds b taken in.   *)
(***************************************************************************)
EXTENDS PoolGraph

CONSTANT None

\* The selection of the best routes (Selection), of which only the algorithm is used.
Best == INSTANCE Selection WITH Costs <- {}, MaxLength <- 0, elements <- None, order <- None

CeilDiv(n, d) == (n + d - 1) \div d

-----------------------------------------------------------------------------
(* A pool is [reserve, least: mint -> amount, end: "price" or "arrays",     *)
(* skew: how much more of b the SDK takes in for a swap than the program].  *)

Failure(reason) == [error |-> reason]

\* A pool's mints are in the order of their addresses.
TokenB(pool) == Max(DOMAIN pool.reserve)

\* Beyond the end of the price range a trade is filled in part; beyond the
\* arrays it fails.
Traded(pool, in, out, amount, isInput) ==
    LET reserve == pool.reserve
        most    == reserve[out] - pool.least[out]
        asked   == IF isInput THEN (reserve[out] * amount) \div (reserve[in] + amount) ELSE amount
        paid    == IF asked > most THEN most ELSE asked
        needed  == CeilDiv(reserve[in] * paid, reserve[out] - paid)
    IN  IF asked > most /\ pool.end = "arrays" THEN Failure("arrays")
        ELSE [error |-> None, out |-> paid, partial |-> asked > most,
              in |-> IF isInput /\ asked <= most THEN amount ELSE needed]

\* A swap, by the program.
Swap(pool, in, out, amount, isInput) ==
    IF amount = 0 THEN Failure("zero") ELSE Traded(pool, in, out, amount, isInput)

Skew(pool, in) == IF in = TokenB(pool) THEN pool.skew ELSE 0

\* What a trade is quoted to take in.
Quoted(r, amount, isInput, skew) ==
    IF r.error # None THEN r
    ELSE [r EXCEPT !.in = IF isInput /\ ~r.partial THEN amount ELSE Max({@ + skew, 0})]

\* A swap, as the SDK quotes it: steps that take in b are rounded by another
\* rule, so that more or less of an amount given is left to trade, and
\* more or less is asked for an amount paid out.
QuoteSwap(pool, in, out, amount, isInput) ==
    LET skew == Skew(pool, in)
        traded == IF isInput THEN Max({amount - skew, 0}) ELSE amount
    IN  IF amount = 0 THEN Failure("zero")
        ELSE Quoted(Traded(pool, in, out, traded, isInput), amount, isInput, skew)

Swapped(pool, in, out, r) == [pool EXCEPT !.reserve[in] = @ + r.in, !.reserve[out] = @ - r.out]

OtherMint(pool, mint) == CHOOSE m \in DOMAIN pool.reserve : m # mint

-----------------------------------------------------------------------------
(* Quotes of a path.  A trade is [tokenIn, tokenOut, tradeAmount, isInput]. *)

\* The router reports the amount it asked for, filled or not.
HopOf(r, p, in, out, amount, isInput) ==
    IF r.error # None THEN r
    ELSE [error |-> None, whirlpool |-> p, inputMint |-> in, outputMint |-> out,
          amount |-> amount, estimatedIn |-> r.in, estimatedOut |-> r.out, partial |-> r.partial,
          amountIn |-> IF isInput THEN amount ELSE r.in,
          amountOut |-> IF isInput THEN r.out ELSE amount]

\* One hop, by the token whose amount is known.
quoteHop(pools, p, token, amount, isInput) ==
    LET in  == IF isInput THEN token ELSE OtherMint(pools[p], token)
        out == OtherMint(pools[p], in)
    IN  HopOf(QuoteSwap(pools[p], in, out, amount, isInput), p, in, out, amount, isInput)

\* The next hop of an exact input starts with what the last one pays out; that
\* of an exact output, from the end, must pay out what the last one takes in.
\* A failed hop ends the path.
NextHop(acc, p, pools, isInput) ==
    LET hop == quoteHop(pools, p, acc.token, acc.amount, isInput)
    IN  IF acc.error # None THEN acc
        ELSE IF hop.error # None THEN [acc EXCEPT !.error = hop.error]
        ELSE [error |-> None,
              hops |-> IF isInput THEN Append(acc.hops, hop) ELSE <<hop>> \o acc.hops,
              token |-> IF isInput THEN hop.outputMint ELSE hop.inputMint,
              amount |-> IF isInput THEN hop.amountOut ELSE hop.amountIn]

\* All hops of a path for one share, in the order of the path.
quotePath(pools, path, trade, amount) ==
    FoldLeft(LAMBDA acc, p : NextHop(acc, p, pools, trade.isInput),
             [error |-> None, hops |-> <<>>, amount |-> amount,
              token |-> IF trade.isInput THEN trade.tokenIn ELSE trade.tokenOut],
             IF trade.isInput THEN path ELSE Reverse(path))

getSplitPercentageAmts(tradeAmount, increment) ==
    [i \in 1..100 \div increment |->
        [percent |-> i * increment, amount |-> (tradeAmount * i * increment) \div 100]]

PathQuote(path, share, hops) ==
    [path |-> path, percent |-> share.percent, asked |-> share.amount, hops |-> hops,
     amountIn |-> hops[1].amountIn, amountOut |-> hops[Len(hops)].amountOut]

\* Better by the amount the trade leaves open.
Cost(route, isInput) == IF isInput THEN -route.amountOut ELSE route.amountIn

\* Array.sort of JavaScript, which keeps equal elements in their order.
Sorted(routes, isInput) ==
    LET cost == [i \in DOMAIN routes |-> Cost(routes[i], isInput)]
        order == SortSeq([i \in DOMAIN routes |-> i],
                         LAMBDA i, j : cost[i] < cost[j] \/ (cost[i] = cost[j] /\ i < j))
    IN  [i \in DOMAIN routes |-> routes[order[i]]]

Prefix(s, n) == SubSeq(s, 1, IF n < Len(s) THEN n ELSE Len(s))

\* The quote map: for each share, its quoted paths, the best numTopPartialQuotes of them.
getQuoteMap(pools, paths, trade, opts) ==
    LET shares == getSplitPercentageAmts(trade.tradeAmount, opts.percentIncrement)
        Quotes(s) == [n \in DOMAIN paths |-> quotePath(pools, paths[n], trade, shares[s].amount)]
        Good(s) == SelectSeq([n \in DOMAIN paths |-> <<paths[n], Quotes(s)[n]>>],
                             LAMBDA q : q[2].error = None)
    IN  [map |-> [s \in DOMAIN shares |->
                    Prefix(Sorted([n \in DOMAIN Good(s) |->
                                      PathQuote(Good(s)[n][1], shares[s], Good(s)[n][2].hops)],
                                  trade.isInput),
                           opts.numTopPartialQuotes)],
         failures |-> {Quotes(s)[n].error : s \in DOMAIN shares, n \in DOMAIN paths} \ {None}]

-----------------------------------------------------------------------------
(* Routes: splits of the whole trade over paths that share no pool.         *)

NoRoute == [quotes |-> <<>>, percent |-> 0, amountIn |-> 0, amountOut |-> 0]

WithQuote(route, q) ==
    [quotes |-> Append(route.quotes, q), percent |-> route.percent + q.percent,
     amountIn |-> route.amountIn + q.amountIn, amountOut |-> route.amountOut + q.amountOut]

SharesPool(p, q) == ToSet(p.path) \cap ToSet(q.path) # {}

\* Mutant: pools of earlier parts of the split are not looked at.
FitsLast(route, q) ==
    /\ route.percent + q.percent <= 100
    /\ route.quotes # <<>> =>
          q.percent <= Last(route.quotes).percent /\ ~SharesPool(q, Last(route.quotes))

\* Shares are taken in decreasing order, and no pool is used twice.
Fits(route, q) ==
    /\ route.percent + q.percent <= 100
    /\ route.quotes # <<>> => q.percent <= Last(route.quotes).percent
    /\ \A i \in DOMAIN route.quotes : ~SharesPool(q, route.quotes[i])

\* From the largest share to the smallest; after a quote, only the later ones
\* of its share remain candidates.
RECURSIVE buildRoutes(_, _, _)
buildRoutes(map, route, maxSplits) ==
    LET Extended(s, j) ==
            LET next == WithQuote(route, map[s][j])
            IN  IF ~Fits(route, map[s][j]) THEN <<>>
                ELSE IF next.percent = 100 THEN <<next>>
                ELSE IF Len(next.quotes) = maxSplits THEN <<>>
                ELSE buildRoutes([map EXCEPT ![s] = SubSeq(@, j + 1, Len(@))], next, maxSplits)
    IN  FlattenSeq([n \in DOMAIN map |->
            LET s == Len(map) + 1 - n
            IN  FlattenSeq([j \in DOMAIN map[s] |-> Extended(s, j)])])

generateRoutes(map, maxSplits) == buildRoutes(map, NoRoute, maxSplits)

\* The numTopRoutes best of them, by partition when there are more.
getRankedRoutes(map, isInput, opts) ==
    LET routes == generateRoutes(map, opts.maxSplits)
        cost   == [i \in DOMAIN routes |-> Cost(routes[i], isInput)]
        order  == Best!kSmallestPartition(cost, [i \in DOMAIN routes |-> i], opts.numTopRoutes + 1)
    IN  IF Len(routes) <= opts.numTopRoutes THEN Sorted(routes, isInput)
        ELSE Sorted([i \in 1..opts.numTopRoutes |-> routes[order[i]]], isInput)

\* The routes through one pool, once more: they are in the list even when
\* ranking dropped them.
getSingleHopSplit(map) ==
    LET full   == IF map # <<>> /\ 100 \in {q.percent : q \in ToSet(map[Len(map)])} THEN map[Len(map)] ELSE <<>>
        single == SelectSeq(full, LAMBDA q : Len(q.hops) = 1)
    IN  [i \in DOMAIN single |-> WithQuote(NoRoute, single[i])]

getBestRoutesFromQuoteMap(map, isInput, opts) ==
    Sorted(getRankedRoutes(map, isInput, opts) \o getSingleHopSplit(map), isInput)

\* findAllRoutes: the routes, or why there are none.
findAllRoutes(pools, paths, trade, opts) ==
    LET quoted == getQuoteMap(pools, paths, trade, opts)
        routes == getBestRoutesFromQuoteMap(quoted.map, trade.isInput, opts)
    IN  IF paths = <<>> THEN [error |-> "RouteDoesNotExist", routes |-> <<>>, map |-> <<>>]
        ELSE IF trade.tradeAmount = 0 THEN [error |-> "ZeroInputAmount", routes |-> <<>>, map |-> <<>>]
        ELSE [error |-> IF routes = <<>> /\ "arrays" \in quoted.failures THEN "TradeAmountTooHigh" ELSE None,
              routes |-> routes, map |-> quoted.map]

-----------------------------------------------------------------------------
\* All ways to split the trade into at most maxSplits of the quotes, in no order.
Splits(map, maxSplits) ==
    LET quotes == UNION {ToSet(map[s]) : s \in DOMAIN map}
        upTo[n \in 0..maxSplits] ==
            IF n = 0 THEN {{}} ELSE {S \cup {q} : S \in upTo[n - 1], q \in quotes} \cup upTo[n - 1]
    IN  {S \in upTo[maxSplits] :
            /\ FoldSet(LAMBDA q, sum : sum + q.percent, 0, S) = 100
            /\ \A p, q \in S : p # q => ~SharesPool(p, q)}

=============================================================================
