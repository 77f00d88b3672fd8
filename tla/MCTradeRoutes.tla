---------------------------- MODULE MCTradeRoutes ----------------------------
(* Three tokens, the second wrapped SOL; two pools for 1-3, one for 1-2 and *)
(* one for 2-3, of which the last two are, or are not, close to the end of  *)
(* their price range or of their arrays.  Quotes take one b less than the   *)
(* program, one more, or as much.                                           *)
EXTENDS TradeRoutes

Listed(p, a, b) == [address |-> p, mintA |-> a, mintB |-> b]
MCPoolList == <<Listed(4, 2, 3), Listed(1, 1, 3), Listed(3, 1, 2), Listed(1, 1, 3), Listed(2, 1, 3)>>

MCTokens == 1..3

Reserves == <<1 :> 40 @@ 3 :> 30, 1 :> 20 @@ 3 :> 20, 1 :> 24 @@ 2 :> 50, 2 :> 24 @@ 3 :> 40>>

\* Pools 3 and 4 can still pay out rooms[1] and rooms[2], to the end of the
\* price range or of their arrays.
PoolsWith(rooms, end, skews) ==
    [p \in 1..4 |->
        [reserve |-> Reserves[p],
         least |-> [m \in DOMAIN Reserves[p] |-> IF p > 2 THEN Reserves[p][m] - rooms[p - 2] ELSE 2],
         end |-> IF p > 2 THEN end ELSE "arrays", skew |-> skews[p]]]

Chain(rooms, end, skews, accounts, sol) ==
    [pools |-> PoolsWith(rooms, end, skews), vault |-> [p \in 1..4 |-> Reserves[p]],
     accounts |-> accounts, sol |-> sol, wrapped |-> None]

MCChains ==
    {Chain(rooms, "price", <<-1, 1, -1, 1>>, accounts, 20) :
        rooms \in {<<20, 5>>, <<5, 20>>}, accounts \in {<<20, None, None>>, <<20, None, 9>>}}
    \cup {Chain(<<20, 20>>, "arrays", <<0, 0, 0, 0>>, <<6, None, 20>>, 4),
          Chain(<<20, 20>>, "arrays", <<1, -1, 1, -1>>, <<20, None, 20>>, 20),
          Chain(<<4, 4>>, "arrays", <<1, -1, 1, -1>>, <<20, None, 6>>, 20)}

MCTrades ==
    {[tokenIn |-> p[1], tokenOut |-> p[2], tradeAmount |-> n, isInput |-> b] :
        p \in {<<1, 3>>, <<3, 1>>, <<2, 3>>, <<2, 1>>}, n \in {5, 9}, b \in BOOLEAN}
    \cup {[tokenIn |-> p[1], tokenOut |-> 2, tradeAmount |-> p[2], isInput |-> TRUE] :
        p \in {<<2, 5>>, <<1, 0>>, <<3, 1>>, <<1, 15>>}}

Option(increment, quotes, routes, splits) ==
    [percentIncrement |-> increment, numTopPartialQuotes |-> quotes, numTopRoutes |-> routes,
     maxSplits |-> splits]

MCOptions == {Option(25, 3, 9, 3), Option(50, 2, 1, 2)}

MCSlippages == {[numerator |-> n, denominator |-> 10] : n \in {0, 3}}

=============================================================================
