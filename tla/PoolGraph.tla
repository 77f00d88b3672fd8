----------------------------- MODULE PoolGraph -----------------------------
(***************************************************************************)
(* The graph of pools the router searches                                  *)
(* (utils/graphs/adjacency-list-pool-graph.ts): for each token the pools   *)
(* that trade it, in the order they were listed, and the walks of one or   *)
(* two pools between two tokens.  Tokens are numbers; their order is that  *)
(* of the mints' strings, by which a search starts at the smaller.         *)
(***************************************************************************)
EXTENDS Integers, SequencesExt

-----------------------------------------------------------------------------
(* A pool as listed: its address and its two mints.                        *)

Edge(pool, other) == [address |-> pool.address, otherToken |-> other]

\* An address that is listed again is kept once.
WithEdge(edges, edge) ==
    IF \E i \in DOMAIN edges : edges[i].address = edge.address THEN edges ELSE Append(edges, edge)

AddPool(graph, pool) ==
    [graph EXCEPT ![pool.mintA] = WithEdge(@, Edge(pool, pool.mintB)),
                  ![pool.mintB] = WithEdge(@, Edge(pool, pool.mintA))]

buildPoolGraph(tokens, pools) == FoldLeft(AddPool, [t \in tokens |-> <<>>], pools)

-----------------------------------------------------------------------------
Leads(edges, address) == \E i \in DOMAIN edges : edges[i].address = address

\* All walks between two tokens: the pools they share, then for each of the
\* other pools of the first the pools of the second with the same token between.
findWalks(graph, from, to, intermediates) ==
    LET direct   == SelectSeq(graph[from], LAMBDA e : Leads(graph[to], e.address))
        firstHop == SelectSeq(graph[from], LAMBDA e : ~Leads(graph[to], e.address))
        allowed  == SelectSeq(firstHop, LAMBDA e : e.otherToken \in intermediates)
        Seconds(first) == SelectSeq(graph[to], LAMBDA e : e.otherToken = first.otherToken)
    IN  [i \in DOMAIN direct |-> <<direct[i].address>>]
        \o FlattenSeq([i \in DOMAIN allowed |->
              [j \in DOMAIN Seconds(allowed[i]) |->
                  <<allowed[i].address, Seconds(allowed[i])[j].address>>]])

getHopsFromRoute(path, reversed) == IF reversed THEN Reverse(path) ELSE path

\* The paths from one token to another: found from the smaller, walked either way.
getPath(graph, start, end, intermediates) ==
    IF start = end THEN <<>>
    ELSE LET from  == IF start < end THEN start ELSE end
             to    == IF start < end THEN end ELSE start
             walks == findWalks(graph, from, to, intermediates)
         IN  [i \in DOMAIN walks |-> getHopsFromRoute(walks[i], start # from)]

-----------------------------------------------------------------------------
\* The walks of one or two pools that lead from start to end, by the pools'
\* mints alone; there are none between identical tokens.
Walks(pools, start, end, intermediates) ==
    LET Mints(p)  == {p.mintA, p.mintB}
        listed    == ToSet(pools)
        between   == intermediates \ {start, end}
        direct    == {<<p.address>> : p \in {q \in listed : Mints(q) = {start, end}}}
        hops      == {pq \in listed \X listed : \E t \in between :
                        Mints(pq[1]) = {start, t} /\ Mints(pq[2]) = {t, end}}
    IN  IF start = end THEN {} ELSE direct \cup {<<pq[1].address, pq[2].address>> : pq \in hops}

=============================================================================
