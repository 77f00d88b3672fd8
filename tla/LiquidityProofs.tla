-------------------------- MODULE LiquidityProofs --------------------------
(***************************************************************************)
(* What the pool, its ticks and its vaults say is a sum over the           *)
(* positions, for every set of positions, price table, range of ticks and  *)
(* word size.                                                              *)
(*                                                                         *)
(*  - Liquidity: the pool's and the ticks' are sums over the positions     *)
(*    after every change of one and every tick that a swap crosses         *)
(*    (LiquidityFollowsTick, TicksFollowPositions).                        *)
(*  - Growth: that within a position's range is changed by no crossing and *)
(*    no other position (GrowthStaysAhead).                                *)
(*  - Rewards: what one owes to all positions is within what it emitted    *)
(*    (RewardsBacked).                                                     *)
(*  - Tokens: the vaults cover what the positions are worth, and all of    *)
(*    them can leave (LeavingSucceeds).                                    *)
(***************************************************************************)
EXTENDS WhirlpoolProofs, BoundedPool, FiniteSetTheorems

-----------------------------------------------------------------------------
(* Sums over finite sets. *)

First(s) == CHOOSE x \in s : TRUE

\* The partial sums of f over the subsets of S, as the folds build them.
Adds(f, S, h) ==
    h = [s \in SUBSET S |-> IF s = {} THEN 0 ELSE f[First(s)] + h[s \ {First(s)}]]

Total(f, S) == (CHOOSE h : Adds(f, S, h))[S]

LEMMA FirstIn == ASSUME NEW s, s # {} PROVE First(s) \in s
  BY DEF First

\* Induction over the subsets of a finite set.
LEMMA SubsetInduction ==
    ASSUME NEW S, IsFiniteSet(S), NEW Q, {} \in Q,
           \A s \in SUBSET S : s # {} /\ (\A x \in s : s \ {x} \in Q) => s \in Q
    PROVE  \A s \in SUBSET S : s \in Q
  <1> DEFINE bad == (SUBSET S) \ Q
             R == StrictSubsetOrdering(S)
  <1> SUFFICES ASSUME bad # {} PROVE FALSE
    OBVIOUS
  <1>1. IsWellFoundedOn(R, SUBSET S)
    BY FS_StrictSubsetOrderingWellFounded, FS_FiniteSubsetsOfFinite
  <1>2. bad \subseteq SUBSET S
    OBVIOUS
  <1> HIDE DEF R
  <1>3. PICK s \in bad : \A u \in bad : ~ (<<u, s>> \in R)
    BY <1>1, <1>2, WFMin
  <1>4. s \in SUBSET S /\ s # {}
    OBVIOUS
  <1>5. ASSUME NEW x \in s PROVE s \ {x} \in Q
    <2>1. s \ {x} \in SUBSET S /\ s \ {x} \subseteq s /\ s \ {x} # s
      BY <1>4, <1>5
    <2>2. <<s \ {x}, s>> \in R
      BY <1>4, <2>1 DEF R, StrictSubsetOrdering
    <2> QED BY <1>3, <2>1, <2>2
  <1> QED BY <1>4, <1>5

\* The subsets of S of at most n elements.
Level(S, n) == {s \in SUBSET S : Cardinality(s) <= n}

\* Partial sums exist.
LEMMA SumsExist ==
    ASSUME NEW f, NEW S, IsFiniteSet(S)
    PROVE  \E h : Adds(f, S, h)
  <1> DEFINE G(n, h) == h = [s \in Level(S, n) |-> IF s = {} THEN 0
                                                    ELSE f[First(s)] + h[s \ {First(s)}]]
             bad == {n \in Nat : \A h : ~G(n, h)}
  <1>1. \A s \in SUBSET S : IsFiniteSet(s) /\ Cardinality(s) \in Nat
    BY FS_Subset, FS_CardinalityType
  <1>2. ASSUME NEW n \in Nat, NEW h, G(n, h) PROVE \E g : G(n + 1, g)
    <2> DEFINE g == [s \in Level(S, n + 1) |-> IF s = {} THEN 0 ELSE f[First(s)] + h[s \ {First(s)}]]
    <2>1. ASSUME NEW s \in Level(S, n) PROVE s \in Level(S, n + 1) /\ h[s] = g[s]
      <3>1. s \in Level(S, n + 1)
        BY <1>1 DEF Level
      <3>2. h[s] = IF s = {} THEN 0 ELSE f[First(s)] + h[s \ {First(s)}]
        BY <1>2
      <3> QED BY <3>1, <3>2
    <2>2. ASSUME NEW s \in Level(S, n + 1), s # {} PROVE s \ {First(s)} \in Level(S, n)
      <3>1. IsFiniteSet(s) /\ Cardinality(s) \in Nat /\ First(s) \in s
        BY <1>1, <2>2, FirstIn DEF Level
      <3>2. Cardinality(s \ {First(s)}) = Cardinality(s) - 1
        BY <3>1, FS_RemoveElement
      <3> QED BY <3>1, <3>2 DEF Level
    <2>3. ASSUME NEW s \in Level(S, n + 1)
          PROVE  (IF s = {} THEN 0 ELSE f[First(s)] + h[s \ {First(s)}])
                   = (IF s = {} THEN 0 ELSE f[First(s)] + g[s \ {First(s)}])
      BY <2>1, <2>2
    <2>4. G(n + 1, g)
      BY <2>3
    <2> QED BY <2>4
  <1>3. \E h : G(0, h)
    <2> DEFINE h == [s \in Level(S, 0) |-> 0]
    <2>1. ASSUME NEW s \in Level(S, 0) PROVE s = {}
      BY <1>1, FS_EmptySet DEF Level
    <2>2. G(0, h)
      BY <2>1
    <2> QED BY <2>2
  <1>4. Cardinality(S) \in Nat
    BY <1>1
  <1> HIDE DEF G
  <1>5. bad = {}
    <2> SUFFICES ASSUME bad # {} PROVE FALSE
      OBVIOUS
    <2>1. IsWellFoundedOn(OpToRel(<, Nat), Nat)
      BY NatLessThanWellFounded
    <2>2. bad \subseteq Nat
      OBVIOUS
    <2>3. PICK n \in bad : \A m \in bad : ~ (<<m, n>> \in OpToRel(<, Nat))
      <3> HIDE DEF bad
      <3> QED BY <2>1, <2>2, WFMin
    <2>4. n # 0
      BY <1>3
    <2>5. n - 1 \in Nat /\ <<n - 1, n>> \in OpToRel(<, Nat)
      BY <2>2, <2>4 DEF OpToRel
    <2>6. \E h : G(n - 1, h)
      BY <2>3, <2>5
    <2>7. \E g : G(n - 1 + 1, g)
      BY <1>2, <2>5, <2>6
    <2> QED BY <2>7
  <1>6. PICK h : G(Cardinality(S), h)
    BY <1>4, <1>5
  <1>7. Level(S, Cardinality(S)) = SUBSET S
    BY FS_Subset DEF Level
  <1> QED BY <1>6, <1>7 DEF Adds, G

\* Two partial sums agree on the sets they have in common and on which the
\* functions summed agree.
LEMMA SumsAgree ==
    ASSUME NEW f, NEW g, NEW S, NEW T, NEW h, NEW k, Adds(f, S, h), Adds(g, T, k),
           NEW u, IsFiniteSet(u), u \subseteq S, u \subseteq T, \A x \in u : f[x] = g[x]
    PROVE  h[u] = k[u]
  <1> DEFINE Q == {s \in SUBSET u : h[s] = k[s]}
  <1>1. {} \in Q
    BY DEF Adds
  <1>2. ASSUME NEW s \in SUBSET u, s # {}, \A x \in s : s \ {x} \in Q PROVE s \in Q
    <2>1. First(s) \in s
      BY <1>2, FirstIn
    <2>2. h[s] = f[First(s)] + h[s \ {First(s)}] /\ k[s] = g[First(s)] + k[s \ {First(s)}]
      BY <1>2 DEF Adds
    <2> QED BY <1>2, <2>1, <2>2
  <1> HIDE DEF Q
  <1>3. \A s \in SUBSET u : s \in Q
    BY <1>1, <1>2, SubsetInduction, Zenon
  <1> QED BY <1>3 DEF Q

LEMMA SumsChosen ==
    ASSUME NEW f, NEW S, IsFiniteSet(S)
    PROVE  Adds(f, S, CHOOSE h : Adds(f, S, h))
  BY SumsExist

\* A total depends only on the values that are summed.
LEMMA TotalSame ==
    ASSUME NEW f, NEW g, NEW S, IsFiniteSet(S), \A x \in S : f[x] = g[x]
    PROVE  Total(f, S) = Total(g, S)
  <1> DEFINE h == CHOOSE h : Adds(f, S, h)
             k == CHOOSE k : Adds(g, S, k)
  <1>1. Adds(f, S, h) /\ Adds(g, S, k)
    BY SumsChosen
  <1> HIDE DEF h, k
  <1>2. h[S] = k[S]
    BY <1>1, SumsAgree
  <1> QED BY <1>2 DEF Total, h, k

LEMMA TotalEmpty == ASSUME NEW f PROVE Total(f, {}) = 0
  <1> DEFINE h == CHOOSE h : Adds(f, {}, h)
  <1>1. Adds(f, {}, h)
    BY SumsChosen, FS_EmptySet
  <1> HIDE DEF h
  <1>2. h[{}] = 0
    BY <1>1 DEF Adds
  <1> QED BY <1>2 DEF Total, h

LEMMA TotalFirst ==
    ASSUME NEW f, NEW S, IsFiniteSet(S), S # {}
    PROVE  Total(f, S) = f[First(S)] + Total(f, S \ {First(S)})
  <1> DEFINE T == S \ {First(S)}
             h == CHOOSE h : Adds(f, S, h)
             k == CHOOSE k : Adds(f, T, k)
  <1>1. IsFiniteSet(T)
    BY FS_Subset
  <1>2. Adds(f, S, h) /\ Adds(f, T, k)
    BY <1>1, SumsChosen
  <1> HIDE DEF h, k
  <1>3. h[S] = f[First(S)] + h[T]
    BY <1>2 DEF Adds
  <1>4. h[T] = k[T]
    BY <1>1, <1>2, SumsAgree
  <1> QED BY <1>3, <1>4 DEF Total, h, k, T

\* A total of integers is one, and any element may be taken out first.
LEMMA TotalTyped ==
    ASSUME NEW S, IsFiniteSet(S), NEW f, \A x \in S : f[x] \in Int
    PROVE  Total(f, S) \in Int
  <1> DEFINE Q == {s \in SUBSET S : Total(f, s) \in Int}
  <1>1. {} \in Q
    BY TotalEmpty
  <1>2. ASSUME NEW s \in SUBSET S, s # {}, \A x \in s : s \ {x} \in Q PROVE s \in Q
    <2>1. First(s) \in s /\ IsFiniteSet(s)
      BY <1>2, FirstIn, FS_Subset
    <2>2. Total(f, s) = f[First(s)] + Total(f, s \ {First(s)})
      BY <1>2, <2>1, TotalFirst
    <2> QED BY <1>2, <2>1, <2>2
  <1> HIDE DEF Q
  <1>3. \A s \in SUBSET S : s \in Q
    BY <1>1, <1>2, SubsetInduction, Zenon
  <1> QED BY <1>3 DEF Q

LEMMA TotalWithout ==
    ASSUME NEW S, IsFiniteSet(S), NEW f, \A x \in S : f[x] \in Int, NEW y \in S
    PROVE  Total(f, S) = f[y] + Total(f, S \ {y})
  <1> DEFINE Q == {s \in SUBSET S : \A z \in s : Total(f, s) = f[z] + Total(f, s \ {z})}
  <1>1. {} \in Q
    OBVIOUS
  <1>2. ASSUME NEW s \in SUBSET S, s # {}, \A x \in s : s \ {x} \in Q PROVE s \in Q
    <2> SUFFICES ASSUME NEW z \in s PROVE Total(f, s) = f[z] + Total(f, s \ {z})
      OBVIOUS
    <2> DEFINE x == First(s)
               r == (s \ {x}) \ {z}
    <2>1. x \in s /\ IsFiniteSet(s) /\ IsFiniteSet(s \ {z}) /\ IsFiniteSet(r)
      BY <1>2, FirstIn, FS_Subset
    <2>2. Total(f, s) = f[x] + Total(f, s \ {x})
      BY <1>2, <2>1, TotalFirst
    <2> HIDE DEF x
    <2>3. CASE z = x
      BY <2>2, <2>3
    <2>4. CASE z # x
      <3>1. Total(f, s \ {x}) = f[z] + Total(f, r)
        BY <1>2, <2>1, <2>4
      <3>2. Total(f, s \ {z}) = f[x] + Total(f, (s \ {z}) \ {x})
        BY <1>2, <2>1, <2>4
      <3>3. (s \ {z}) \ {x} = r
        OBVIOUS
      <3>4. Total(f, r) \in Int /\ f[x] \in Int /\ f[z] \in Int
        BY <2>1, TotalTyped
      <3> HIDE DEF r
      <3>5. Total(f, s) = f[x] + (f[z] + Total(f, r)) /\ Total(f, s \ {z}) = f[x] + Total(f, r)
        BY <2>2, <3>1, <3>2, <3>3, Zenon
      <3> QED BY <3>4, <3>5
    <2> QED BY <2>3, <2>4
  <1> HIDE DEF Q
  <1>3. \A s \in SUBSET S : s \in Q
    BY <1>1, <1>2, SubsetInduction, Zenon
  <1> QED BY <1>3 DEF Q

\* Totals add up.
LEMMA TotalAdds ==
    ASSUME NEW S, IsFiniteSet(S), NEW f, NEW g, NEW h,
           \A x \in S : f[x] \in Int /\ g[x] \in Int /\ h[x] = f[x] + g[x]
    PROVE  Total(h, S) = Total(f, S) + Total(g, S)
  <1> DEFINE Q == {s \in SUBSET S : Total(h, s) = Total(f, s) + Total(g, s)}
  <1>1. {} \in Q
    BY TotalEmpty
  <1>2. ASSUME NEW s \in SUBSET S, s # {}, \A x \in s : s \ {x} \in Q PROVE s \in Q
    <2> DEFINE x == First(s)
               r == s \ {x}
    <2>1. x \in s /\ IsFiniteSet(s) /\ IsFiniteSet(r)
      BY <1>2, FirstIn, FS_Subset
    <2>2. /\ Total(f, s) = f[x] + Total(f, r)
          /\ Total(g, s) = g[x] + Total(g, r)
          /\ Total(h, s) = h[x] + Total(h, r)
      BY <1>2, <2>1, TotalFirst
    <2>3. Total(f, r) \in Int /\ Total(g, r) \in Int
      BY <2>1, TotalTyped
    <2>4. Total(h, r) = Total(f, r) + Total(g, r)
      BY <1>2, <2>1
    <2>5. f[x] \in Int /\ g[x] \in Int /\ h[x] = f[x] + g[x]
      BY <2>1
    <2> HIDE DEF x, r
    <2> QED BY <2>2, <2>3, <2>4, <2>5
  <1> HIDE DEF Q
  <1>3. \A s \in SUBSET S : s \in Q
    BY <1>1, <1>2, SubsetInduction, Zenon
  <1> QED BY <1>3 DEF Q

\* A total of naturals is one, and no less than any of them.
LEMMA TotalNat ==
    ASSUME NEW S, IsFiniteSet(S), NEW f, \A x \in S : f[x] \in Nat
    PROVE  Total(f, S) \in Nat /\ \A x \in S : f[x] <= Total(f, S)
  <1> DEFINE Q == {s \in SUBSET S : Total(f, s) \in Nat}
  <1>1. {} \in Q
    BY TotalEmpty
  <1>2. ASSUME NEW s \in SUBSET S, s # {}, \A x \in s : s \ {x} \in Q PROVE s \in Q
    <2>1. First(s) \in s /\ IsFiniteSet(s)
      BY <1>2, FirstIn, FS_Subset
    <2>2. Total(f, s) = f[First(s)] + Total(f, s \ {First(s)})
      BY <1>2, <2>1, TotalFirst
    <2> QED BY <1>2, <2>1, <2>2
  <1>3. \A s \in SUBSET S : s \in Q
    <2> HIDE DEF Q
    <2> QED BY <1>1, <1>2, SubsetInduction
  <1>4. ASSUME NEW x \in S PROVE f[x] <= Total(f, S)
    <2>1. Total(f, S) = f[x] + Total(f, S \ {x})
      BY TotalWithout
    <2>2. Total(f, S \ {x}) \in Nat
      BY <1>3
    <2> QED BY <2>1, <2>2
  <1> QED BY <1>3, <1>4

\* Elements that count for nothing may be left out.
LEMMA TotalPart ==
    ASSUME NEW S, IsFiniteSet(S), NEW f, NEW T \in SUBSET S, \A x \in S : f[x] \in Int,
           \A x \in S \ T : f[x] = 0
    PROVE  Total(f, S) = Total(f, T)
  <1> DEFINE Q == {s \in SUBSET S : Total(f, s) = Total(f, s \cap T)}
  <1>1. {} \in Q
    <2>1. {} \cap T = {}
      OBVIOUS
    <2> QED BY <2>1
  <1>2. ASSUME NEW s \in SUBSET S, s # {}, \A x \in s : s \ {x} \in Q PROVE s \in Q
    <2> DEFINE x == First(s)
               r == s \ {x}
    <2>1. x \in s /\ IsFiniteSet(s) /\ IsFiniteSet(s \cap T) /\ IsFiniteSet(r \cap T)
      BY <1>2, FirstIn, FS_Subset
    <2>2. Total(f, s) = f[x] + Total(f, r)
      BY <1>2, <2>1, TotalFirst
    <2>3. Total(f, r) = Total(f, r \cap T) /\ Total(f, r \cap T) \in Int
      BY <1>2, <2>1, TotalTyped
    <2>4. CASE x \in T
      <3>1. (s \cap T) \ {x} = r \cap T
        OBVIOUS
      <3>2. Total(f, s \cap T) = f[x] + Total(f, (s \cap T) \ {x})
        <4> HIDE DEF x
        <4> QED BY <2>1, <2>4, TotalWithout
      <3> QED BY <2>2, <2>3, <3>1, <3>2
    <2>5. CASE x \notin T
      <3>1. s \cap T = r \cap T /\ f[x] = 0
        BY <2>1, <2>5
      <3>2. Total(f, s) = 0 + Total(f, s \cap T) /\ Total(f, s \cap T) \in Int
        BY <2>2, <2>3, <3>1, Zenon
      <3> QED BY <3>2
    <2> QED BY <2>4, <2>5
  <1> HIDE DEF Q
  <1>3. \A s \in SUBSET S : s \in Q
    BY <1>1, <1>2, SubsetInduction, Zenon
  <1>4. S \cap T = T
    OBVIOUS
  <1> QED BY <1>3, <1>4 DEF Q

-----------------------------------------------------------------------------
(* The liquidity of a set of positions, for any content p of the accounts. *)

LiquidityIn(p, ids) == MapThenSumSet(LAMBDA id : p[id].liquidity, ids)

Accounts == [PositionIds -> PositionRecords \cup {NoPosition}]

Held(p) == {id \in PositionIds : p[id] # NoPosition}

\* Positions whose range holds tick t, starts at it and ends at it.
InRange(p, t) ==
    {id \in Held(p) : p[id].tick_lower_index <= t /\ t < p[id].tick_upper_index}

From(p, t) == {id \in Held(p) : p[id].tick_lower_index = t}

UpTo(p, t) == {id \in Held(p) : p[id].tick_upper_index = t}

Ordered(p) == \A id \in Held(p) : p[id].tick_lower_index < p[id].tick_upper_index

\* What a position adds to the liquidity of ids.
Share(p, ids, id) == IF id \in ids THEN p[id].liquidity ELSE 0

Shares(p, ids) == [id \in PositionIds |-> Share(p, ids, id)]

LEMMA HeldTyped ==
    ASSUME NEW p \in Accounts, NEW id \in Held(p)
    PROVE  /\ id \in PositionIds
           /\ p[id].tick_lower_index \in Usable /\ p[id].tick_upper_index \in Usable
           /\ p[id].tick_lower_index \in Int /\ p[id].tick_upper_index \in Int
           /\ p[id].liquidity \in U128 /\ p[id].liquidity \in Nat
  <1>1. id \in PositionIds /\ p[id] \in PositionRecords
    BY DEF Accounts, Held
  <1>2. /\ p[id].tick_lower_index \in Usable /\ p[id].tick_upper_index \in Usable
        /\ p[id].liquidity \in U128
    BY <1>1 DEF PositionRecords
  <1>3. Usable \subseteq Int
    BY TickIndexAssumption DEF Usable
  <1> QED BY <1>1, <1>2, <1>3, Unsigned

\* The partial sums that the fold of LiquidityIn builds.
LiquidityAdds(p, ids, h) ==
    h = [s \in SUBSET ids |-> IF s = {} THEN 0
                              ELSE LET x == CHOOSE x \in s : TRUE
                                   IN  p[x].liquidity + h[s \ {x}]]

LEMMA LiquidityTotal ==
    ASSUME NEW p \in Accounts, NEW ids \in SUBSET Held(p)
    PROVE  LiquidityIn(p, ids) = Total(Shares(p, ids), PositionIds)
  <1> DEFINE f == Shares(p, ids)
             k == CHOOSE k : LiquidityAdds(p, ids, k)
  <1>1. IsFiniteSet(PositionIds) /\ ids \in SUBSET PositionIds
    BY PositionAssumption DEF Held
  <1>2. IsFiniteSet(ids)
    BY <1>1, FS_Subset
  <1>3. \A x \in ids : f[x] = p[x].liquidity
    BY <1>1 DEF Shares, Share
  <1>4. ASSUME NEW s \in SUBSET ids, s # {} PROVE f[First(s)] = p[First(s)].liquidity
    BY <1>3, <1>4, FirstIn
  <1> HIDE DEF f
  <1>5. ASSUME NEW h PROVE LiquidityAdds(p, ids, h) <=> Adds(f, ids, h)
    <2> DEFINE F == [s \in SUBSET ids |-> IF s = {} THEN 0
                                          ELSE p[First(s)].liquidity + h[s \ {First(s)}]]
               G == [s \in SUBSET ids |-> IF s = {} THEN 0 ELSE f[First(s)] + h[s \ {First(s)}]]
    <2>1. F = G
      BY <1>4
    <2>2. LiquidityAdds(p, ids, h) <=> h = F
      BY DEF LiquidityAdds, First
    <2>3. Adds(f, ids, h) <=> h = G
      BY DEF Adds
    <2> QED BY <2>1, <2>2, <2>3, Zenon
  <1>6. \E h : LiquidityAdds(p, ids, h)
    BY <1>2, <1>5, SumsExist
  <1>7. LiquidityAdds(p, ids, k)
    BY <1>6
  <1>8. LiquidityIn(p, ids) = k[ids]
    BY DEF LiquidityIn, MapThenSumSet, MapThenFoldSet, LiquidityAdds, k
  <1> HIDE DEF k
  <1>9. k[ids] = Total(f, ids)
    <2>1. Adds(f, ids, k)
      BY <1>5, <1>7
    <2>2. Adds(f, ids, CHOOSE h : Adds(f, ids, h))
      BY <1>2, SumsChosen
    <2> QED BY <1>2, <2>1, <2>2, SumsAgree DEF Total
  <1>10. Total(f, PositionIds) = Total(f, ids)
    <2>1. \A x \in PositionIds : f[x] \in Int
      <3> SUFFICES ASSUME NEW x \in PositionIds PROVE Share(p, ids, x) \in Int
        BY DEF f, Shares
      <3> QED BY HeldTyped DEF Share
    <2>2. \A x \in PositionIds \ ids : f[x] = 0
      BY DEF f, Shares, Share
    <2> QED BY <1>1, <2>1, <2>2, TotalPart
  <1> QED BY <1>8, <1>9, <1>10 DEF f

LEMMA ShareTyped ==
    ASSUME NEW p \in Accounts, NEW ids \in SUBSET Held(p), NEW id \in PositionIds
    PROVE  Share(p, ids, id) \in Nat /\ Shares(p, ids)[id] = Share(p, ids, id)
  BY HeldTyped DEF Share, Shares

LEMMA LiquidityNat ==
    ASSUME NEW p \in Accounts, NEW ids \in SUBSET Held(p)
    PROVE  LiquidityIn(p, ids) \in Nat /\ \A id \in ids : p[id].liquidity <= LiquidityIn(p, ids)
  <1> DEFINE f == Shares(p, ids)
  <1>1. \A id \in PositionIds : f[id] \in Nat
    BY ShareTyped
  <1>2. \A id \in ids : id \in PositionIds /\ f[id] = p[id].liquidity
    BY ShareTyped DEF Share, Held
  <1>3. LiquidityIn(p, ids) = Total(f, PositionIds)
    BY LiquidityTotal
  <1> HIDE DEF f
  <1>4. Total(f, PositionIds) \in Nat /\ \A id \in PositionIds : f[id] <= Total(f, PositionIds)
    BY <1>1, PositionAssumption, TotalNat
  <1> QED BY <1>2, <1>3, <1>4

\* Two pairs of sets to which every position adds as much.
LEMMA LiquidityBalance ==
    ASSUME NEW p \in Accounts, NEW A \in SUBSET Held(p), NEW B \in SUBSET Held(p),
           NEW C \in SUBSET Held(p), NEW D \in SUBSET Held(p),
           \A id \in PositionIds :
               Share(p, A, id) + Share(p, B, id) = Share(p, C, id) + Share(p, D, id)
    PROVE  LiquidityIn(p, A) + LiquidityIn(p, B) = LiquidityIn(p, C) + LiquidityIn(p, D)
  <1> DEFINE a == Shares(p, A)
             b == Shares(p, B)
             c == Shares(p, C)
             d == Shares(p, D)
             h == [id \in PositionIds |-> a[id] + b[id]]
  <1>1. \A id \in PositionIds : /\ a[id] \in Int /\ b[id] \in Int /\ h[id] = a[id] + b[id]
                               /\ c[id] \in Int /\ d[id] \in Int /\ h[id] = c[id] + d[id]
    BY ShareTyped
  <1>2. /\ LiquidityIn(p, A) = Total(a, PositionIds) /\ LiquidityIn(p, B) = Total(b, PositionIds)
        /\ LiquidityIn(p, C) = Total(c, PositionIds) /\ LiquidityIn(p, D) = Total(d, PositionIds)
    BY LiquidityTotal
  <1> HIDE DEF a, b, c, d, h
  <1>3. Total(h, PositionIds) = Total(a, PositionIds) + Total(b, PositionIds)
    BY <1>1, PositionAssumption, TotalAdds
  <1>4. Total(h, PositionIds) = Total(c, PositionIds) + Total(d, PositionIds)
    BY <1>1, PositionAssumption, TotalAdds
  <1> QED BY <1>2, <1>3, <1>4

LEMMA RangesHeld ==
    ASSUME NEW p, NEW t
    PROVE  InRange(p, t) \in SUBSET Held(p) /\ From(p, t) \in SUBSET Held(p) /\ UpTo(p, t) \in SUBSET Held(p)
  BY DEF InRange, From, UpTo

\* The liquidity in range changes at a tick by that of the positions it bounds.
LEMMA RangeAtTick ==
    ASSUME NEW p \in Accounts, Ordered(p), NEW t \in Int
    PROVE  LiquidityIn(p, InRange(p, t)) + LiquidityIn(p, UpTo(p, t))
             = LiquidityIn(p, InRange(p, t - 1)) + LiquidityIn(p, From(p, t))
  <1> SUFFICES ASSUME NEW id \in PositionIds
               PROVE  Share(p, InRange(p, t), id) + Share(p, UpTo(p, t), id)
                        = Share(p, InRange(p, t - 1), id) + Share(p, From(p, t), id)
    <2>1. InRange(p, t - 1) \in SUBSET Held(p)
      BY RangesHeld
    <2> QED BY <2>1, RangesHeld, LiquidityBalance
  <1>1. CASE id \notin Held(p)
    BY <1>1 DEF Share, InRange, UpTo, From
  <1>2. CASE id \in Held(p)
    <2> DEFINE lower == p[id].tick_lower_index
               upper == p[id].tick_upper_index
               L == p[id].liquidity
    <2>1. lower \in Int /\ upper \in Int /\ L \in Nat /\ lower < upper
      BY <1>2, HeldTyped DEF Ordered
    <2>2. /\ id \in InRange(p, t) <=> lower <= t /\ t < upper
          /\ id \in InRange(p, t - 1) <=> lower <= t - 1 /\ t - 1 < upper
          /\ id \in UpTo(p, t) <=> upper = t
          /\ id \in From(p, t) <=> lower = t
      BY <1>2 DEF InRange, UpTo, From
    <2> HIDE DEF lower, upper
    <2> QED BY <2>1, <2>2 DEF Share
  <1> QED BY <1>1, <1>2

-----------------------------------------------------------------------------
(* The books: what the ticks and the pool keep of the positions.  *)

\* What a tick keeps of the positions that start at it, with liquidity lower,
\* and of those that end at it, with liquidity upper.
TickCounts(tick, lower, upper) ==
    /\ tick.liquidity_gross = lower + upper
    /\ tick.liquidity_net = lower - upper
    /\ tick.initialized = (lower + upper > 0)
    /\ ~tick.initialized => tick = DefaultTick

TickBook(tick, p, t) == TickCounts(tick, LiquidityIn(p, From(p, t)), LiquidityIn(p, UpTo(p, t)))

Books(p, t, liquidity, tks) ==
    /\ liquidity = LiquidityIn(p, InRange(p, t))
    /\ \A u \in Usable : TickBook(tks[u], p, u)

\* A position with liquidity has both its ends initialised.
LEMMA EndsInitialized ==
    ASSUME NEW p \in Accounts, NEW tks, \A u \in Usable : TickBook(tks[u], p, u),
           NEW id \in Held(p), p[id].liquidity # 0
    PROVE  p[id].tick_lower_index \in Initialized(tks) /\ p[id].tick_upper_index \in Initialized(tks)
  <1> DEFINE lower == p[id].tick_lower_index
             upper == p[id].tick_upper_index
             L == p[id].liquidity
  <1>1. lower \in Usable /\ upper \in Usable /\ L \in Nat \ {0}
    BY HeldTyped
  <1>2. ASSUME NEW u \in Usable, id \in From(p, u) \cup UpTo(p, u) PROVE tks[u].initialized
    <2> DEFINE a == LiquidityIn(p, From(p, u))
               b == LiquidityIn(p, UpTo(p, u))
    <2>1. a \in Nat /\ b \in Nat
      BY RangesHeld, LiquidityNat
    <2>2. L <= a \/ L <= b
      BY <1>2, RangesHeld, LiquidityNat
    <2>3. tks[u].initialized = (a + b > 0)
      BY DEF TickBook, TickCounts
    <2> HIDE DEF a, b, L
    <2>4. a + b > 0
      BY <1>1, <2>1, <2>2
    <2> QED BY <2>3, <2>4
  <1>3. id \in From(p, lower) /\ id \in UpTo(p, upper)
    BY DEF From, UpTo
  <1> QED BY <1>1, <1>2, <1>3 DEF Initialized

\* Between two ticks with no initialised tick in between, the liquidity in
\* range is the same.
LEMMA RangeQuiet ==
    ASSUME NEW p \in Accounts, NEW tks, \A u \in Usable : TickBook(tks[u], p, u),
           NEW t \in Int, NEW s \in Int, t <= s, \A u \in Initialized(tks) : u <= s => u <= t
    PROVE  LiquidityIn(p, InRange(p, t)) = LiquidityIn(p, InRange(p, s))
  <1>1. ASSUME NEW id \in PositionIds
        PROVE  Share(p, InRange(p, t), id) = Share(p, InRange(p, s), id)
    <2>1. CASE id \notin Held(p) \/ p[id].liquidity = 0
      BY <2>1 DEF Share, InRange
    <2>2. CASE id \in Held(p) /\ p[id].liquidity # 0
      <3> DEFINE lower == p[id].tick_lower_index
                 upper == p[id].tick_upper_index
      <3>1. lower \in Initialized(tks) /\ upper \in Initialized(tks)
        BY <2>2, EndsInitialized
      <3>2. lower \in Int /\ upper \in Int
        BY <2>2, HeldTyped
      <3>3. (lower <= s => lower <= t) /\ (upper <= s => upper <= t)
        BY <3>1
      <3>4. /\ id \in InRange(p, t) <=> lower <= t /\ t < upper
            /\ id \in InRange(p, s) <=> lower <= s /\ s < upper
        BY <2>2 DEF InRange
      <3> HIDE DEF lower, upper
      <3>5. id \in InRange(p, t) <=> id \in InRange(p, s)
        BY <3>2, <3>3, <3>4
      <3> QED BY <3>5 DEF Share
    <2> QED BY <2>1, <2>2
  <1>2. /\ LiquidityIn(p, InRange(p, t)) = Total(Shares(p, InRange(p, t)), PositionIds)
        /\ LiquidityIn(p, InRange(p, s)) = Total(Shares(p, InRange(p, s)), PositionIds)
    BY RangesHeld, LiquidityTotal
  <1>3. Shares(p, InRange(p, t)) = Shares(p, InRange(p, s))
    BY <1>1 DEF Shares
  <1> QED BY <1>2, <1>3

\* One position's liquidity changes.
LEMMA LiquidityChanged ==
    ASSUME NEW p \in Accounts, NEW q \in Accounts, NEW id \in PositionIds,
           NEW ids, ids \in SUBSET Held(p), ids \in SUBSET Held(q),
           \A x \in ids : x # id => q[x].liquidity = p[x].liquidity
    PROVE  LiquidityIn(q, ids) = LiquidityIn(p, ids) + (Share(q, ids, id) - Share(p, ids, id))
  <1> DEFINE f == Shares(p, ids)
             g == Shares(q, ids)
             S == PositionIds \ {id}
  <1>1. \A x \in PositionIds : f[x] \in Int /\ g[x] \in Int
    BY ShareTyped
  <1>2. f[id] = Share(p, ids, id) /\ g[id] = Share(q, ids, id)
    BY ShareTyped
  <1>3. \A x \in S : f[x] = g[x]
    BY DEF Shares, Share
  <1>4. LiquidityIn(p, ids) = Total(f, PositionIds) /\ LiquidityIn(q, ids) = Total(g, PositionIds)
    BY LiquidityTotal
  <1> HIDE DEF f, g
  <1>5. Total(f, PositionIds) = f[id] + Total(f, S) /\ Total(g, PositionIds) = g[id] + Total(g, S)
    BY <1>1, PositionAssumption, TotalWithout
  <1>6. IsFiniteSet(S)
    BY PositionAssumption, FS_Subset
  <1>7. Total(f, S) = Total(g, S)
    BY <1>3, <1>6, TotalSame
  <1>8. Total(f, S) \in Int
    BY <1>1, <1>6, TotalTyped
  <1> QED BY <1>1, <1>2, <1>4, <1>5, <1>7, <1>8

\* next_tick_modify_liquidity_update keeps a tick's book.
LEMMA TickUpdateCounts ==
    ASSUME NEW tick \in TickRecords, NEW lower \in Nat, NEW upper \in Nat, NEW delta \in Int,
           NEW is_upper \in BOOLEAN, TickCounts(tick, lower, upper),
           ~TickUpdateFails(tick, delta, is_upper), NEW t, NEW current, NEW growth,
           NEW lowerAfter \in Nat, NEW upperAfter \in Nat,
           lowerAfter = IF is_upper THEN lower ELSE lower + delta,
           upperAfter = IF is_upper THEN upper + delta ELSE upper
    PROVE  TickCounts(next_tick_modify_liquidity_update(tick, t, current, growth, delta, is_upper),
                      lowerAfter, upperAfter)
  <1> DEFINE gross == add_liquidity_delta(tick.liquidity_gross, delta)
             net == NextNet(tick, delta, is_upper)
             outside == IF tick.liquidity_gross > 0 THEN tick.growth_outside
                        ELSE IF current >= t THEN growth ELSE Zero
             r == next_tick_modify_liquidity_update(tick, t, current, growth, delta, is_upper)
  <1>1. r = IF delta = 0 THEN tick
            ELSE IF gross = 0 THEN DefaultTick
            ELSE [initialized |-> TRUE, liquidity_net |-> net, liquidity_gross |-> gross,
                  growth_outside |-> outside]
    BY DEF next_tick_modify_liquidity_update
  <1>2. CASE delta = 0
    <2>1. r = tick /\ lowerAfter = lower /\ upperAfter = upper
      BY <1>1, <1>2
    <2> QED BY <2>1
  <1>3. CASE delta # 0
    <2>1. gross # Err
      BY <1>3 DEF TickUpdateFails
    <2>2. tick.liquidity_gross = lower + upper /\ tick.liquidity_net = lower - upper
      BY DEF TickCounts
    <2>3. gross = lowerAfter + upperAfter
      <3>1. tick.liquidity_gross \in Int
        BY <2>2
      <3>2. gross = tick.liquidity_gross + delta
        BY <2>1, <3>1, AddLiquidity
      <3> QED BY <2>2, <3>2
    <2>4. net = lowerAfter - upperAfter
      BY <2>2 DEF NextNet
    <2> HIDE DEF gross, net, outside, r
    <2>5. CASE gross = 0
      <3>1. r = DefaultTick /\ lowerAfter = 0 /\ upperAfter = 0
        BY <1>1, <1>3, <2>3, <2>5
      <3>2. (lowerAfter + upperAfter > 0) = FALSE
        BY <3>1
      <3>3. r.initialized = FALSE /\ r.liquidity_gross = 0 /\ r.liquidity_net = 0
        BY <3>1 DEF DefaultTick
      <3>4. r.liquidity_gross = lowerAfter + upperAfter /\ r.liquidity_net = lowerAfter - upperAfter
        BY <3>1, <3>3
      <3> QED BY <3>1, <3>2, <3>3, <3>4, Zenon DEF TickCounts, r
    <2>6. CASE gross # 0
      <3>1. r = [initialized |-> TRUE, liquidity_net |-> net, liquidity_gross |-> gross,
                 growth_outside |-> outside]
        BY <1>1, <1>3, <2>6
      <3>2. (lowerAfter + upperAfter > 0) = TRUE
        BY <2>3, <2>6
      <3>3. r.initialized = TRUE /\ r.liquidity_gross = gross /\ r.liquidity_net = net
        BY <3>1
      <3> QED BY <2>3, <2>4, <3>2, <3>3, Zenon DEF TickCounts, r
    <2> QED BY <2>5, <2>6
  <1> QED BY <1>2, <1>3

-----------------------------------------------------------------------------
(* The books of the pool and of the swap in progress. *)

LiquidityInv ==
    /\ Ordered(positions)
    /\ Books(positions, pool.tick_current_index, pool.liquidity, ticks)
    /\ swap # NoSwap => Books(positions, swap.tick, swap.liquidity, swap.ticks)

\* calculate_modify_liquidity keeps the books: the ticks' and, when the range
\* holds the current tick, the pool's.
LEMMA ModifyBooks ==
    ASSUME PoolInv, LiquidityInv, NEW id \in Open, NEW delta \in Int, ModifyLiquidity(id, delta)
    PROVE  /\ Ordered(positions')
           /\ Books(positions', pool'.tick_current_index, pool'.liquidity, ticks')
  <1> DEFINE p == positions
             q == positions'
             lower == p[id].tick_lower_index
             upper == p[id].tick_upper_index
             current == pool.tick_current_index
             growth == next_whirlpool_reward_infos(pool, clock)
             inside == next_growths_inside(current, ticks, lower, upper, growth, Active(pool))
             next(t, is_upper) ==
                 next_tick_modify_liquidity_update(ticks[t], t, current, growth, delta, is_upper)
             L == pool.liquidity
             liquidity == next_whirlpool_liquidity(pool, lower, upper, delta)
  <1>1. /\ pool \in PoolRecords /\ ticks \in [Usable -> TickRecords] /\ p \in Accounts
        /\ Ordered(p) /\ L = LiquidityIn(p, InRange(p, current))
        /\ \A u \in Usable : TickBook(ticks[u], p, u)
    BY DEF PoolInv, TypeOK, Accounts, LiquidityInv, Books
  <1>2. q \in Accounts /\ pool'.tick_current_index = current
    BY ModifyTyped DEF Accounts
  <1>3. /\ liquidity # Err
        /\ ~TickUpdateFails(ticks[lower], delta, FALSE) /\ ~TickUpdateFails(ticks[upper], delta, TRUE)
        /\ add_liquidity_delta(p[id].liquidity, delta) # Err
    BY Zenon DEF ModifyLiquidity, ModifyFails
  <1>4. /\ q = [p EXCEPT ![id] = next_position_modify_liquidity_update(p[id], delta, inside)]
        /\ ticks' = [ticks EXCEPT ![lower] = next(lower, FALSE), ![upper] = next(upper, TRUE)]
        /\ pool' = [pool EXCEPT !.growth = growth, !.reward_last_updated_timestamp = clock,
                                !.liquidity = liquidity]
    BY Zenon DEF ModifyLiquidity
  <1>5. id \in Held(p) /\ id \in PositionIds /\ p[id] \in PositionRecords
    BY OpenTyped DEF Open, Held
  <1>6. /\ lower \in Usable /\ upper \in Usable /\ lower \in Int /\ upper \in Int /\ lower < upper
        /\ p[id].liquidity \in Nat
    BY <1>1, <1>5, HeldTyped DEF Ordered
  <1> HIDE DEF inside, growth
  <1>7. /\ q[id].tick_lower_index = lower /\ q[id].tick_upper_index = upper
        /\ q[id].liquidity = p[id].liquidity + delta
    <2> DEFINE r == next_position_modify_liquidity_update(p[id], delta, inside)
    <2>1. q[id] = r
      BY <1>1, <1>4, <1>5 DEF Accounts
    <2>2. /\ r.tick_lower_index = lower /\ r.tick_upper_index = upper
          /\ r.liquidity = add_liquidity_delta(p[id].liquidity, delta)
      BY <1>5 DEF next_position_modify_liquidity_update, PositionRecords
    <2>3. add_liquidity_delta(p[id].liquidity, delta) = p[id].liquidity + delta
      <3>1. p[id].liquidity \in Int
        BY <1>6
      <3> QED BY <1>3, <3>1, AddLiquidity
    <2> QED BY <2>1, <2>2, <2>3
  <1>8. \A x \in PositionIds : x # id => q[x] = p[x]
    BY <1>1, <1>4 DEF Accounts
  <1>9. Held(q) = Held(p)
    <2>1. q[id] \in PositionRecords
      <3>1. q[id] # NoPosition
        <4>1. inside \in [Kinds -> U128]
          <5>1. growth \in [Kinds -> U128]
            <6>1. ~InvalidTimestamp(pool, clock) /\ clock \in Nat
              BY Zenon DEF ModifyLiquidity, ModifyFails, PoolInv, TypeOK
            <6> QED BY <1>1, <6>1, GrowthTyped DEF growth
          <5> QED BY <1>1, <1>6, <5>1, InsideTyped DEF inside
        <4>2. next_position_modify_liquidity_update(p[id], delta, inside) \in PositionRecords
          BY <1>3, <1>5, <4>1, PositionUpdateTyped
        <4> QED BY <1>1, <1>4, <1>5, <4>2, PositionAssumption DEF Accounts
      <3> QED BY <1>2, <1>5, <3>1 DEF Accounts
    <2> QED BY <1>5, <1>8, <2>1, PositionAssumption DEF Held
  <1> HIDE DEF p, q
  <1>10. \A t : InRange(q, t) = InRange(p, t) /\ From(q, t) = From(p, t) /\ UpTo(q, t) = UpTo(p, t)
    BY <1>7, <1>8, <1>9 DEF InRange, From, UpTo, Held, lower, upper
  <1>11. Ordered(q)
    BY <1>1, <1>6, <1>7, <1>8, <1>9 DEF Ordered, Held
  <1>12. ASSUME NEW ids \in SUBSET Held(p)
         PROVE  /\ LiquidityIn(p, ids) \in Nat /\ LiquidityIn(q, ids) \in Nat
                /\ LiquidityIn(q, ids) = LiquidityIn(p, ids) + (IF id \in ids THEN delta ELSE 0)
    <2>1. ids \in SUBSET Held(p) /\ ids \in SUBSET Held(q)
      BY <1>9
    <2>2. \A x \in ids : x # id => q[x].liquidity = p[x].liquidity
      BY <1>8 DEF Held
    <2>3. LiquidityIn(q, ids) = LiquidityIn(p, ids) + (Share(q, ids, id) - Share(p, ids, id))
      BY <1>1, <1>2, <1>5, <2>1, <2>2, LiquidityChanged
    <2>4. Share(q, ids, id) - Share(p, ids, id) = IF id \in ids THEN delta ELSE 0
      BY <1>6, <1>7 DEF Share
    <2>5. LiquidityIn(p, ids) \in Nat /\ LiquidityIn(q, ids) \in Nat
      BY <1>1, <1>2, <2>1, LiquidityNat
    <2> QED BY <2>3, <2>4, <2>5
  <1>13. liquidity = LiquidityIn(q, InRange(q, current))
    <2>1. id \in InRange(p, current) <=> lower <= current /\ current < upper
      BY <1>5 DEF InRange, lower, upper
    <2>2. L \in Int /\ current \in Int
      BY <1>1, Unsigned, TickIndexAssumption DEF PoolRecords
    <2>3. liquidity = IF current < upper /\ current >= lower THEN add_liquidity_delta(L, delta) ELSE L
      BY DEF next_whirlpool_liquidity
    <2>4. LiquidityIn(q, InRange(p, current)) = L + (IF id \in InRange(p, current) THEN delta ELSE 0)
      BY <1>1, <1>12, RangesHeld
    <2> HIDE DEF L, current, lower, upper, liquidity
    <2>5. current < upper /\ current >= lower => add_liquidity_delta(L, delta) = L + delta
      BY <1>3, <2>2, <2>3, AddLiquidity
    <2>6. id \in InRange(p, current) <=> current < upper /\ current >= lower
      BY <1>6, <2>1, <2>2
    <2>7. liquidity = L + (IF id \in InRange(p, current) THEN delta ELSE 0)
      <3>1. CASE current < upper /\ current >= lower
        BY <2>3, <2>5, <2>6, <3>1
      <3>2. CASE ~(current < upper /\ current >= lower)
        BY <2>2, <2>3, <2>6, <3>2
      <3> QED BY <3>1, <3>2
    <2> QED BY <1>10, <2>4, <2>7
  <1>14. ASSUME NEW u \in Usable PROVE TickBook(ticks'[u], q, u)
    <2> DEFINE a == LiquidityIn(p, From(p, u))
               b == LiquidityIn(p, UpTo(p, u))
               c == LiquidityIn(q, From(q, u))
               d == LiquidityIn(q, UpTo(q, u))
    <2>1. /\ a \in Nat /\ b \in Nat /\ c \in Nat /\ d \in Nat
          /\ c = a + (IF id \in From(p, u) THEN delta ELSE 0)
          /\ d = b + (IF id \in UpTo(p, u) THEN delta ELSE 0)
      BY <1>10, <1>12, RangesHeld
    <2>2. (id \in From(p, u) <=> u = lower) /\ (id \in UpTo(p, u) <=> u = upper)
      BY <1>5 DEF From, UpTo, lower, upper
    <2>3. TickCounts(ticks[u], a, b) /\ ticks[u] \in TickRecords
      BY <1>1 DEF TickBook
    <2> HIDE DEF a, b, c, d, lower, upper
    <2>4. TickCounts(ticks'[u], c, d)
      <3>1. CASE u = lower
        <4>1. u # upper
          BY <1>6, <3>1
        <4>2. ticks'[u] = next(u, FALSE)
          BY <1>1, <1>4, <1>6, <3>1, <4>1
        <4>3. c = a + delta /\ d = b /\ FALSE \in BOOLEAN
          BY <2>1, <2>2, <3>1, <4>1
        <4>4. TickCounts(next(u, FALSE), c, d)
          BY <1>3, <2>1, <2>3, <3>1, <4>3, TickUpdateCounts
        <4> QED BY <4>2, <4>4
      <3>2. CASE u = upper
        <4>1. u # lower
          BY <1>6, <3>2
        <4>2. ticks'[u] = next(u, TRUE)
          BY <1>1, <1>4, <1>6, <3>2, <4>1
        <4>3. c = a /\ d = b + delta /\ TRUE \in BOOLEAN
          BY <2>1, <2>2, <3>2, <4>1
        <4>4. TickCounts(next(u, TRUE), c, d)
          BY <1>3, <2>1, <2>3, <3>2, <4>3, TickUpdateCounts
        <4> QED BY <4>2, <4>4
      <3>3. CASE u # lower /\ u # upper
        <4>1. ticks'[u] = ticks[u]
          BY <1>1, <1>4, <3>3
        <4>2. c = a /\ d = b
          BY <2>1, <2>2, <3>3
        <4> QED BY <2>3, <4>1, <4>2
      <3> QED BY <3>1, <3>2, <3>3
    <2> QED BY <2>4 DEF TickBook, c, d
  <1>15. pool'.liquidity = liquidity
    BY <1>1, <1>4 DEF PoolRecords
  <1> QED BY <1>2, <1>11, <1>13, <1>14, <1>15 DEF Books, q

\* Positions count only for their liquidity and its range.
Liquid(p, id) == id \in Held(p) /\ p[id].liquidity # 0

Alike(p, q, id) ==
    /\ Liquid(p, id) <=> Liquid(q, id)
    /\ Liquid(p, id) => /\ p[id].liquidity = q[id].liquidity
                        /\ p[id].tick_lower_index = q[id].tick_lower_index
                        /\ p[id].tick_upper_index = q[id].tick_upper_index

LEMMA SameBooks ==
    ASSUME NEW p \in Accounts, NEW q \in Accounts, \A id \in PositionIds : Alike(p, q, id),
           NEW t, NEW liquidity, NEW tks, Books(p, t, liquidity, tks)
    PROVE  Books(q, t, liquidity, tks)
  <1>1. ASSUME NEW A \in SUBSET Held(p), NEW B \in SUBSET Held(q),
               \A id \in PositionIds : Liquid(p, id) => (id \in A <=> id \in B)
        PROVE  LiquidityIn(p, A) = LiquidityIn(q, B)
    <2>1. ASSUME NEW id \in PositionIds PROVE Share(p, A, id) = Share(q, B, id)
      <3>1. Alike(p, q, id) /\ (Liquid(p, id) => (id \in A <=> id \in B))
        BY <1>1
      <3>2. (id \in A => id \in Held(p)) /\ (id \in B => id \in Held(q))
        BY <1>1
      <3> QED BY <3>1, <3>2 DEF Share, Alike, Liquid
    <2>2. Shares(p, A) = Shares(q, B)
      BY <2>1 DEF Shares
    <2> QED BY <1>1, <2>2, LiquidityTotal
  <1>2. ASSUME NEW id \in PositionIds, Liquid(p, id)
        PROVE  /\ id \in Held(p) /\ id \in Held(q)
               /\ p[id].tick_lower_index = q[id].tick_lower_index
               /\ p[id].tick_upper_index = q[id].tick_upper_index
    BY <1>2 DEF Alike, Liquid
  <1>3. ASSUME NEW u
        PROVE  /\ LiquidityIn(p, InRange(p, u)) = LiquidityIn(q, InRange(q, u))
               /\ LiquidityIn(p, From(p, u)) = LiquidityIn(q, From(q, u))
               /\ LiquidityIn(p, UpTo(p, u)) = LiquidityIn(q, UpTo(q, u))
    <2>1. \A id \in PositionIds : Liquid(p, id) =>
            /\ id \in InRange(p, u) <=> id \in InRange(q, u)
            /\ id \in From(p, u) <=> id \in From(q, u)
            /\ id \in UpTo(p, u) <=> id \in UpTo(q, u)
      BY <1>2 DEF InRange, From, UpTo
    <2>2. /\ InRange(p, u) \in SUBSET Held(p) /\ InRange(q, u) \in SUBSET Held(q)
          /\ From(p, u) \in SUBSET Held(p) /\ From(q, u) \in SUBSET Held(q)
          /\ UpTo(p, u) \in SUBSET Held(p) /\ UpTo(q, u) \in SUBSET Held(q)
      BY RangesHeld
    <2>3. LiquidityIn(p, InRange(p, u)) = LiquidityIn(q, InRange(q, u))
      BY <1>1, <2>1, <2>2
    <2>4. LiquidityIn(p, From(p, u)) = LiquidityIn(q, From(q, u))
      BY <1>1, <2>1, <2>2
    <2>5. LiquidityIn(p, UpTo(p, u)) = LiquidityIn(q, UpTo(q, u))
      BY <1>1, <2>1, <2>2
    <2> QED BY <2>3, <2>4, <2>5
  <1> QED BY <1>3 DEF Books, TickBook

\* The tick that an iteration finds, and where it leaves the current tick: what
\* is initialised and passed is the tick found, and it is crossed.
LEMMA IterationPasses ==
    ASSUME NEW s \in SwapRecords, NEW price \in Nat,
           SwapRuns(s, price), Looping(s), pool \in PoolRecords, NEW found, found = NextTick(s),
           NEW c, c = Computation(s, found), IterationSucceeds(s, found, c),
           NEW after, after = Iteration(s, found, c)
    PROVE  LET t == found.tick_index
               tick == s.tick
               left == s.a_to_b
               tks == s.ticks
           IN  /\ t \in Int /\ tick \in Int /\ after.tick \in Int /\ left \in BOOLEAN
               /\ IF left THEN t <= tick ELSE tick < t
               /\ \A u \in Initialized(tks) : IF left THEN u <= tick => u <= t ELSE tick < u => t <= u
               /\ IF left THEN after.tick <= tick ELSE tick <= after.tick
               /\ ~Reaches(found, c) => IF left THEN t <= after.tick ELSE after.tick < t
               /\ Reaches(found, c) => after.tick = TickAfter(t, left)
               /\ Crosses(s, found, c) => Reaches(found, c) /\ t \in Usable /\ t \in Initialized(tks)
               /\ Reaches(found, c) /\ t \in Initialized(tks) => Crosses(s, found, c)
               /\ \A u \in Initialized(tks) :
                     IF Crosses(s, found, c) /\ u = t THEN (tick < u) <=> ~(after.tick < u)
                                                     ELSE (tick < u) <=> (after.tick < u)
  <1> DEFINE t == found.tick_index
             tick == s.tick
             left == s.a_to_b
             tks == s.ticks
  <1>1. ~found.error
    BY Zenon DEF IterationSucceeds
  <1>2. Sound(found, s.arrays, Initialized(tks), tick, left, s.array_index)
    BY <1>1, SearchOfSwap
  <1>3. tick \in Int /\ left \in BOOLEAN
    BY TickIndexAssumption DEF SwapRecords
  <1>4. /\ t \in Int
        /\ IF left THEN t <= tick ELSE tick < t
        /\ \A u \in Initialized(tks) : IF left THEN u <= tick => u <= t ELSE tick < u => t <= u
        /\ t \in Initialized(tks) => has_tick(s.arrays[found.array_index], t, TickSpacing)
    BY <1>2 DEF Sound
  <1>5. /\ after.tick \in Int
        /\ IF left THEN after.tick <= tick ELSE tick <= after.tick
        /\ ~Reaches(found, c) => IF left THEN t <= after.tick ELSE after.tick < t
    <2>1. /\ after.tick \in MIN_TICK_INDEX - 1..MAX_TICK_INDEX
          /\ IF s.a_to_b THEN after.tick <= s.tick ELSE s.tick <= after.tick
          /\ ~Reaches(found, c) => IF s.a_to_b THEN found.tick_index <= after.tick
                                              ELSE after.tick < found.tick_index
      BY IterationMoves
    <2> QED BY <2>1, TickIndexAssumption
  <1>6. Reaches(found, c) => after.tick = TickAfter(t, left)
    BY DEF Iteration, SwapRecords
  <1>7. Crosses(s, found, c) => Reaches(found, c) /\ t \in Usable /\ t \in Initialized(tks)
    <2> SUFFICES ASSUME Crosses(s, found, c)
                 PROVE  Reaches(found, c) /\ t \in Usable /\ t \in Initialized(tks)
      OBVIOUS
    <2>1. /\ Reaches(found, c) /\ tks[t].initialized
          /\ check_is_usable_tick(t, TickSpacing)
      BY DEF Crosses, has_tick
    <2>2. t \in Usable
      BY <1>4, <2>1, TickIndexAssumption DEF Usable, check_is_usable_tick, check_is_out_of_bounds
    <2> QED BY <2>1, <2>2 DEF Initialized
  <1>8. Reaches(found, c) /\ t \in Initialized(tks) => Crosses(s, found, c)
    BY <1>4 DEF Crosses, Initialized
  \* Only the tick that is crossed changes sides.
  <1> DEFINE crossed(u) == Crosses(s, found, c) /\ u = t
             y == after.tick
  <1>9. ASSUME NEW u \in Initialized(tks)
        PROVE  IF crossed(u) THEN (tick < u) <=> ~(y < u) ELSE (tick < u) <=> (y < u)
    <2>1. u \in Int
      BY TickIndexAssumption DEF Initialized, Usable
    <2>2. Reaches(found, c) => y = IF left THEN t - 1 ELSE t
      BY <1>6 DEF TickAfter
    <2>3. crossed(u) <=> Reaches(found, c) /\ u = t
      BY <1>7, <1>8
    <2> HIDE DEF crossed, t, tick, left, tks, y
    <2>4. /\ t \in Int /\ y \in Int /\ tick \in Int /\ left \in BOOLEAN
          /\ IF left THEN t <= tick ELSE tick < t
          /\ IF left THEN u <= tick => u <= t ELSE tick < u => t <= u
          /\ IF left THEN y <= tick ELSE tick <= y
          /\ ~Reaches(found, c) => IF left THEN t <= y ELSE y < t
      BY <1>3, <1>4, <1>5 DEF y
    <2>5. CASE left
      BY <2>1, <2>2, <2>3, <2>4, <2>5
    <2>6. CASE ~left
      BY <2>1, <2>2, <2>3, <2>4, <2>6
    <2> QED BY <2>5, <2>6
  <1> QED BY <1>3, <1>4, <1>5, <1>6, <1>7, <1>8, <1>9

\* One iteration of a swap keeps its books, whether it crosses a tick, reaches
\* one that is not initialised or stops short of it, in both directions.
LEMMA IterationBooks ==
    ASSUME NEW p \in Accounts, Ordered(p), NEW s \in SwapRecords, NEW price \in Nat,
           SwapRuns(s, price), Looping(s), pool \in PoolRecords, NEW found, found = NextTick(s),
           NEW c, c = Computation(s, found), IterationSucceeds(s, found, c),
           NEW after, after = Iteration(s, found, c),
           Books(p, s.tick, s.liquidity, s.ticks)
    PROVE  Books(p, after.tick, after.liquidity, after.ticks)
  <1> DEFINE t == found.tick_index
             tick == s.tick
             left == s.a_to_b
             L == s.liquidity
             tks == s.ticks
             net == tks[t].liquidity_net
             In(u) == LiquidityIn(p, InRange(p, u))
  <1>1. LiquidityAfter(s, found, c) # Err
    BY Zenon DEF IterationSucceeds
  <1>3. /\ tick \in Int /\ left \in BOOLEAN /\ L \in U128 /\ L \in Int
        /\ tks \in [Usable -> TickRecords]
    BY TickIndexAssumption, Unsigned DEF SwapRecords
  <1>4. /\ t \in Int
        /\ IF left THEN t <= tick ELSE tick < t
        /\ \A u \in Initialized(tks) : IF left THEN u <= tick => u <= t ELSE tick < u => t <= u
    BY IterationPasses
  <1>5. /\ after.tick \in Int
        /\ IF left THEN after.tick <= tick ELSE tick <= after.tick
        /\ ~Reaches(found, c) => IF left THEN t <= after.tick ELSE after.tick < t
        /\ Reaches(found, c) => after.tick = TickAfter(t, left)
    BY IterationPasses
  <1>6. after.liquidity = LiquidityAfter(s, found, c) /\ after.ticks = TicksAfter(s, found, c)
    BY DEF Iteration, SwapRecords
  <1>7. L = In(tick) /\ \A u \in Usable : TickBook(tks[u], p, u)
    BY DEF Books
  <1>8. Initialized(tks) \subseteq Int
    BY TickIndexAssumption DEF Initialized, Usable
  <1>9. Crosses(s, found, c) => Reaches(found, c) /\ t \in Usable /\ t \in Initialized(tks)
    BY IterationPasses
  <1>10. Reaches(found, c) /\ t \in Initialized(tks) => Crosses(s, found, c)
    BY IterationPasses
  <1> HIDE DEF tick, left, L
  <1>11. In(after.tick) = after.liquidity
    <2>1. CASE Crosses(s, found, c)
      <3> DEFINE a == LiquidityIn(p, From(p, t))
                 b == LiquidityIn(p, UpTo(p, t))
      <3>1. /\ Reaches(found, c) /\ t \in Usable /\ t \in Initialized(tks)
            /\ after.tick = TickAfter(t, left)
        BY <1>5, <1>9, <2>1
      <3>2. net = a - b
        BY <1>7, <3>1 DEF TickBook, TickCounts
      <3>3. a \in Nat /\ b \in Nat /\ In(t) \in Nat /\ In(t - 1) \in Nat
        BY RangesHeld, LiquidityNat
      <3>4. In(t) + b = In(t - 1) + a
        BY <1>4, RangeAtTick
      <3>5. L = IF left THEN In(t) ELSE In(t - 1)
        <4>1. CASE left
          <5>1. \A u \in Initialized(tks) : u <= tick => u <= t
            BY <1>4, <4>1
          <5>2. In(t) = In(tick)
            BY <1>3, <1>4, <1>7, <4>1, <5>1, RangeQuiet
          <5> QED BY <1>7, <4>1, <5>2
        <4>2. CASE ~left
          <5>1. tick <= t - 1 /\ t - 1 \in Int
            BY <1>3, <1>4, <4>2
          <5>2. \A u \in Initialized(tks) : u <= t - 1 => u <= tick
            BY <1>3, <1>4, <1>8, <4>2
          <5>3. In(tick) = In(t - 1)
            BY <1>3, <1>7, <5>1, <5>2, RangeQuiet
          <5> QED BY <1>7, <4>2, <5>3
        <4> QED BY <4>1, <4>2
      <3>6. after.liquidity = add_liquidity_delta(L, IF left THEN -net ELSE net)
        BY <1>6, <2>1 DEF LiquidityAfter, L, left
      <3> HIDE DEF a, b, In, net, t
      <3>7. net \in Int /\ (IF left THEN -net ELSE net) \in Int
        BY <3>2, <3>3
      <3>8. after.liquidity = L + (IF left THEN -net ELSE net)
        BY <1>1, <1>3, <1>6, <3>6, <3>7, AddLiquidity
      <3>9. after.liquidity = IF left THEN In(t - 1) ELSE In(t)
        BY <3>2, <3>3, <3>4, <3>5, <3>8
      <3>10. after.tick = IF left THEN t - 1 ELSE t
        BY <3>1 DEF TickAfter
      <3> QED BY <3>9, <3>10
    <2>2. CASE ~Crosses(s, found, c)
      <3>1. after.liquidity = L
        BY <1>6, <2>2 DEF LiquidityAfter, L
      <3>2. CASE left
        <4>1. \A u \in Initialized(tks) : u <= tick => u <= after.tick
          <5> SUFFICES ASSUME NEW u \in Initialized(tks), u <= tick PROVE u <= after.tick
            OBVIOUS
          <5>1. u <= t /\ u \in Int
            BY <1>4, <1>8, <3>2
          <5>2. Reaches(found, c) => after.tick = t - 1 /\ u # t
            BY <1>5, <1>10, <2>2, <3>2 DEF TickAfter
          <5>3. ~Reaches(found, c) => t <= after.tick
            BY <1>5, <3>2
          <5> HIDE DEF t
          <5> QED BY <1>4, <1>5, <5>1, <5>2, <5>3
        <4>2. In(after.tick) = In(tick)
          BY <1>3, <1>5, <1>7, <3>2, <4>1, RangeQuiet
        <4> QED BY <1>7, <3>1, <4>2
      <3>3. CASE ~left
        <4>1. \A u \in Initialized(tks) : u <= after.tick => u <= tick
          <5> SUFFICES ASSUME NEW u \in Initialized(tks), u <= after.tick, tick < u PROVE FALSE
            BY <1>3, <1>8
          <5>1. t <= u /\ u \in Int
            BY <1>4, <1>8, <3>3
          <5>2. Reaches(found, c) => after.tick = t /\ u # t
            BY <1>5, <1>10, <2>2, <3>3 DEF TickAfter
          <5>3. ~Reaches(found, c) => after.tick < t
            BY <1>5, <3>3
          <5> HIDE DEF t
          <5> QED BY <1>4, <1>5, <5>1, <5>2, <5>3
        <4>2. In(tick) = In(after.tick)
          BY <1>3, <1>5, <1>7, <3>3, <4>1, RangeQuiet
        <4> QED BY <1>7, <3>1, <4>2
      <3> QED BY <3>2, <3>3
    <2> QED BY <2>1, <2>2
  <1>12. ASSUME NEW u \in Usable PROVE TickBook(after.ticks[u], p, u)
    <2>1. CASE Crosses(s, found, c) /\ u = t
      <3> DEFINE r == next_tick_cross_update(tks[t], GrowthAfter(s, c), Active(pool))
      <3>1. after.ticks[u] = r
        BY <1>3, <1>6, <2>1 DEF TicksAfter
      <3>2. tks[t] \in TickRecords /\ tks[t].initialized
        BY <1>3, <1>9, <2>1 DEF Crosses
      <3>3. /\ r.initialized = tks[t].initialized /\ r.liquidity_net = tks[t].liquidity_net
            /\ r.liquidity_gross = tks[t].liquidity_gross
        BY <3>2 DEF next_tick_cross_update, TickRecords
      <3>4. TickBook(tks[t], p, t)
        BY <1>7, <2>1
      <3> HIDE DEF r
      <3> QED BY <2>1, <3>1, <3>2, <3>3, <3>4, Zenon DEF TickBook, TickCounts
    <2>2. CASE ~(Crosses(s, found, c) /\ u = t)
      <3>1. after.ticks[u] = tks[u]
        BY <1>3, <1>6, <2>2 DEF TicksAfter
      <3> QED BY <1>7, <3>1
    <2> QED BY <2>1, <2>2
  <1> QED BY <1>11, <1>12 DEF Books

-----------------------------------------------------------------------------
(* Every step keeps the books. *)

LEMMA LiquidityCreated == Created => LiquidityInv
  <1> SUFFICES ASSUME Created PROVE LiquidityInv
    OBVIOUS
  <1> DEFINE p == positions
  <1>1. /\ pool.liquidity = 0 /\ ticks = [t \in Usable |-> DefaultTick] /\ swap = NoSwap
        /\ p = [id \in PositionIds |-> NoPosition]
    BY DEF Created, InitializePool
  <1>2. Held(p) = {} /\ p \in Accounts
    BY <1>1 DEF Held, Accounts
  <1> HIDE DEF p
  <1>3. LiquidityIn(p, {}) = 0
    <2>1. {} \in SUBSET Held(p)
      OBVIOUS
    <2>2. LiquidityIn(p, {}) = Total(Shares(p, {}), PositionIds)
      BY <1>2, <2>1, LiquidityTotal
    <2>3. \A id \in PositionIds : Shares(p, {})[id] = 0
      BY DEF Shares, Share
    <2>4. Total(Shares(p, {}), PositionIds) = Total(Shares(p, {}), {})
      BY <2>3, PositionAssumption, TotalPart
    <2> QED BY <2>2, <2>4, TotalEmpty
  <1>4. \A t : InRange(p, t) = {} /\ From(p, t) = {} /\ UpTo(p, t) = {}
    BY <1>2 DEF InRange, From, UpTo
  <1>5. ASSUME NEW t \in Usable PROVE TickBook(ticks[t], p, t)
    <2>1. ticks[t] = DefaultTick
      BY <1>1
    <2>2. (0 + 0 > 0) = FALSE
      OBVIOUS
    <2>3. TickCounts(DefaultTick, 0, 0)
      <3>1. /\ DefaultTick.initialized = FALSE
            /\ DefaultTick.liquidity_gross = 0 + 0 /\ DefaultTick.liquidity_net = 0 - 0
        BY DEF DefaultTick
      <3> QED BY <2>2, <3>1, Zenon DEF TickCounts
    <2> QED BY <1>3, <1>4, <2>1, <2>3 DEF TickBook
  <1>6. Books(p, pool.tick_current_index, pool.liquidity, ticks)
    BY <1>1, <1>3, <1>4, <1>5 DEF Books
  <1>7. Ordered(p)
    BY <1>2 DEF Ordered
  <1> QED BY <1>1, <1>6, <1>7 DEF LiquidityInv, p

\* Steps that leave alone what the books are about.
LEMMA QuietBooks ==
    ASSUME LiquidityInv, swap = NoSwap, swap' = swap, ticks' = ticks, positions' = positions,
           pool'.tick_current_index = pool.tick_current_index, pool'.liquidity = pool.liquidity
    PROVE  LiquidityInv'
  BY DEF LiquidityInv

\* Steps that change one account and leave its liquidity alone, if it has any.
LEMMA AccountBooks ==
    ASSUME PoolInv, PoolInv', LiquidityInv, swap = NoSwap, NEW id \in PositionIds,
           UNCHANGED <<pool, ticks, swap>>,
           \A x \in PositionIds : x # id => positions'[x] = positions[x],
           Alike(positions, positions', id),
           id \in Held(positions') =>
               positions'[id].tick_lower_index < positions'[id].tick_upper_index
    PROVE  LiquidityInv'
  <1> DEFINE p == positions
             q == positions'
  <1>1. p \in Accounts /\ q \in Accounts
    BY DEF PoolInv, TypeOK, Accounts
  <1>2. \A x \in PositionIds : Alike(p, q, x)
    BY DEF Alike, Liquid, Held
  <1>3. Books(q, pool.tick_current_index, pool.liquidity, ticks)
    BY <1>1, <1>2, SameBooks DEF LiquidityInv
  <1>4. Ordered(q)
    BY DEF Ordered, Held, LiquidityInv
  <1> QED BY <1>3, <1>4 DEF LiquidityInv

LEMMA PositionBooks ==
    ASSUME PoolInv, PoolInv', LiquidityInv, PositionNext
    PROVE  LiquidityInv'
  <1>1. PICK id \in PositionIds :
            \/ \E range \in RangeInputs : OpenPosition(id, range[1], range[2])
            \/ ClosePosition(id)
            \/ \E amount \in LiquidityInputs, limits \in [Tokens -> TokenLimits] :
                  \/ IncreaseLiquidity(id, amount, limits)
                  \/ DecreaseLiquidity(id, amount, limits)
            \/ UpdateFeesAndRewards(id)
            \/ CollectFees(id)
            \/ \E r \in Rewards : CollectReward(id, r)
    BY DEF PositionNext
  <1>2. positions \in Accounts /\ positions' \in Accounts /\ Ordered(positions)
    BY DEF PoolInv, TypeOK, Accounts, LiquidityInv
  <1>3. ASSUME NEW lower, NEW upper, OpenPosition(id, lower, upper) PROVE LiquidityInv'
    <2>1. /\ swap = NoSwap /\ lower < upper /\ id \notin Held(positions)
          /\ positions' = [positions EXCEPT ![id] = DefaultPosition(lower, upper)]
          /\ UNCHANGED <<pool, ticks, swap>>
      BY <1>3 DEF OpenPosition, Open, Held
    <2>2. /\ positions'[id] = DefaultPosition(lower, upper)
          /\ \A x \in PositionIds : x # id => positions'[x] = positions[x]
      BY <1>2, <2>1 DEF Accounts
    <2>3. Alike(positions, positions', id)
      BY <2>1, <2>2 DEF Alike, Liquid, DefaultPosition
    <2>4. positions'[id].tick_lower_index < positions'[id].tick_upper_index
      BY <2>1, <2>2 DEF DefaultPosition
    <2> QED BY <2>1, <2>2, <2>3, <2>4, AccountBooks
  <1>4. CASE ClosePosition(id)
    <2>1. /\ swap = NoSwap /\ positions[id].liquidity = 0
          /\ positions' = [positions EXCEPT ![id] = NoPosition]
          /\ UNCHANGED <<pool, ticks, swap>>
      BY <1>4 DEF ClosePosition, is_position_empty
    <2>2. /\ positions'[id] = NoPosition
          /\ \A x \in PositionIds : x # id => positions'[x] = positions[x]
      BY <1>2, <2>1 DEF Accounts
    <2>3. Alike(positions, positions', id) /\ id \notin Held(positions')
      BY <2>1, <2>2 DEF Alike, Liquid, Held
    <2> QED BY <2>1, <2>2, <2>3, AccountBooks
  \* The instructions that settle and change liquidity.
  <1>5. ASSUME NEW delta \in Int, swap = NoSwap, swap' = swap, id \in Open,
               ModifyLiquidity(id, delta)
        PROVE  LiquidityInv'
    BY <1>5, ModifyBooks DEF LiquidityInv
  <1>6. ASSUME NEW amount \in LiquidityInputs, NEW limits,
               IncreaseLiquidity(id, amount, limits) \/ DecreaseLiquidity(id, amount, limits)
        PROVE  LiquidityInv'
    <2> DEFINE d(positive) == convert_to_liquidity_delta(amount, positive)
    <2>1. d(TRUE) \in Int /\ d(FALSE) \in Int
      BY InputAssumption, LiquidityDelta
    <2>2. /\ swap = NoSwap /\ swap' = swap /\ id \in Open
          /\ ModifyLiquidity(id, d(TRUE)) \/ ModifyLiquidity(id, d(FALSE))
      BY <1>6 DEF IncreaseLiquidity, DecreaseLiquidity
    <2> HIDE DEF d
    <2> QED BY <1>5, <2>1, <2>2
  <1>7. CASE UpdateFeesAndRewards(id)
    <2>1. swap = NoSwap /\ swap' = swap /\ id \in Open /\ ModifyLiquidity(id, 0)
      BY <1>7 DEF UpdateFeesAndRewards
    <2> QED BY <1>5, <2>1
  \* The instructions that only change what is owed.
  <1>8. ASSUME swap = NoSwap, id \in Open, NEW owed \in [Kinds -> U64],
               positions' = [positions EXCEPT ![id].owed = owed],
               UNCHANGED <<pool, ticks, swap>>
        PROVE  LiquidityInv'
    <2> DEFINE p == positions[id]
               q == [p EXCEPT !.owed = owed]
    <2>1. p \in PositionRecords /\ id \in Held(positions)
      BY <1>8, OpenTyped DEF Open, Held
    <2>2. positions'[id] = q /\ \A x \in PositionIds : x # id => positions'[x] = positions[x]
      BY <1>2, <1>8 DEF Accounts
    <2>3. /\ q \in PositionRecords /\ q.liquidity = p.liquidity
          /\ q.tick_lower_index = p.tick_lower_index /\ q.tick_upper_index = p.tick_upper_index
      BY <1>8, <2>1 DEF PositionRecords
    <2>4. id \in Held(positions')
      BY <2>2, <2>3, PositionAssumption DEF Held
    <2>5. Alike(positions, positions', id)
      BY <2>1, <2>2, <2>3, <2>4 DEF Alike, Liquid
    <2>6. positions'[id].tick_lower_index < positions'[id].tick_upper_index
      BY <1>2, <2>1, <2>2, <2>3 DEF Ordered
    <2> QED BY <1>8, <2>2, <2>5, <2>6, AccountBooks
  <1>9. CASE CollectFees(id)
    <2> DEFINE owed == [k \in Kinds |-> IF k \in Tokens THEN 0 ELSE positions[id].owed[k]]
    <2>1. /\ swap = NoSwap /\ id \in Open /\ UNCHANGED <<pool, ticks, swap>>
          /\ positions' = [positions EXCEPT ![id].owed = owed]
      BY <1>9 DEF CollectFees
    <2>2. positions[id].owed \in [Kinds -> U64]
      BY <2>1, OpenTyped DEF PositionRecords
    <2>3. owed \in [Kinds -> U64]
      BY <2>2, Unsigned
    <2> HIDE DEF owed
    <2> QED BY <1>8, <2>1, <2>3
  <1>10. ASSUME NEW r \in Rewards, CollectReward(id, r) PROVE LiquidityInv'
    <2> DEFINE c == calculate_collect_reward(positions[id].owed[r], vault[r])
               owed == [positions[id].owed EXCEPT ![r] = c.owed]
    <2>1. /\ swap = NoSwap /\ id \in Open /\ UNCHANGED <<pool, ticks, swap>>
          /\ positions' = [positions EXCEPT ![id].owed = owed]
      BY <1>10 DEF CollectReward
    <2>2. positions[id].owed \in [Kinds -> U64] /\ r \in Kinds
      BY <2>1, OpenTyped, KindSets DEF PositionRecords
    <2>3. c.owed \in U64
      <3>1. positions[id].owed[r] \in U64 /\ vault[r] \in 0..Supply
        BY <2>2 DEF PoolInv, TypeOK
      <3> QED BY <3>1, RewardCollected
    <2> HIDE DEF c
    <2>4. owed \in [Kinds -> U64]
      BY <2>2, <2>3
    <2> HIDE DEF owed
    <2> QED BY <1>8, <2>1, <2>4
  <1> QED BY <1>1, <1>3, <1>4, <1>6, <1>7, <1>9, <1>10

LEMMA SwapBooks ==
    ASSUME PoolInv, PoolInv', LiquidityInv, SwapNext
    PROVE  LiquidityInv'
  <1>1. positions \in Accounts /\ Ordered(positions)
    BY DEF PoolInv, TypeOK, Accounts, LiquidityInv
  \* The swap in progress is thrown away.
  <1>2. ASSUME swap' = NoSwap, UNCHANGED <<pool, tick_arrays, ticks, positions, vault, clock>>
        PROVE  LiquidityInv'
    BY <1>2 DEF LiquidityInv
  <1>3. CASE swap # NoSwap /\ SwapSearches(NextTick(swap))
    <2> DEFINE found == NextTick(swap)
               c == Computation(swap, found)
               after == Iteration(swap, found, c)
    <2>1. SwapIterates(found, c) \/ SwapFails(found, c)
      BY <1>3, Zenon DEF SwapSearches, SwapLoops
    <2>2. CASE SwapIterates(found, c)
      <3>1. /\ Looping(swap) /\ IterationSucceeds(swap, found, c) /\ swap' = after
            /\ UNCHANGED <<pool, ticks, positions>>
        BY <2>2 DEF SwapIterates
      <3>2. /\ swap \in SwapRecords /\ pool \in PoolRecords /\ SwapRuns(swap, pool.sqrt_price)
            /\ pool.sqrt_price \in Nat
        BY <1>3, SwapTyped
      <3>3. Books(positions, swap.tick, swap.liquidity, swap.ticks)
        BY <1>3 DEF LiquidityInv
      <3> HIDE DEF found, c, after
      <3>4. Books(positions, after.tick, after.liquidity, after.ticks)
        BY <1>1, <3>1, <3>2, <3>3, IterationBooks DEF found, c, after
      <3> QED BY <3>1, <3>4 DEF LiquidityInv
    <2>3. CASE SwapFails(found, c)
      BY <1>2, <2>3 DEF SwapFails
    <2> QED BY <2>1, <2>2, <2>3
  <1>4. CASE SwapCommits
    <2>1. /\ swap # NoSwap /\ swap' = NoSwap /\ ticks' = swap.ticks /\ positions' = positions
          /\ pool' = [pool EXCEPT
                        !.sqrt_price = swap.sqrt_price,
                        !.tick_current_index = swap.tick,
                        !.liquidity = swap.liquidity,
                        !.growth = swap.growth,
                        !.reward_last_updated_timestamp = clock,
                        !.protocol_fee_owed[InputToken(swap)] = WrapU64(@ + swap.protocol_fee)]
      BY <1>4 DEF SwapCommits
    <2>2. pool \in PoolRecords
      BY DEF PoolInv, TypeOK
    <2>3. pool'.tick_current_index = swap.tick /\ pool'.liquidity = swap.liquidity
      BY <2>1, <2>2 DEF PoolRecords
    <2> QED BY <2>1, <2>3 DEF LiquidityInv
  <1>5. CASE SwapRefused
    BY <1>2, <1>5 DEF SwapRefused
  <1> QED BY <1>3, <1>4, <1>5 DEF SwapNext

LEMMA AuthorityBooks ==
    ASSUME PoolInv, LiquidityInv, AuthorityNext
    PROVE  LiquidityInv'
  <1>1. pool \in PoolRecords
    BY DEF PoolInv, TypeOK
  <1> DEFINE quiet == /\ swap = NoSwap /\ UNCHANGED <<ticks, positions, swap>>
                      /\ pool'.tick_current_index = pool.tick_current_index
                      /\ pool'.liquidity = pool.liquidity
  <1>2. quiet
    <2>1. CASE CollectProtocolFees
      BY <1>1, <2>1 DEF CollectProtocolFees, PoolRecords
    <2>2. ASSUME NEW rate, SetFeeRate(rate) PROVE quiet
      BY <1>1, <2>2 DEF SetFeeRate, PoolRecords
    <2>3. ASSUME NEW rate, SetProtocolFeeRate(rate) PROVE quiet
      BY <1>1, <2>3 DEF SetProtocolFeeRate, PoolRecords
    <2>4. ASSUME NEW i, InitializeReward(i) PROVE quiet
      BY <1>1, <2>4 DEF InitializeReward, PoolRecords
    <2>5. ASSUME NEW r, NEW emissions, SetRewardEmissions(r, emissions) PROVE quiet
      BY <1>1, <2>5 DEF SetRewardEmissions, update_emissions, PoolRecords
    <2> HIDE DEF quiet
    <2> QED BY <2>1, <2>2, <2>3, <2>4, <2>5 DEF AuthorityNext
  <1> QED BY <1>2, QuietBooks

LEMMA LiquidityStep == PoolInv /\ PoolInv' /\ LiquidityInv /\ [Next]_vars => LiquidityInv'
  <1> SUFFICES ASSUME PoolInv, PoolInv', LiquidityInv, [Next]_vars PROVE LiquidityInv'
    OBVIOUS
  <1>1. CASE UNCHANGED vars
    BY <1>1 DEF vars, LiquidityInv
  <1>2. CASE PositionNext
    BY <1>2, PositionBooks
  <1>3. CASE AuthorityNext
    BY <1>3, AuthorityBooks
  <1>4. CASE SwapNext
    BY <1>4, SwapBooks
  <1>5. CASE \/ \E start \in Starts : InitializeTickArray(start)
             \/ \E r \in Rewards, amount \in FundAmounts : FundReward(r, amount)
             \/ \E now \in Times : ClockMoves(now)
    BY <1>5, QuietBooks DEF InitializeTickArray, FundReward, ClockMoves
  <1>6. ASSUME NEW amount \in SwapAmounts, NEW threshold \in SwapThresholds, NEW limit \in SwapLimits,
               NEW is_input \in BOOLEAN, NEW a_to_b \in BOOLEAN, NEW arrays \in ArrayInputs,
               BeginSwap(amount, threshold, limit, is_input, a_to_b, arrays)
        PROVE  LiquidityInv'
    <2>1. /\ swap'.tick = pool.tick_current_index /\ swap'.liquidity = pool.liquidity
          /\ swap'.ticks = ticks /\ UNCHANGED <<pool, ticks, positions>>
      BY <1>6 DEF BeginSwap
    <2> QED BY <2>1 DEF LiquidityInv
  <1> QED BY <1>1, <1>2, <1>3, <1>4, <1>5, <1>6 DEF Next

LEMMA LiquidityAlways == Spec => [](PoolInv /\ LiquidityInv)
  BY InitCreates, PoolCreated, PoolInvStep, LiquidityCreated, LiquidityStep, PTL DEF Spec

-----------------------------------------------------------------------------
(* Theorems. *)

\* What the invariant says in the terms of the properties.
LEMMA BooksOfViews ==
    ASSUME LiquidityInv, NEW v \in Views
    PROVE  Books(positions, v.tick, v.liquidity, v.ticks)
  <1>1. CASE v = Committed
    BY <1>1 DEF Committed, LiquidityInv
  <1>2. CASE swap # NoSwap /\ v = Working
    BY <1>2 DEF Working, LiquidityInv
  <1> QED BY <1>1, <1>2 DEF Views

\* The pool's liquidity, on chain and after every iteration of a swap, is that
\* of the positions whose range holds the current tick.
THEOREM LiquidityFollowsTick == Spec => []LiquidityInRange
  <1>1. LiquidityInv => LiquidityInRange
    <2> SUFFICES ASSUME LiquidityInv, NEW v \in Views
                 PROVE  v.liquidity = LiquidityOf({id \in Open :
                            /\ positions[id].tick_lower_index <= v.tick
                            /\ v.tick < positions[id].tick_upper_index})
      BY DEF LiquidityInRange
    <2>1. v.liquidity = LiquidityIn(positions, InRange(positions, v.tick))
      BY BooksOfViews DEF Books
    <2> QED BY <2>1, Zenon DEF LiquidityIn, LiquidityOf, InRange, Held, Open
  <1> QED BY LiquidityAlways, <1>1, PTL

\* Every tick keeps the liquidity of the positions it bounds, and only a tick
\* that bounds some is initialised.
THEOREM TicksFollowPositions == Spec => []TicksMatchPositions
  <1>1. LiquidityInv => TicksMatchPositions
    <2> SUFFICES ASSUME LiquidityInv, NEW v \in Views, NEW t \in Usable
                 PROVE  TickCounts(v.ticks[t],
                            LiquidityOf({id \in Open : positions[id].tick_lower_index = t}),
                            LiquidityOf({id \in Open : positions[id].tick_upper_index = t}))
      BY Zenon DEF TicksMatchPositions, TickCounts
    <2>1. TickBook(v.ticks[t], positions, t)
      BY BooksOfViews DEF Books
    <2> QED BY <2>1, Zenon DEF TickBook, LiquidityIn, LiquidityOf, From, UpTo, Held, Open
  <1> QED BY LiquidityAlways, <1>1, PTL

-----------------------------------------------------------------------------
(* Growth inside a position's range. *)

\* Growth to the left of an initialised tick.
LeftOf(k, current, tick, t, growth) ==
    IF current < t THEN growth[k] - tick.growth_outside[k] ELSE tick.growth_outside[k]

\* Growth between the ends of a position, without wrapping.
Within(position, current, tks, growth, k) ==
    LET lower == position.tick_lower_index
        upper == position.tick_upper_index
    IN  LeftOf(k, current, tks[upper], upper, growth) - LeftOf(k, current, tks[lower], lower, growth)

\* The growth within since the position's checkpoint.
Since(position, current, tks, growth, k) ==
    WrapU128(Within(position, current, tks, growth, k) - position.checkpoint[k])

OutsideBelow(tks, growth) ==
    \A t \in Usable, k \in Kinds :
        tks[t].initialized => tks[t].growth_outside[k] <= growth[k]

\* A reward that is not initialised has not grown, in all or outside a tick.
Dormant(tks, growth, active) ==
    \A k \in Kinds \ active :
        /\ growth[k] = 0
        /\ \A t \in Usable : tks[t].initialized => tks[t].growth_outside[k] = 0

EarnedBelow(p, current, tks, growth) ==
    \A id \in PositionIds, k \in Kinds :
        Liquid(p, id) => Since(p[id], current, tks, growth, k) <= growth[k]

GrowthBook(p, current, tks, growth, active) ==
    /\ \A k \in Kinds \ active : growth[k] = 0
    /\ OutsideBelow(tks, growth)
    /\ EarnedBelow(p, current, tks, growth)

LEMMA LeftTyped ==
    ASSUME NEW current, NEW tks \in [Usable -> TickRecords], NEW t \in Usable,
           NEW growth \in [Kinds -> U128], NEW k \in Kinds
    PROVE  /\ growth[k] \in Nat /\ growth[k] \in U128
           /\ tks[t].growth_outside[k] \in Nat /\ tks[t].growth_outside[k] \in U128
           /\ LeftOf(k, current, tks[t], t, growth) \in Int
  <1>1. growth[k] \in U128 /\ tks[t] \in TickRecords
    OBVIOUS
  <1>2. tks[t].growth_outside[k] \in U128
    BY <1>1 DEF TickRecords
  <1>3. growth[k] \in Nat /\ tks[t].growth_outside[k] \in Nat
    BY <1>1, <1>2, Unsigned
  <1> QED BY <1>1, <1>2, <1>3 DEF LeftOf

\* The global growths rise while the ticks stay as they are.
LEMMA GrowthRises ==
    ASSUME NEW p \in Accounts, Ordered(p), NEW current \in Int,
           NEW tks \in [Usable -> TickRecords],
           NEW growth \in [Kinds -> U128], NEW next \in [Kinds -> U128], NEW active,
           \A k \in Kinds : next[k] >= growth[k],
           \A k \in Kinds \ active : next[k] = growth[k],
           GrowthBook(p, current, tks, growth, active)
    PROVE  GrowthBook(p, current, tks, next, active)
  <1>1. ASSUME NEW k \in Kinds PROVE growth[k] \in Nat /\ next[k] \in Nat /\ next[k] >= growth[k]
    BY Unsigned
  <1>2. OutsideBelow(tks, next)
    <2> SUFFICES ASSUME NEW t \in Usable, NEW k \in Kinds, tks[t].initialized
                 PROVE  tks[t].growth_outside[k] <= next[k]
      BY DEF OutsideBelow
    <2>1. tks[t].growth_outside[k] <= growth[k] /\ tks[t].growth_outside[k] \in Nat
      BY LeftTyped DEF GrowthBook, OutsideBelow
    <2> QED BY <1>1, <2>1
  <1>3. EarnedBelow(p, current, tks, next)
    <2> SUFFICES ASSUME NEW id \in PositionIds, NEW k \in Kinds, Liquid(p, id)
                 PROVE  Since(p[id], current, tks, next, k) <= next[k]
      BY DEF EarnedBelow
    <2> DEFINE lower == p[id].tick_lower_index
               upper == p[id].tick_upper_index
               c == p[id].checkpoint[k]
               J == Within(p[id], current, tks, growth, k)
               H == Within(p[id], current, tks, next, k)
               d == next[k] - growth[k]
               L(t) == LeftOf(k, current, tks[t], t, growth)
               M(t) == LeftOf(k, current, tks[t], t, next)
    <2>1. /\ lower \in Usable /\ upper \in Usable /\ lower \in Int /\ upper \in Int
          /\ lower < upper /\ p[id] \in PositionRecords
      BY HeldTyped DEF Liquid, Ordered, Accounts, Held
    <2>2. c \in Int
      <3>1. c \in U128
        BY <2>1 DEF PositionRecords
      <3> QED BY <3>1, Unsigned
    <2>3. d \in Nat /\ next[k] = growth[k] + d /\ growth[k] \in Nat
      BY <1>1
    <2>4. ASSUME NEW t \in Usable
          PROVE  L(t) \in Int /\ M(t) = IF current < t THEN L(t) + d ELSE L(t)
      <3>1. tks[t].growth_outside[k] \in Nat /\ L(t) \in Int
        BY LeftTyped
      <3> HIDE DEF d
      <3> QED BY <2>3, <3>1 DEF LeftOf
    <2>5. J = L(upper) - L(lower) /\ H = M(upper) - M(lower)
      BY DEF Within
    <2> HIDE DEF L, M, J, H, d, lower, upper, c
    <2>6. J \in Int /\ (H = J \/ H = J + d)
      BY <2>1, <2>3, <2>4, <2>5
    <2>7. WrapU128(J - c) <= growth[k] /\ WrapU128(J - c) \in U128 /\ WrapU128(J - c) \in Nat
      <3>1. J - c \in Int
        BY <2>2, <2>6
      <3>2. Since(p[id], current, tks, growth, k) <= growth[k]
        BY DEF GrowthBook, EarnedBelow
      <3> QED BY <3>1, <3>2, Wraps, Unsigned DEF Since, J, c
    <2>8. WrapU128(H - c) <= next[k]
      <3>1. CASE H = J
        BY <1>1, <2>7, <3>1
      <3>2. CASE H = J + d
        <4> DEFINE x == J - c
                   w == WrapU128(x)
        <4>1. x \in Int /\ H - c = x + d
          BY <2>2, <2>3, <2>6, <3>2
        <4>2. w \in Nat /\ w + d <= next[k]
          BY <2>3, <2>7
        <4>3. w + d \in U128
          <5>1. next[k] \in Nat /\ next[k] <= U128MAX /\ U128MAX \in Nat
            BY <1>1, Unsigned, Widths
          <5> HIDE DEF w
          <5> QED BY <2>3, <4>2, <5>1 DEF U128
        <4> HIDE DEF x
        <4>4. WrapU128(x + d) = w + d
          BY <2>3, <4>1, <4>3, WrapRises
        <4> QED BY <4>1, <4>2, <4>4
      <3> QED BY <2>6, <3>1, <3>2
    <2> QED BY <2>8 DEF Since, H, c
  <1>4. \A k \in Kinds \ active : next[k] = 0
    BY DEF GrowthBook
  <1> QED BY <1>2, <1>3, <1>4 DEF GrowthBook

LEMMA BelowDormant ==
    ASSUME NEW tks \in [Usable -> TickRecords], NEW growth \in [Kinds -> U128], NEW active,
           OutsideBelow(tks, growth), \A k \in Kinds \ active : growth[k] = 0
    PROVE  Dormant(tks, growth, active)
  <1> SUFFICES ASSUME NEW k \in Kinds \ active, NEW t \in Usable, tks[t].initialized
               PROVE  tks[t].growth_outside[k] = 0
    BY DEF Dormant
  <1>1. tks[t].growth_outside[k] \in Nat /\ tks[t].growth_outside[k] <= 0
    BY LeftTyped DEF OutsideBelow
  <1> QED BY <1>1

\* One iteration of a swap: the growth of the token paid changes; then the
\* tick that is crossed has its outside turned round, which leaves the growth
\* within every range as it was.
LEMMA IterationTurns ==
    ASSUME NEW p \in Accounts, NEW s \in SwapRecords, NEW price \in Nat,
           SwapRuns(s, price), Looping(s), pool \in PoolRecords, NEW found, found = NextTick(s),
           NEW c, c = Computation(s, found), IterationSucceeds(s, found, c),
           NEW after, after = Iteration(s, found, c),
           Books(p, s.tick, s.liquidity, s.ticks), Dormant(s.ticks, s.growth, Active(pool))
    PROVE  LET G == after.growth
           IN  /\ G \in [Kinds -> U128]
               /\ \A k \in Kinds \ Tokens : G[k] = s.growth[k]
               /\ Dormant(after.ticks, G, Active(pool))
               /\ \A u \in Usable : after.ticks[u].initialized => s.ticks[u].initialized
               /\ \A u \in Usable, k \in Kinds :
                     \/ after.ticks[u].growth_outside[k] = s.ticks[u].growth_outside[k]
                     \/ after.ticks[u].growth_outside[k] = WrapU128(G[k] - s.ticks[u].growth_outside[k])
               /\ \A id \in PositionIds, k \in Kinds : Liquid(p, id) =>
                     Since(p[id], after.tick, after.ticks, G, k) = Since(p[id], s.tick, s.ticks, G, k)
  <1> DEFINE t == found.tick_index
             tick == s.tick
             tks == s.ticks
             G == after.growth
             crossed(u) == Crosses(s, found, c) /\ u = t
  <1>1. tks \in [Usable -> TickRecords] /\ s.growth \in [Kinds -> U128] /\ tick \in Int
    BY TickIndexAssumption DEF SwapRecords
  <1>2. G \in [Kinds -> U128]
    <2>1. after \in SwapRecords
      BY IterationTyped
    <2> QED BY <2>1 DEF SwapRecords
  <1>3. G = GrowthAfter(s, c) /\ after.ticks = TicksAfter(s, found, c)
    BY DEF Iteration, SwapRecords
  <1>4. \A k \in Kinds \ Tokens : G[k] = s.growth[k]
    BY <1>1, <1>3 DEF GrowthAfter, InputToken, Tokens
  <1>5. /\ after.tick \in Int
        /\ Crosses(s, found, c) => t \in Usable /\ t \in Initialized(tks)
        /\ \A u \in Initialized(tks) :
              IF Crosses(s, found, c) /\ u = t THEN (tick < u) <=> ~(after.tick < u)
                                              ELSE (tick < u) <=> (after.tick < u)
    BY IterationPasses
  <1> HIDE DEF G, tick, tks
  \* Only the tick that is crossed changes sides.
  <1>6. ASSUME NEW u \in Initialized(tks)
        PROVE  /\ crossed(u) => ((tick < u) <=> ~(after.tick < u))
               /\ ~crossed(u) => ((tick < u) <=> (after.tick < u))
    BY <1>5
  <1>7. ASSUME NEW u \in Usable, ~crossed(u) PROVE after.ticks[u] = tks[u]
    BY <1>1, <1>3, <1>7 DEF TicksAfter, tks
  <1>8. ASSUME NEW u \in Usable, crossed(u), NEW k \in Kinds
        PROVE  /\ after.ticks[u].initialized = tks[u].initialized
               /\ after.ticks[u].growth_outside[k] = IF k \in Active(pool)
                                                     THEN WrapU128(G[k] - tks[u].growth_outside[k])
                                                     ELSE tks[u].growth_outside[k]
    <2> DEFINE r == next_tick_cross_update(tks[u], G, Active(pool))
    <2>1. after.ticks[u] = r
      BY <1>1, <1>3, <1>8 DEF TicksAfter, tks
    <2>2. /\ r.initialized = tks[u].initialized
          /\ r.growth_outside[k] = IF k \in Active(pool) THEN WrapU128(G[k] - tks[u].growth_outside[k])
                                   ELSE tks[u].growth_outside[k]
      BY <1>1 DEF next_tick_cross_update, TickRecords
    <2> HIDE DEF r
    <2> QED BY <2>1, <2>2
  <1>9. \A u \in Usable : after.ticks[u].initialized => tks[u].initialized
    <2> SUFFICES ASSUME NEW u \in Usable, after.ticks[u].initialized PROVE tks[u].initialized
      OBVIOUS
    <2>1. crossed(u) => u \in Initialized(tks)
      BY <1>5
    <2> HIDE DEF crossed
    <2> QED BY <1>7, <2>1 DEF Initialized
  <1>10. ASSUME NEW u \in Usable, NEW k \in Kinds
         PROVE  \/ after.ticks[u].growth_outside[k] = tks[u].growth_outside[k]
                \/ after.ticks[u].growth_outside[k] = WrapU128(G[k] - tks[u].growth_outside[k])
    <2>1. CASE crossed(u)
      BY <1>8, <2>1
    <2>2. CASE ~crossed(u)
      BY <1>7, <2>2
    <2> QED BY <2>1, <2>2
  \* A reward that is not initialised.
  <1>11. ASSUME NEW k \in Kinds \ Active(pool)
         PROVE  /\ G[k] = 0
                /\ \A u \in Usable : tks[u].initialized => tks[u].growth_outside[k] = 0
                /\ \A u \in Usable : after.ticks[u].initialized => after.ticks[u].growth_outside[k] = 0
    <2>1. G[k] = 0 /\ \A u \in Usable : tks[u].initialized => tks[u].growth_outside[k] = 0
      BY <1>4 DEF Dormant, Active, tks
    <2>2. WrapU128(0 - 0) = 0
      BY Wraps, Unsigned
    <2>3. ASSUME NEW u \in Usable, after.ticks[u].initialized
          PROVE  after.ticks[u].growth_outside[k] = 0
      <3>1. tks[u].growth_outside[k] = 0
        BY <1>9, <2>1, <2>3
      <3>2. \/ after.ticks[u].growth_outside[k] = 0
            \/ after.ticks[u].growth_outside[k] = WrapU128(0 - 0)
        BY <1>10, <2>1, <3>1, Zenon
      <3> QED BY <2>2, <3>2, Zenon
    <2> QED BY <2>1, <2>3
  <1>12. ASSUME NEW u \in Initialized(tks), NEW k \in Kinds
         PROVE  /\ LeftOf(k, after.tick, after.ticks[u], u, G) \in Int
                /\ LeftOf(k, tick, tks[u], u, G) \in Int
                /\ WrapU128(LeftOf(k, after.tick, after.ticks[u], u, G))
                     = WrapU128(LeftOf(k, tick, tks[u], u, G))
    <2> DEFINE o == tks[u].growth_outside[k]
               w == after.ticks[u].growth_outside[k]
               g == G[k]
               x == WrapU128(g - o)
    <2>1. u \in Usable /\ tks[u].initialized
      BY DEF Initialized
    <2>2. g \in Int /\ o \in Int
      BY <1>1, <1>2, <2>1, LeftTyped
    <2>3. /\ LeftOf(k, tick, tks[u], u, G) = IF tick < u THEN g - o ELSE o
          /\ LeftOf(k, after.tick, after.ticks[u], u, G) = IF after.tick < u THEN g - w ELSE w
      BY DEF LeftOf
    <2>4. CASE crossed(u)
      <3>1. (tick < u) <=> ~(after.tick < u)
        BY <1>6, <2>4
      <3>2. w = IF k \in Active(pool) THEN x ELSE o
        BY <1>8, <2>1, <2>4
      <3>3. k \notin Active(pool) => g = 0 /\ o = 0
        BY <1>11, <2>1
      <3> HIDE DEF g, o, w
      <3>4. g - o \in Int /\ g - (g - o) = o
        BY <2>2
      <3>5. x \in Int /\ WrapU128(x) = x /\ WrapU128(g - x) = WrapU128(g - (g - o))
        BY <2>2, <3>4, Wraps, Unsigned, WrapUnder
      <3> HIDE DEF x
      <3>6. w \in Int /\ WrapU128(w) = WrapU128(g - o) /\ WrapU128(g - w) = WrapU128(o)
        <4>1. CASE k \in Active(pool)
          BY <3>2, <3>4, <3>5, <4>1 DEF x
        <4>2. CASE k \notin Active(pool)
          <5>1. w = 0 /\ g = 0 /\ o = 0 /\ 0 - 0 = 0
            BY <3>2, <3>3, <4>2
          <5> QED BY <5>1
        <4> QED BY <4>1, <4>2
      <3> QED BY <2>2, <2>3, <3>1, <3>4, <3>6
    <2>5. CASE ~crossed(u)
      <3>1. w = o /\ ((tick < u) <=> (after.tick < u))
        BY <1>6, <1>7, <2>1, <2>5
      <3> HIDE DEF g, o, w
      <3> QED BY <2>2, <2>3, <3>1
    <2> QED BY <2>4, <2>5
  <1>13. ASSUME NEW id \in PositionIds, NEW k \in Kinds, Liquid(p, id)
         PROVE  Since(p[id], after.tick, after.ticks, G, k) = Since(p[id], tick, tks, G, k)
    <2> DEFINE lower == p[id].tick_lower_index
               upper == p[id].tick_upper_index
               c0 == p[id].checkpoint[k]
               J(u) == LeftOf(k, tick, tks[u], u, G)
               H(u) == LeftOf(k, after.tick, after.ticks[u], u, G)
    <2>1. lower \in Initialized(tks) /\ upper \in Initialized(tks)
      BY <1>13, EndsInitialized DEF Books, Liquid, tks
    <2>2. c0 \in Int
      <3>1. p[id] \in PositionRecords
        BY <1>13 DEF Liquid, Held, Accounts
      <3>2. c0 \in U128
        BY <3>1 DEF PositionRecords
      <3> QED BY <3>2, Unsigned
    <2>3. /\ J(lower) \in Int /\ H(lower) \in Int /\ WrapU128(H(lower)) = WrapU128(J(lower))
          /\ J(upper) \in Int /\ H(upper) \in Int /\ WrapU128(H(upper)) = WrapU128(J(upper))
      BY <1>12, <2>1
    <2> HIDE DEF J, H, lower, upper, c0
    <2>4. WrapU128(H(upper) - H(lower)) = WrapU128(J(upper) - J(lower))
      BY <2>3, WrapDifference
    <2>5. H(upper) - H(lower) \in Int /\ J(upper) - J(lower) \in Int
      BY <2>3
    <2>6. WrapU128((H(upper) - H(lower)) - c0) = WrapU128((J(upper) - J(lower)) - c0)
      BY <2>2, <2>4, <2>5, WrapDifference
    <2> QED BY <2>6 DEF Since, Within, J, H, lower, upper, c0
  <1> QED BY <1>2, <1>4, <1>9, <1>10, <1>11, <1>13 DEF G, tick, tks, Dormant

\* The fee of the step makes the growth of the token paid rise.
LEMMA IterationGrowth ==
    ASSUME NEW p \in Accounts, Ordered(p), NEW s \in SwapRecords, NEW price \in Nat,
           SwapRuns(s, price), Looping(s), pool \in PoolRecords, NEW found, found = NextTick(s),
           NEW c, c = Computation(s, found), IterationSucceeds(s, found, c),
           NEW after, after = Iteration(s, found, c),
           Books(p, s.tick, s.liquidity, s.ticks),
           \A k \in Kinds : after.growth[k] >= s.growth[k],
           GrowthBook(p, s.tick, s.ticks, s.growth, Active(pool))
    PROVE  GrowthBook(p, after.tick, after.ticks, after.growth, Active(pool))
  <1> DEFINE tick == s.tick
             tks == s.ticks
             G == after.growth
  <1>1. tks \in [Usable -> TickRecords] /\ s.growth \in [Kinds -> U128] /\ tick \in Int
    BY TickIndexAssumption DEF SwapRecords
  <1>2. Dormant(tks, s.growth, Active(pool))
    BY <1>1, BelowDormant DEF GrowthBook
  <1>3. /\ G \in [Kinds -> U128] /\ \A k \in Kinds \ Tokens : G[k] = s.growth[k]
        /\ Dormant(after.ticks, G, Active(pool))
    BY <1>2, IterationTurns
  <1>4. \A u \in Usable : after.ticks[u].initialized => tks[u].initialized
    BY <1>2, IterationTurns
  <1>5. \A u \in Usable, k \in Kinds :
            \/ after.ticks[u].growth_outside[k] = tks[u].growth_outside[k]
            \/ after.ticks[u].growth_outside[k] = WrapU128(G[k] - tks[u].growth_outside[k])
    BY <1>2, IterationTurns
  <1>6. \A id \in PositionIds, k \in Kinds : Liquid(p, id) =>
            Since(p[id], after.tick, after.ticks, G, k) = Since(p[id], tick, tks, G, k)
    BY <1>2, IterationTurns
  <1>7. GrowthBook(p, tick, tks, s.growth, Active(pool)) /\ \A k \in Kinds : G[k] >= s.growth[k]
    OBVIOUS
  <1> HIDE DEF G, tick, tks
  <1>8. GrowthBook(p, tick, tks, G, Active(pool))
    <2>1. \A k \in Kinds \ Active(pool) : G[k] = s.growth[k]
      BY <1>3 DEF Active
    <2> QED BY <1>1, <1>3, <1>7, <2>1, GrowthRises
  <1>9. OutsideBelow(after.ticks, G)
    <2> SUFFICES ASSUME NEW u \in Usable, NEW k \in Kinds, after.ticks[u].initialized
                 PROVE  after.ticks[u].growth_outside[k] <= G[k]
      BY DEF OutsideBelow
    <2> DEFINE o == tks[u].growth_outside[k]
               g == G[k]
    <2>1. g \in Nat /\ g \in U128 /\ o \in Nat /\ o <= g
      BY <1>1, <1>3, <1>4, <1>8, LeftTyped DEF GrowthBook, OutsideBelow
    <2>2. after.ticks[u].growth_outside[k] = o \/ after.ticks[u].growth_outside[k] = WrapU128(g - o)
      BY <1>5
    <2> HIDE DEF o, g
    <2>3. g - o \in U128 /\ g - o \in Int /\ g - o <= g
      BY <2>1, Unsigned, Widths DEF U128
    <2>4. WrapU128(g - o) = g - o
      BY <2>3, Wraps
    <2>5. after.ticks[u].growth_outside[k] <= g
      BY <2>1, <2>2, <2>3, <2>4
    <2> QED BY <2>5 DEF g
  <1>10. EarnedBelow(p, after.tick, after.ticks, G)
    BY <1>6, <1>8 DEF GrowthBook, EarnedBelow
  <1> QED BY <1>3, <1>9, <1>10 DEF GrowthBook, Dormant, G

\* A tick with liquidity before and after keeps its outside; one that gets its
\* first liquidity takes all growth so far to have happened below it.
LEMMA TickUpdateOutside ==
    ASSUME NEW tick \in TickRecords, NEW lower \in Nat, NEW upper \in Nat,
           TickCounts(tick, lower, upper), NEW t, NEW current, NEW growth, NEW delta,
           NEW is_upper, NEW r,
           r = next_tick_modify_liquidity_update(tick, t, current, growth, delta, is_upper),
           r.initialized
    PROVE  r.growth_outside = IF tick.initialized THEN tick.growth_outside
                              ELSE IF current >= t THEN growth ELSE Zero
  <1> DEFINE gross == add_liquidity_delta(tick.liquidity_gross, delta)
             first == IF current >= t THEN growth ELSE Zero
  <1>1. r = IF delta = 0 THEN tick
            ELSE IF gross = 0 THEN DefaultTick
            ELSE [initialized |-> TRUE, liquidity_net |-> NextNet(tick, delta, is_upper),
                  liquidity_gross |-> gross,
                  growth_outside |-> IF tick.liquidity_gross > 0 THEN tick.growth_outside ELSE first]
    BY DEF next_tick_modify_liquidity_update
  <1>2. tick.initialized <=> tick.liquidity_gross > 0
    BY DEF TickCounts
  <1>3. ~DefaultTick.initialized
    BY DEF DefaultTick
  <1> HIDE DEF gross, first
  <1>4. CASE delta = 0
    BY <1>1, <1>4
  <1>5. CASE delta # 0
    <2>1. gross # 0
      BY <1>1, <1>3, <1>5
    <2>2. r.growth_outside = IF tick.liquidity_gross > 0 THEN tick.growth_outside ELSE first
      BY <1>1, <1>5, <2>1
    <2>3. CASE tick.initialized
      <3>1. tick.liquidity_gross > 0
        BY <1>2, <2>3
      <3> QED BY <2>2, <2>3, <3>1
    <2>4. CASE ~tick.initialized
      <3>1. ~(tick.liquidity_gross > 0)
        BY <1>2, <2>4
      <3> QED BY <2>2, <2>4, <3>1 DEF first
    <2> QED BY <2>3, <2>4
  <1> QED BY <1>4, <1>5 DEF first

\* The growth inside that a checkpoint gets is that within the range, but for
\* wrapping.
LEMMA InsideWithin ==
    ASSUME NEW current \in Int, NEW lower \in Usable, NEW upper \in Usable,
           NEW tks \in [Usable -> TickRecords], NEW after \in [Usable -> TickRecords],
           NEW growth \in [Kinds -> U128], NEW active, Dormant(after, growth, active),
           after[lower].initialized, after[upper].initialized, NEW k \in Kinds,
           \A t \in {lower, upper} :
               LeftOf(k, current, after[t], t, growth)
                 = IF tks[t].initialized THEN LeftOf(k, current, tks[t], t, growth) ELSE growth[k]
    PROVE  next_growths_inside(current, tks, lower, upper, growth, active)[k]
             = WrapU128(LeftOf(k, current, after[upper], upper, growth)
                          - LeftOf(k, current, after[lower], lower, growth))
  <1> DEFINE g == growth[k]
             L(t) == LeftOf(k, current, after[t], t, growth)
             x == L(lower)
             y == L(upper)
             below == GrowthBelow(k, current, tks[lower], lower, growth)
             above == GrowthAbove(k, current, tks[upper], upper, growth)
             inside == next_growths_inside(current, tks, lower, upper, growth, active)
  <1>0. ASSUME NEW t \in Usable
        PROVE  growth[k] \in Nat /\ L(t) \in Int /\ tks[t].growth_outside[k] \in Nat
    <2>1. growth[k] \in Nat /\ tks[t].growth_outside[k] \in Nat
      BY LeftTyped, Zenon
    <2>2. L(t) \in Int
      BY LeftTyped, Zenon
    <2> QED BY <2>1, <2>2
  <1>1. g \in Int /\ x \in Int /\ y \in Int
    <2> HIDE DEF L
    <2> QED BY <1>0
  <1>2. ASSUME NEW t \in Usable PROVE tks[t].growth_outside[k] \in Int
    BY <1>0
  <1>3. below \in Int /\ WrapU128(below) = WrapU128(x)
    <2> DEFINE o == tks[lower].growth_outside[k]
               w == WrapU128(g - o)
    <2>1. below = IF ~tks[lower].initialized THEN g ELSE IF current < lower THEN w ELSE o
      BY DEF GrowthBelow
    <2>2. x = IF ~tks[lower].initialized THEN g ELSE IF current < lower THEN g - o ELSE o
      BY DEF LeftOf
    <2>3. o \in Int
      BY <1>2
    <2> HIDE DEF g, x, o, below
    <2>4. g - o \in Int
      BY <1>1, <2>3
    <2>5. w \in U128 /\ w \in Int /\ WrapU128(w) = w
      BY <2>4, Wraps, Unsigned
    <2> QED BY <1>1, <2>1, <2>2, <2>3, <2>5
  <1>4. above \in Int /\ WrapU128(above) = WrapU128(g - y)
    <2> DEFINE o == tks[upper].growth_outside[k]
               w == WrapU128(g - o)
    <2>1. above = IF ~tks[upper].initialized THEN 0 ELSE IF current < upper THEN o ELSE w
      BY DEF GrowthAbove
    <2>2. y = IF ~tks[upper].initialized THEN g ELSE IF current < upper THEN g - o ELSE o
      BY DEF LeftOf
    <2>3. o \in Int
      BY <1>2
    <2> HIDE DEF g, y, o, above
    <2>4. g - o \in Int /\ g - g = 0 /\ g - (g - o) = o
      BY <1>1, <2>3
    <2>5. w \in U128 /\ w \in Int /\ WrapU128(w) = w
      BY <2>4, Wraps, Unsigned
    <2> QED BY <1>1, <2>1, <2>2, <2>3, <2>4, <2>5
  <1>5. CASE k \in active
    <2>1. inside[k] = WrapU128(g - below - above)
      BY <1>5 DEF next_growths_inside
    <2> HIDE DEF g, x, y, below, above, inside
    <2>2. WrapU128(g - below) = WrapU128(g - x)
      BY <1>1, <1>3, WrapDifference
    <2>3. g - below \in Int /\ g - x \in Int /\ g - y \in Int
      BY <1>1, <1>3
    <2>4. WrapU128((g - below) - above) = WrapU128((g - x) - (g - y))
      BY <1>4, <2>2, <2>3, WrapDifference
    <2>5. (g - x) - (g - y) = y - x
      BY <1>1
    <2> QED BY <2>1, <2>4, <2>5 DEF x, y, inside
  <1>6. CASE k \notin active
    <2>1. inside[k] = 0 /\ g = 0
      BY <1>6 DEF next_growths_inside, Dormant
    <2>2. ASSUME NEW t \in Usable, after[t].initialized PROVE L(t) = 0
      <3>1. after[t].growth_outside[k] = 0
        BY <1>6, <2>2 DEF Dormant
      <3> QED BY <2>1, <3>1 DEF LeftOf
    <2>3. y - x = 0
      BY <2>2
    <2>4. WrapU128(0) = 0
      BY Wraps, Unsigned
    <2> HIDE DEF x, y, inside
    <2> QED BY <2>1, <2>3, <2>4 DEF x, y, inside
  <1> QED BY <1>5, <1>6

\* calculate_modify_liquidity settles the growth of one position and may take
\* ends of it into use or out of use; other positions have theirs in use.
LEMMA ModifySettles ==
    ASSUME PoolInv, LiquidityInv, NEW id \in Open, NEW delta \in Int, ModifyLiquidity(id, delta),
           Dormant(ticks, pool.growth, Active(pool))
    PROVE  LET current == pool.tick_current_index
               G == next_whirlpool_reward_infos(pool, clock)
           IN  /\ pool'.tick_current_index = current /\ pool'.growth = G
               /\ Active(pool') = Active(pool) /\ G \in [Kinds -> U128]
               /\ Dormant(ticks', G, Active(pool))
               /\ \A u \in Usable, k \in Kinds : ticks'[u].initialized =>
                     ticks'[u].growth_outside[k] = IF ticks[u].initialized
                                                   THEN ticks[u].growth_outside[k]
                                                   ELSE IF current >= u THEN G[k] ELSE 0
               /\ \A x \in PositionIds : x # id => positions'[x] = positions[x]
               /\ \A x \in PositionIds, k \in Kinds : Liquid(positions', x) =>
                     Since(positions'[x], current, ticks', G, k)
                       = IF x = id THEN 0 ELSE Since(positions[x], current, ticks, G, k)
  <1> DEFINE p == positions
             q == positions'
             lower == p[id].tick_lower_index
             upper == p[id].tick_upper_index
             current == pool.tick_current_index
             G == next_whirlpool_reward_infos(pool, clock)
             inside == next_growths_inside(current, ticks, lower, upper, G, Active(pool))
             next(t, is_upper) ==
                 next_tick_modify_liquidity_update(ticks[t], t, current, G, delta, is_upper)
             active == Active(pool)
  <1>1. /\ pool \in PoolRecords /\ ticks \in [Usable -> TickRecords] /\ p \in Accounts
        /\ Ordered(p) /\ \A u \in Usable : TickBook(ticks[u], p, u)
    BY DEF PoolInv, TypeOK, Accounts, LiquidityInv, Books
  <1>2. /\ pool' \in PoolRecords /\ ticks' \in [Usable -> TickRecords] /\ q \in Accounts
        /\ pool'.tick_current_index = current
    BY ModifyTyped DEF Accounts
  <1>3. /\ q = [p EXCEPT ![id] = next_position_modify_liquidity_update(p[id], delta, inside)]
        /\ ticks' = [ticks EXCEPT ![lower] = next(lower, FALSE), ![upper] = next(upper, TRUE)]
        /\ pool' = [pool EXCEPT !.growth = G, !.reward_last_updated_timestamp = clock,
                        !.liquidity = next_whirlpool_liquidity(pool, lower, upper, delta)]
    BY Zenon DEF ModifyLiquidity
  <1>4. id \in Held(p) /\ id \in PositionIds /\ p[id] \in PositionRecords
    BY OpenTyped DEF Open, Held
  <1>5. /\ lower \in Usable /\ upper \in Usable /\ lower \in Int /\ upper \in Int /\ lower < upper
        /\ current \in Int
    BY <1>1, <1>4, HeldTyped, TickIndexAssumption DEF Ordered, PoolRecords
  <1>6. pool'.growth = G /\ Active(pool') = active /\ G \in [Kinds -> U128]
    BY <1>1, <1>2, <1>3 DEF PoolRecords, Active
  <1>7. /\ pool.growth \in [Kinds -> U128]
        /\ \A k \in Kinds \ active : G[k] = pool.growth[k]
    BY <1>1 DEF next_whirlpool_reward_infos, Active, PoolRecords
  <1>8. /\ \A x \in PositionIds : x # id => q[x] = p[x]
        /\ q[id].tick_lower_index = lower /\ q[id].tick_upper_index = upper
        /\ q[id].checkpoint = inside
    <2> DEFINE r == next_position_modify_liquidity_update(p[id], delta, inside)
    <2>1. q[id] = r /\ \A x \in PositionIds : x # id => q[x] = p[x]
      BY <1>1, <1>3, <1>4 DEF Accounts
    <2>2. r.tick_lower_index = lower /\ r.tick_upper_index = upper /\ r.checkpoint = inside
      BY <1>4 DEF next_position_modify_liquidity_update, PositionRecords
    <2> QED BY <2>1, <2>2
  <1>9. \A u \in Usable : TickBook(ticks'[u], q, u)
    BY ModifyBooks DEF Books
  <1> HIDE DEF G, inside, active, current, p, q, lower, upper
  \* A tick in use afterwards was in use before, or gets all growth below it.
  <1>10. ASSUME NEW u \in Usable, ticks'[u].initialized
         PROVE  ticks'[u].growth_outside = IF ticks[u].initialized THEN ticks[u].growth_outside
                                           ELSE IF current >= u THEN G ELSE Zero
    <2> DEFINE a == LiquidityIn(p, From(p, u))
               b == LiquidityIn(p, UpTo(p, u))
    <2>1. ticks[u] \in TickRecords /\ a \in Nat /\ b \in Nat /\ TickCounts(ticks[u], a, b)
      BY <1>1, RangesHeld, LiquidityNat DEF TickBook
    <2> HIDE DEF a, b
    <2>2. ASSUME NEW is_upper \in BOOLEAN, ticks'[u] = next(u, is_upper)
          PROVE  ticks'[u].growth_outside = IF ticks[u].initialized THEN ticks[u].growth_outside
                                            ELSE IF current >= u THEN G ELSE Zero
      BY <1>10, <2>1, <2>2, TickUpdateOutside
    <2>3. CASE u = lower /\ u # upper
      <3>1. ticks'[u] = next(u, FALSE)
        BY <1>1, <1>3, <1>5, <2>3
      <3> QED BY <2>2, <3>1
    <2>4. CASE u = upper
      <3>1. ticks'[u] = next(u, TRUE)
        BY <1>1, <1>3, <1>5, <2>4
      <3> QED BY <2>2, <3>1
    <2>5. CASE u # lower /\ u # upper
      <3>1. ticks'[u] = ticks[u]
        BY <1>1, <1>3, <2>5
      <3> QED BY <1>10, <3>1
    <2> QED BY <2>3, <2>4, <2>5
  <1>11. ASSUME NEW u \in Usable, ticks'[u].initialized, NEW k \in Kinds
         PROVE  /\ ticks'[u].growth_outside[k] = IF ticks[u].initialized
                                                 THEN ticks[u].growth_outside[k]
                                                 ELSE IF current >= u THEN G[k] ELSE 0
                /\ LeftOf(k, current, ticks'[u], u, G)
                     = IF ticks[u].initialized THEN LeftOf(k, current, ticks[u], u, G) ELSE G[k]
    <2>1. G[k] \in Nat /\ u \in Int
      BY <1>6, Unsigned, TickIndexAssumption DEF Usable
    <2>2. CASE ticks[u].initialized
      <3>1. ticks'[u].growth_outside = ticks[u].growth_outside
        BY <1>10, <1>11, <2>2
      <3> QED BY <2>2, <3>1 DEF LeftOf
    <2>3. CASE ~ticks[u].initialized
      <3>1. ticks'[u].growth_outside[k] = IF current >= u THEN G[k] ELSE 0
        BY <1>10, <1>11, <2>3 DEF Zero
      <3> QED BY <1>5, <2>1, <2>3, <3>1 DEF LeftOf
    <2> QED BY <2>2, <2>3
  <1>12. Dormant(ticks', G, active)
    <2> SUFFICES ASSUME NEW k \in Kinds \ active
                 PROVE  /\ G[k] = 0
                        /\ \A u \in Usable : ticks'[u].initialized => ticks'[u].growth_outside[k] = 0
      BY DEF Dormant
    <2>1. G[k] = 0 /\ \A u \in Usable : ticks[u].initialized => ticks[u].growth_outside[k] = 0
      BY <1>7 DEF Dormant, active
    <2> QED BY <1>11, <2>1
  <1>13. ASSUME NEW x \in PositionIds, NEW k \in Kinds, Liquid(q, x)
         PROVE  Since(q[x], current, ticks', G, k)
                  = IF x = id THEN 0 ELSE Since(p[x], current, ticks, G, k)
    <2>1. /\ q[x].tick_lower_index \in Usable /\ ticks'[q[x].tick_lower_index].initialized
          /\ q[x].tick_upper_index \in Usable /\ ticks'[q[x].tick_upper_index].initialized
      BY <1>2, <1>9, <1>13, EndsInitialized DEF Liquid, Initialized
    <2>2. CASE x # id
      <3>1. q[x] = p[x] /\ Liquid(p, x)
        BY <1>8, <1>13, <2>2 DEF Liquid, Held
      <3>2. /\ ticks[p[x].tick_lower_index].initialized
            /\ ticks[p[x].tick_upper_index].initialized
        BY <1>1, <3>1, EndsInitialized DEF Liquid, Initialized
      <3>3. Within(q[x], current, ticks', G, k) = Within(p[x], current, ticks, G, k)
        BY <1>11, <2>1, <3>1, <3>2 DEF Within
      <3> QED BY <2>2, <3>1, <3>3 DEF Since
    <2>3. CASE x = id
      <3> DEFINE J == LeftOf(k, current, ticks'[upper], upper, G)
                        - LeftOf(k, current, ticks'[lower], lower, G)
      <3>1. ticks'[lower].initialized /\ ticks'[upper].initialized
        BY <1>8, <2>1, <2>3
      <3>2. \A t \in {lower, upper} :
               LeftOf(k, current, ticks'[t], t, G)
                 = IF ticks[t].initialized THEN LeftOf(k, current, ticks[t], t, G) ELSE G[k]
        BY <1>5, <1>11, <3>1
      <3>3. inside[k] = WrapU128(J)
        BY <1>1, <1>2, <1>5, <1>6, <1>12, <3>1, <3>2, InsideWithin DEF inside, active
      <3>4. Since(q[id], current, ticks', G, k) = WrapU128(J - WrapU128(J))
        BY <1>8, <3>3 DEF Since, Within
      <3>5. J \in Int
        <4>1. ASSUME NEW t \in Usable PROVE LeftOf(k, current, ticks'[t], t, G) \in Int
          BY <1>2, <1>6, LeftTyped
        <4> QED BY <1>5, <4>1
      <3> HIDE DEF J
      <3>6. WrapU128(J - WrapU128(J)) = 0
        BY <3>5, WrapsToNothing
      <3> QED BY <2>3, <3>4, <3>6
    <2> QED BY <2>2, <2>3
  <1> QED BY <1>2, <1>6, <1>8, <1>11, <1>12, <1>13 DEF G, active, current, p, q

LEMMA ModifyGrowth ==
    ASSUME PoolInv, LiquidityInv, NEW id \in Open, NEW delta \in Int, ModifyLiquidity(id, delta),
           \A k \in Kinds : pool'.growth[k] >= pool.growth[k],
           GrowthBook(positions, pool.tick_current_index, ticks, pool.growth, Active(pool))
    PROVE  GrowthBook(positions', pool'.tick_current_index, ticks', pool'.growth, Active(pool'))
  <1> DEFINE p == positions
             q == positions'
             current == pool.tick_current_index
             G == next_whirlpool_reward_infos(pool, clock)
             active == Active(pool)
  <1>1. /\ ticks \in [Usable -> TickRecords] /\ p \in Accounts /\ Ordered(p)
        /\ pool.growth \in [Kinds -> U128] /\ current \in Int
    BY TickIndexAssumption DEF PoolInv, TypeOK, Accounts, LiquidityInv, PoolRecords
  <1>2. Dormant(ticks, pool.growth, active)
    BY <1>1, BelowDormant DEF GrowthBook
  <1>3. /\ pool'.tick_current_index = current /\ pool'.growth = G
        /\ Active(pool') = active /\ G \in [Kinds -> U128]
        /\ Dormant(ticks', G, active)
    BY <1>2, ModifySettles
  <1>4. ASSUME NEW u \in Usable, NEW k \in Kinds, ticks'[u].initialized
        PROVE  ticks'[u].growth_outside[k] = IF ticks[u].initialized
                                             THEN ticks[u].growth_outside[k]
                                             ELSE IF current >= u THEN G[k] ELSE 0
    BY <1>2, <1>4, ModifySettles
  <1>5. \A x \in PositionIds : x # id => q[x] = p[x]
    BY <1>2, ModifySettles
  <1>6. ASSUME NEW x \in PositionIds, NEW k \in Kinds, Liquid(q, x)
        PROVE  Since(q[x], current, ticks', G, k)
                 = IF x = id THEN 0 ELSE Since(p[x], current, ticks, G, k)
    BY <1>2, <1>6, ModifySettles
  <1> HIDE DEF G, active, current, p, q
  <1>7. GrowthBook(p, current, ticks, G, active)
    <2>1. GrowthBook(p, current, ticks, pool.growth, active)
      BY DEF p, current, active
    <2>2. \A k \in Kinds : G[k] >= pool.growth[k]
      BY <1>3
    <2>3. \A k \in Kinds \ active : G[k] = pool.growth[k]
      BY <1>2, <1>3 DEF Dormant
    <2> QED BY <1>1, <1>3, <2>1, <2>2, <2>3, GrowthRises
  <1>8. OutsideBelow(ticks', G)
    <2> SUFFICES ASSUME NEW u \in Usable, NEW k \in Kinds, ticks'[u].initialized
                 PROVE  ticks'[u].growth_outside[k] <= G[k]
      BY DEF OutsideBelow
    <2>1. ticks[u].initialized => ticks[u].growth_outside[k] <= G[k]
      BY <1>7 DEF GrowthBook, OutsideBelow
    <2>2. G[k] \in Nat
      BY <1>3, Unsigned
    <2> QED BY <1>4, <2>1, <2>2
  <1>9. EarnedBelow(q, current, ticks', G)
    <2> SUFFICES ASSUME NEW x \in PositionIds, NEW k \in Kinds, Liquid(q, x)
                 PROVE  Since(q[x], current, ticks', G, k) <= G[k]
      BY DEF EarnedBelow
    <2>1. CASE x = id
      <3>1. G[k] \in Nat /\ Since(q[x], current, ticks', G, k) = 0
        BY <1>3, <1>6, <2>1, Unsigned
      <3> QED BY <3>1
    <2>2. CASE x # id
      <3>1. Liquid(p, x)
        BY <1>5, <2>2 DEF Liquid, Held
      <3> QED BY <1>6, <1>7, <2>2, <3>1 DEF GrowthBook, EarnedBelow
    <2> QED BY <2>1, <2>2
  <1> QED BY <1>3, <1>8, <1>9 DEF GrowthBook, Dormant, q

-----------------------------------------------------------------------------
(* Every step keeps the growth within ranges, unless a global growth wraps. *)

GrowthInv ==
    /\ GrowthBook(positions, pool.tick_current_index, ticks, pool.growth, Active(pool))
    /\ swap # NoSwap => GrowthBook(positions, swap.tick, swap.ticks, swap.growth, Active(pool))

\* A global growth only ever gains less than its type holds: one that does not
\* fall has not wrapped round.
GrowthUnwrapped ==
    /\ \A k \in Kinds : pool'.growth[k] >= pool.growth[k]
    /\ swap' # NoSwap =>
        \A k \in Kinds : swap'.growth[k] >= (IF swap = NoSwap THEN pool ELSE swap).growth[k]

LEMMA GrowthInit == Init => GrowthInv
  <1> SUFFICES ASSUME Init PROVE GrowthInv
    OBVIOUS
  <1>1. /\ pool.growth = Zero /\ ticks = [t \in Usable |-> DefaultTick] /\ swap = NoSwap
        /\ positions = [id \in PositionIds |-> NoPosition]
    BY DEF Init, InitializePool
  <1> QED BY <1>1 DEF GrowthInv, GrowthBook, OutsideBelow, EarnedBelow, Liquid, Held, DefaultTick, Zero

\* Steps that change at most what a position owes, or one without liquidity.
LEMMA AccountGrowth ==
    ASSUME GrowthInv, swap = NoSwap, UNCHANGED <<pool, ticks, swap>>, NEW id \in PositionIds,
           \A x \in PositionIds : x # id => positions'[x] = positions[x],
           Liquid(positions', id) =>
               /\ Liquid(positions, id)
               /\ positions'[id].tick_lower_index = positions[id].tick_lower_index
               /\ positions'[id].tick_upper_index = positions[id].tick_upper_index
               /\ positions'[id].checkpoint = positions[id].checkpoint
    PROVE  GrowthInv'
  <1> DEFINE p == positions
             q == positions'
             t == pool.tick_current_index
             G == pool.growth
  <1>1. EarnedBelow(q, t, ticks, G)
    <2> SUFFICES ASSUME NEW x \in PositionIds, NEW k \in Kinds, Liquid(q, x)
                 PROVE  Since(q[x], t, ticks, G, k) <= G[k]
      BY DEF EarnedBelow
    <2>1. Liquid(p, x) /\ Since(q[x], t, ticks, G, k) = Since(p[x], t, ticks, G, k)
      <3>1. CASE x = id
        BY <3>1 DEF Since, Within
      <3>2. CASE x # id
        BY <3>2 DEF Liquid, Held
      <3> QED BY <3>1, <3>2
    <2> QED BY <2>1 DEF GrowthInv, GrowthBook, EarnedBelow
  <1> QED BY <1>1 DEF GrowthInv, GrowthBook

LEMMA PositionGrowth ==
    ASSUME PoolInv, LiquidityInv, GrowthInv, GrowthUnwrapped, PositionNext
    PROVE  GrowthInv'
  <1>1. PICK id \in PositionIds :
            \/ \E range \in RangeInputs : OpenPosition(id, range[1], range[2])
            \/ ClosePosition(id)
            \/ \E amount \in LiquidityInputs, limits \in [Tokens -> TokenLimits] :
                  \/ IncreaseLiquidity(id, amount, limits)
                  \/ DecreaseLiquidity(id, amount, limits)
            \/ UpdateFeesAndRewards(id)
            \/ CollectFees(id)
            \/ \E r \in Rewards : CollectReward(id, r)
    BY DEF PositionNext
  <1>2. positions \in Accounts
    BY DEF PoolInv, TypeOK, Accounts
  <1>3. ASSUME NEW lower, NEW upper, OpenPosition(id, lower, upper) PROVE GrowthInv'
    <2>1. /\ swap = NoSwap /\ UNCHANGED <<pool, ticks, swap>>
          /\ positions' = [positions EXCEPT ![id] = DefaultPosition(lower, upper)]
      BY <1>3 DEF OpenPosition
    <2>2. /\ positions'[id] = DefaultPosition(lower, upper)
          /\ \A x \in PositionIds : x # id => positions'[x] = positions[x]
      BY <1>2, <2>1 DEF Accounts
    <2>3. ~Liquid(positions', id)
      BY <2>2 DEF Liquid, DefaultPosition
    <2> QED BY <2>1, <2>2, <2>3, AccountGrowth
  <1>4. CASE ClosePosition(id)
    <2>1. /\ swap = NoSwap /\ UNCHANGED <<pool, ticks, swap>>
          /\ positions' = [positions EXCEPT ![id] = NoPosition]
      BY <1>4 DEF ClosePosition
    <2>2. /\ positions'[id] = NoPosition
          /\ \A x \in PositionIds : x # id => positions'[x] = positions[x]
      BY <1>2, <2>1 DEF Accounts
    <2>3. ~Liquid(positions', id)
      BY <2>2 DEF Liquid, Held
    <2> QED BY <2>1, <2>2, <2>3, AccountGrowth
  \* The instructions that settle and change liquidity.
  <1>5. ASSUME NEW delta \in Int, swap = NoSwap, swap' = swap, id \in Open,
               ModifyLiquidity(id, delta)
        PROVE  GrowthInv'
    BY <1>5, ModifyGrowth DEF GrowthInv, GrowthUnwrapped
  <1>6. ASSUME NEW amount \in LiquidityInputs, NEW limits,
               IncreaseLiquidity(id, amount, limits) \/ DecreaseLiquidity(id, amount, limits)
        PROVE  GrowthInv'
    <2> DEFINE d(positive) == convert_to_liquidity_delta(amount, positive)
    <2>1. d(TRUE) \in Int /\ d(FALSE) \in Int
      BY InputAssumption, LiquidityDelta
    <2>2. /\ swap = NoSwap /\ swap' = swap /\ id \in Open
          /\ ModifyLiquidity(id, d(TRUE)) \/ ModifyLiquidity(id, d(FALSE))
      BY <1>6 DEF IncreaseLiquidity, DecreaseLiquidity
    <2> HIDE DEF d
    <2> QED BY <1>5, <2>1, <2>2
  <1>7. CASE UpdateFeesAndRewards(id)
    <2>1. swap = NoSwap /\ swap' = swap /\ id \in Open /\ ModifyLiquidity(id, 0)
      BY <1>7 DEF UpdateFeesAndRewards
    <2> QED BY <1>5, <2>1
  \* The instructions that only change what is owed.
  <1>8. ASSUME swap = NoSwap, id \in Open, NEW owed,
               positions' = [positions EXCEPT ![id].owed = owed],
               UNCHANGED <<pool, ticks, swap>>
        PROVE  GrowthInv'
    <2> DEFINE q == [positions[id] EXCEPT !.owed = owed]
    <2>1. positions[id] \in PositionRecords /\ id \in Held(positions)
      BY <1>8, OpenTyped DEF Open, Held
    <2>2. positions'[id] = q /\ \A x \in PositionIds : x # id => positions'[x] = positions[x]
      BY <1>2, <1>8 DEF Accounts
    <2>3. /\ q.liquidity = positions[id].liquidity /\ q.checkpoint = positions[id].checkpoint
          /\ q.tick_lower_index = positions[id].tick_lower_index
          /\ q.tick_upper_index = positions[id].tick_upper_index
      BY <2>1 DEF PositionRecords
    <2> HIDE DEF q
    <2>4. Liquid(positions', id) => Liquid(positions, id)
      BY <2>1, <2>2, <2>3 DEF Liquid
    <2> QED BY <1>8, <2>2, <2>3, <2>4, AccountGrowth
  <1>9. CASE CollectFees(id)
    <2> DEFINE owed == [k \in Kinds |-> IF k \in Tokens THEN 0 ELSE positions[id].owed[k]]
    <2>1. /\ swap = NoSwap /\ id \in Open /\ UNCHANGED <<pool, ticks, swap>>
          /\ positions' = [positions EXCEPT ![id].owed = owed]
      BY <1>9 DEF CollectFees
    <2> HIDE DEF owed
    <2> QED BY <1>8, <2>1
  <1>10. ASSUME NEW r \in Rewards, CollectReward(id, r) PROVE GrowthInv'
    <2> DEFINE c == calculate_collect_reward(positions[id].owed[r], vault[r])
               owed == [positions[id].owed EXCEPT ![r] = c.owed]
    <2>1. /\ swap = NoSwap /\ id \in Open /\ UNCHANGED <<pool, ticks, swap>>
          /\ positions' = [positions EXCEPT ![id].owed = owed]
      BY <1>10 DEF CollectReward
    <2> HIDE DEF owed
    <2> QED BY <1>8, <2>1
  <1> QED BY <1>1, <1>3, <1>4, <1>6, <1>7, <1>9, <1>10

LEMMA SwapGrowth ==
    ASSUME PoolInv, LiquidityInv, GrowthInv, GrowthUnwrapped, SwapNext
    PROVE  GrowthInv'
  <1>1. positions \in Accounts /\ Ordered(positions)
    BY DEF PoolInv, TypeOK, Accounts, LiquidityInv
  \* The swap in progress is thrown away.
  <1>2. ASSUME swap' = NoSwap, UNCHANGED <<pool, tick_arrays, ticks, positions, vault, clock>>
        PROVE  GrowthInv'
    BY <1>2 DEF GrowthInv
  <1>3. CASE swap # NoSwap /\ SwapSearches(NextTick(swap))
    <2> DEFINE found == NextTick(swap)
               c == Computation(swap, found)
               after == Iteration(swap, found, c)
    <2>1. SwapIterates(found, c) \/ SwapFails(found, c)
      BY <1>3, Zenon DEF SwapSearches, SwapLoops
    <2>2. CASE SwapIterates(found, c)
      <3>1. /\ Looping(swap) /\ IterationSucceeds(swap, found, c) /\ swap' = after
            /\ UNCHANGED <<pool, ticks, positions>>
        BY <2>2 DEF SwapIterates
      <3>2. /\ swap \in SwapRecords /\ pool \in PoolRecords /\ SwapRuns(swap, pool.sqrt_price)
            /\ pool.sqrt_price \in Nat
        BY <1>3, SwapTyped
      <3>3. /\ Books(positions, swap.tick, swap.liquidity, swap.ticks)
            /\ GrowthBook(positions, swap.tick, swap.ticks, swap.growth, Active(pool))
        BY <1>3 DEF LiquidityInv, GrowthInv
      <3> HIDE DEF found, c, after
      <3>4. swap' # NoSwap => \A k \in Kinds : after.growth[k] >= swap.growth[k]
        BY <1>3, <3>1 DEF GrowthUnwrapped
      <3>5. swap' # NoSwap => GrowthBook(positions, after.tick, after.ticks, after.growth, Active(pool))
        BY <1>1, <3>1, <3>2, <3>3, <3>4, IterationGrowth DEF found, c, after
      <3> QED BY <3>1, <3>5 DEF GrowthInv
    <2>3. CASE SwapFails(found, c)
      BY <1>2, <2>3 DEF SwapFails
    <2> QED BY <2>1, <2>2, <2>3
  <1>4. CASE SwapCommits
    <2>1. /\ swap # NoSwap /\ swap' = NoSwap /\ ticks' = swap.ticks /\ positions' = positions
          /\ pool' = [pool EXCEPT
                        !.sqrt_price = swap.sqrt_price,
                        !.tick_current_index = swap.tick,
                        !.liquidity = swap.liquidity,
                        !.growth = swap.growth,
                        !.reward_last_updated_timestamp = clock,
                        !.protocol_fee_owed[InputToken(swap)] = WrapU64(@ + swap.protocol_fee)]
      BY <1>4 DEF SwapCommits
    <2>2. pool \in PoolRecords
      BY DEF PoolInv, TypeOK
    <2>3. /\ pool'.tick_current_index = swap.tick /\ pool'.growth = swap.growth
          /\ pool'.rewards = pool.rewards
      BY <2>1, <2>2 DEF PoolRecords
    <2> QED BY <2>1, <2>3 DEF GrowthInv, Active
  <1>5. CASE SwapRefused
    BY <1>2, <1>5 DEF SwapRefused
  <1> QED BY <1>3, <1>4, <1>5 DEF SwapNext

\* The rewards accrued up to the clock are settled.
LEMMA SettledGrowth ==
    ASSUME PoolInv, LiquidityInv, GrowthInv, ~InvalidTimestamp(pool, clock),
           NEW growth, growth = next_whirlpool_reward_infos(pool, clock),
           \A k \in Kinds : growth[k] >= pool.growth[k]
    PROVE  GrowthBook(positions, pool.tick_current_index, ticks, growth, Active(pool))
  <1>1. /\ pool \in PoolRecords /\ ticks \in [Usable -> TickRecords] /\ positions \in Accounts
        /\ clock \in Nat /\ Ordered(positions)
    BY DEF PoolInv, TypeOK, Accounts, LiquidityInv
  <1>2. pool.growth \in [Kinds -> U128] /\ pool.tick_current_index \in Int
    BY <1>1, TickIndexAssumption DEF PoolRecords
  <1>3. growth \in [Kinds -> U128]
    BY <1>1, GrowthTyped
  <1>4. \A k \in Kinds \ Active(pool) : growth[k] = pool.growth[k]
    BY DEF next_whirlpool_reward_infos, Active
  <1> QED BY <1>1, <1>2, <1>3, <1>4, GrowthRises DEF GrowthInv

LEMMA AuthorityGrowth ==
    ASSUME PoolInv, LiquidityInv, GrowthInv, GrowthUnwrapped, AuthorityNext
    PROVE  GrowthInv'
  <1>1. pool \in PoolRecords
    BY DEF PoolInv, TypeOK
  \* A reward that is initialised has not grown yet.
  <1>2. ASSUME swap = NoSwap, UNCHANGED <<ticks, positions, swap>>,
               pool'.tick_current_index = pool.tick_current_index, pool'.growth = pool.growth,
               pool.rewards \subseteq pool'.rewards
        PROVE  GrowthInv'
    BY <1>2 DEF GrowthInv, GrowthBook, Active
  <1>3. ASSUME NEW r, NEW emissions, SetRewardEmissions(r, emissions) PROVE GrowthInv'
    <2> DEFINE growth == next_whirlpool_reward_infos(pool, clock)
    <2>1. /\ swap = NoSwap /\ UNCHANGED <<ticks, positions, swap>> /\ ~InvalidTimestamp(pool, clock)
          /\ pool'.growth = growth /\ pool'.rewards = pool.rewards
          /\ pool'.tick_current_index = pool.tick_current_index
      BY <1>1, <1>3 DEF SetRewardEmissions, update_emissions, PoolRecords
    <2>2. \A k \in Kinds : growth[k] >= pool.growth[k]
      BY <2>1 DEF GrowthUnwrapped
    <2> HIDE DEF growth
    <2>3. GrowthBook(positions, pool.tick_current_index, ticks, growth, Active(pool))
      BY <2>1, <2>2, SettledGrowth DEF growth
    <2> QED BY <2>1, <2>3 DEF GrowthInv, Active
  <1>4. CASE \/ CollectProtocolFees
             \/ \E rate \in FeeRates : SetFeeRate(rate)
             \/ \E rate \in ProtocolFeeRates : SetProtocolFeeRate(rate)
             \/ \E i \in 1..Len(RewardNames) : InitializeReward(i)
    <2>1. /\ swap = NoSwap /\ UNCHANGED <<ticks, positions, swap>>
          /\ pool'.tick_current_index = pool.tick_current_index /\ pool'.growth = pool.growth
          /\ pool.rewards \subseteq pool'.rewards
      BY <1>1, <1>4 DEF CollectProtocolFees, SetFeeRate, SetProtocolFeeRate, InitializeReward, PoolRecords
    <2> QED BY <1>2, <2>1
  <1> QED BY <1>3, <1>4 DEF AuthorityNext

LEMMA GrowthStep ==
    PoolInv /\ LiquidityInv /\ GrowthInv /\ [Next]_vars /\ [GrowthUnwrapped]_vars => GrowthInv'
  <1> SUFFICES ASSUME PoolInv, LiquidityInv, GrowthInv, [Next]_vars, [GrowthUnwrapped]_vars
               PROVE  GrowthInv'
    OBVIOUS
  <1>1. CASE UNCHANGED vars
    BY <1>1 DEF vars, GrowthInv
  <1> SUFFICES ASSUME Next, GrowthUnwrapped PROVE GrowthInv'
    BY <1>1
  <1>2. CASE PositionNext
    BY <1>2, PositionGrowth
  <1>3. CASE AuthorityNext
    BY <1>3, AuthorityGrowth
  <1>4. CASE SwapNext
    BY <1>4, SwapGrowth
  <1>5. CASE \/ \E start \in Starts : InitializeTickArray(start)
             \/ \E r \in Rewards, amount \in FundAmounts : FundReward(r, amount)
             \/ \E now \in Times : ClockMoves(now)
    <2>1. UNCHANGED <<pool, ticks, positions, swap>>
      BY <1>5 DEF InitializeTickArray, FundReward, ClockMoves
    <2> QED BY <2>1 DEF GrowthInv
  <1>6. ASSUME NEW amount \in SwapAmounts, NEW threshold \in SwapThresholds, NEW limit \in SwapLimits,
               NEW is_input \in BOOLEAN, NEW a_to_b \in BOOLEAN, NEW arrays \in ArrayInputs,
               BeginSwap(amount, threshold, limit, is_input, a_to_b, arrays)
        PROVE  GrowthInv'
    <2> DEFINE growth == next_whirlpool_reward_infos(pool, clock)
    <2>1. /\ swap = NoSwap /\ ~InvalidTimestamp(pool, clock) /\ UNCHANGED <<pool, ticks, positions>>
          /\ swap'.tick = pool.tick_current_index /\ swap'.growth = growth /\ swap'.ticks = ticks
      BY <1>6 DEF BeginSwap
    <2>2. swap' # NoSwap => \A k \in Kinds : growth[k] >= pool.growth[k]
      BY <2>1 DEF GrowthUnwrapped
    <2> HIDE DEF growth
    <2>3. swap' # NoSwap => GrowthBook(positions, pool.tick_current_index, ticks, growth, Active(pool))
      BY <2>1, <2>2, SettledGrowth DEF growth
    <2> QED BY <2>1, <2>3 DEF GrowthInv
  <1> QED BY <1>2, <1>3, <1>4, <1>5, <1>6 DEF Next

\* The growth inside the range of a position with liquidity never runs back
\* behind its checkpoint, on chain or inside a swap, in every pool in which the
\* global growths themselves have not wrapped round.
THEOREM GrowthStaysAhead == Spec /\ [][GrowthUnwrapped]_vars => []GrowthNeverRunsBack
  <1>1. PoolInv /\ LiquidityInv /\ GrowthInv => GrowthNeverRunsBack
    <2> SUFFICES ASSUME PoolInv, LiquidityInv, GrowthInv, NEW v \in Views, NEW id \in Open,
                        NEW k \in Active(pool), k \in Kinds, positions[id].liquidity > 0
                 PROVE  WrapU128(InsideOf(v, id)[k] - positions[id].checkpoint[k]) <= v.growth[k]
      BY DEF GrowthNeverRunsBack
    <2> DEFINE p == positions
               lower == p[id].tick_lower_index
               upper == p[id].tick_upper_index
               c == p[id].checkpoint[k]
               J == Within(p[id], v.tick, v.ticks, v.growth, k)
    <2>1. /\ GrowthBook(p, v.tick, v.ticks, v.growth, Active(pool))
          /\ Books(p, v.tick, v.liquidity, v.ticks)
          /\ v.ticks \in [Usable -> TickRecords] /\ v.growth \in [Kinds -> U128] /\ v.tick \in Int
      <3>1. CASE v = Committed
        BY <3>1, TickIndexAssumption DEF Committed, GrowthInv, LiquidityInv, PoolInv, TypeOK, PoolRecords
      <3>2. CASE swap # NoSwap /\ v = Working
        <4>1. swap \in SwapRecords
          BY <3>2 DEF PoolInv, TypeOK
        <4> QED BY <3>2, <4>1, TickIndexAssumption DEF Working, GrowthInv, LiquidityInv, SwapRecords
      <3> QED BY <3>1, <3>2 DEF Views
    <2>2. p \in Accounts /\ id \in Held(p) /\ id \in PositionIds /\ Liquid(p, id)
      BY DEF PoolInv, TypeOK, Accounts, Open, Held, Liquid
    <2>3. /\ lower \in Usable /\ v.ticks[lower].initialized
          /\ upper \in Usable /\ v.ticks[upper].initialized
      BY <2>1, <2>2, EndsInitialized DEF Books, Liquid, Initialized
    <2>4. c \in Int
      <3>1. c \in U128
        BY <2>2 DEF Accounts, Held, PositionRecords
      <3> QED BY <3>1, Unsigned
    <2>5. InsideOf(v, id)[k] = WrapU128(J)
      <3>1. Dormant(v.ticks, v.growth, Active(pool))
        BY <2>1, BelowDormant DEF GrowthBook
      <3> HIDE DEF p, lower, upper
      <3>2. next_growths_inside(v.tick, v.ticks, lower, upper, v.growth, Active(pool))[k]
              = WrapU128(LeftOf(k, v.tick, v.ticks[upper], upper, v.growth)
                           - LeftOf(k, v.tick, v.ticks[lower], lower, v.growth))
        BY <2>1, <2>3, <3>1, InsideWithin
      <3> QED BY <3>2 DEF InsideOf, Within, p, lower, upper
    <2>6. J \in Int
      <3>1. ASSUME NEW t \in Usable PROVE LeftOf(k, v.tick, v.ticks[t], t, v.growth) \in Int
        BY <2>1, LeftTyped
      <3> QED BY <2>3, <3>1 DEF Within
    <2>7. WrapU128(J - c) <= v.growth[k]
      BY <2>1, <2>2 DEF GrowthBook, EarnedBelow, Since
    <2> HIDE DEF J, c
    <2>8. WrapU128(WrapU128(J) - c) = WrapU128(J - c)
      BY <2>4, <2>6, WrapOfWrap
    <2> QED BY <2>5, <2>7, <2>8 DEF c
  <1> QED BY LiquidityAlways, GrowthInit, GrowthStep, <1>1, PTL DEF Spec

-----------------------------------------------------------------------------
(* What a reward owes to the positions. *)

LEMMA MaxOfTwo ==
    ASSUME NEW a \in Int, NEW b \in Int
    PROVE  Max({a, b}) = IF a >= b THEN a ELSE b
  <1> DEFINE m == IF a >= b THEN a ELSE b
  <1>1. m \in {a, b} /\ \A y \in {a, b} : m >= y
    OBVIOUS
  <1>2. \A x \in {a, b} : (\A y \in {a, b} : x >= y) => x = m
    OBVIOUS
  <1> HIDE DEF m
  <1>3. Max({a, b}) \in {a, b} /\ \A y \in {a, b} : Max({a, b}) >= y
    BY <1>1 DEF Max
  <1> QED BY <1>2, <1>3 DEF m

\* A total is monotone in what is summed.
LEMMA TotalBelow ==
    ASSUME NEW S, IsFiniteSet(S), NEW f, NEW g,
           \A x \in S : f[x] \in Int /\ g[x] \in Int /\ f[x] <= g[x]
    PROVE  Total(f, S) <= Total(g, S)
  <1> DEFINE h == [x \in S |-> g[x] - f[x]]
  <1>1. \A x \in S : h[x] \in Nat /\ h[x] \in Int /\ g[x] = f[x] + h[x]
    OBVIOUS
  <1> HIDE DEF h
  <1>2. Total(g, S) = Total(f, S) + Total(h, S)
    BY <1>1, TotalAdds
  <1>3. Total(h, S) \in Nat /\ Total(f, S) \in Int
    BY <1>1, TotalNat, TotalTyped
  <1> QED BY <1>2, <1>3

\* One element takes less, by e, and no other takes more.
LEMMA TotalLess ==
    ASSUME NEW S, IsFiniteSet(S), NEW f, NEW g, NEW y \in S, NEW e \in Int,
           \A x \in S : f[x] \in Int /\ g[x] \in Int,
           \A x \in S : x # y => g[x] <= f[x],
           g[y] + e <= f[y]
    PROVE  Total(g, S) + e <= Total(f, S)
  <1> DEFINE T == S \ {y}
  <1>1. Total(f, S) = f[y] + Total(f, T) /\ Total(g, S) = g[y] + Total(g, T)
    BY TotalWithout
  <1>2. IsFiniteSet(T) /\ \A x \in T : f[x] \in Int /\ g[x] \in Int /\ g[x] <= f[x]
    BY FS_Subset
  <1> HIDE DEF T
  <1>3. Total(f, T) \in Int /\ Total(g, T) \in Int /\ Total(g, T) <= Total(f, T)
    BY <1>2, TotalTyped, TotalBelow
  <1>4. f[y] \in Int /\ g[y] \in Int
    OBVIOUS
  <1> QED BY <1>1, <1>3, <1>4

\* A factor may be taken out of a total.
LEMMA TotalScales ==
    ASSUME NEW S, IsFiniteSet(S), NEW f, NEW g, NEW n \in Int,
           \A x \in S : f[x] \in Int /\ g[x] = f[x] * n
    PROVE  Total(g, S) = Total(f, S) * n
  <1> DEFINE Q == {s \in SUBSET S : Total(g, s) = Total(f, s) * n}
  <1>1. {} \in Q
    <2>1. 0 * n = 0
      OBVIOUS
    <2> QED BY <2>1, TotalEmpty
  <1>2. ASSUME NEW s \in SUBSET S, s # {}, \A x \in s : s \ {x} \in Q PROVE s \in Q
    <2> DEFINE x == First(s)
               r == s \ {x}
    <2>1. x \in s /\ IsFiniteSet(s) /\ IsFiniteSet(r)
      BY <1>2, FirstIn, FS_Subset
    <2>2. Total(f, s) = f[x] + Total(f, r) /\ Total(g, s) = g[x] + Total(g, r)
      BY <1>2, <2>1, TotalFirst
    <2>3. Total(f, r) \in Int /\ f[x] \in Int
      BY <2>1, TotalTyped
    <2>4. Total(g, r) = Total(f, r) * n /\ g[x] = f[x] * n
      BY <1>2, <2>1
    <2> DEFINE a == f[x]
               b == Total(f, r)
    <2> HIDE DEF a, b
    <2>5. a \in Int /\ b \in Int
      BY <2>3 DEF a, b
    <2>6. (a + b) * n = a * n + b * n
      BY <2>5, Distributes
    <2>7. Total(g, s) = (a + b) * n /\ Total(f, s) = a + b
      BY <2>2, <2>4, <2>6 DEF a, b
    <2> QED BY <2>7
  <1> HIDE DEF Q
  <1>3. \A s \in SUBSET S : s \in Q
    BY <1>1, <1>2, SubsetInduction, Zenon
  <1> QED BY <1>3 DEF Q

\* What is due to a position, in units of 1 / WORD token: what it is owed and
\* what it earned since its checkpoint, not rounded.
Due(p, current, tks, growth, r, id) ==
    IF id \in Held(p)
    THEN WORD * p[id].owed[r] + p[id].liquidity * Since(p[id], current, tks, growth, r)
    ELSE 0

DueTo(p, current, tks, growth, r) ==
    [id \in PositionIds |-> Due(p, current, tks, growth, r, id)]

Dues(p, current, tks, growth, r) == Total(DueTo(p, current, tks, growth, r), PositionIds)

LEMMA SinceTyped ==
    ASSUME NEW position \in PositionRecords, NEW current, NEW tks \in [Usable -> TickRecords],
           NEW growth \in [Kinds -> U128], NEW k \in Kinds
    PROVE  /\ Within(position, current, tks, growth, k) \in Int
           /\ position.checkpoint[k] \in Int
           /\ Since(position, current, tks, growth, k) \in Nat
           /\ Since(position, current, tks, growth, k) \in U128
  <1>1. position.tick_lower_index \in Usable /\ position.tick_upper_index \in Usable
    BY DEF PositionRecords
  <1>2. ASSUME NEW t \in Usable PROVE LeftOf(k, current, tks[t], t, growth) \in Int
    BY LeftTyped
  <1>3. Within(position, current, tks, growth, k) \in Int
    BY <1>1, <1>2 DEF Within
  <1>4. position.checkpoint[k] \in Int
    <2>1. position.checkpoint[k] \in U128
      BY DEF PositionRecords
    <2> QED BY <2>1, Unsigned
  <1>5. Within(position, current, tks, growth, k) - position.checkpoint[k] \in Int
    BY <1>3, <1>4
  <1>6. Since(position, current, tks, growth, k) \in U128
    BY <1>5, Wraps DEF Since
  <1> QED BY <1>3, <1>4, <1>6, Unsigned

LEMMA DueTyped ==
    ASSUME NEW p \in Accounts, NEW current, NEW tks \in [Usable -> TickRecords],
           NEW growth \in [Kinds -> U128], NEW r \in Kinds, NEW id \in PositionIds
    PROVE  /\ Due(p, current, tks, growth, r, id) \in Nat
           /\ Due(p, current, tks, growth, r, id) \in Int
           /\ DueTo(p, current, tks, growth, r)[id] = Due(p, current, tks, growth, r, id)
  <1>1. CASE id \in Held(p)
    <2> DEFINE owed == p[id].owed[r]
               L == p[id].liquidity
               since == Since(p[id], current, tks, growth, r)
    <2>1. p[id] \in PositionRecords
      BY <1>1 DEF Held, Accounts
    <2>2. owed \in Nat
      <3>1. owed \in U64
        BY <2>1 DEF PositionRecords
      <3> QED BY <3>1, Unsigned
    <2>3. L \in Nat /\ since \in Nat /\ WORD \in Nat
      BY <1>1, <2>1, HeldTyped, SinceTyped, Widths
    <2> HIDE DEF owed, L, since
    <2>4. WORD * owed \in Nat /\ L * since \in Nat
      BY <2>2, <2>3, ProductNat
    <2> DEFINE a == WORD * owed
               b == L * since
    <2>5. Due(p, current, tks, growth, r, id) = a + b
      BY <1>1 DEF Due, owed, L, since
    <2> HIDE DEF a, b
    <2>6. a \in Nat /\ b \in Nat
      BY <2>4 DEF a, b
    <2>7. Due(p, current, tks, growth, r, id) \in Nat
      BY <2>5, <2>6
    <2> QED BY <2>7 DEF DueTo
  <1>2. CASE id \notin Held(p)
    BY <1>2 DEF Due, DueTo
  <1> QED BY <1>1, <1>2

LEMMA DuesTyped ==
    ASSUME NEW p \in Accounts, NEW current, NEW tks \in [Usable -> TickRecords],
           NEW growth \in [Kinds -> U128], NEW r \in Kinds
    PROVE  Dues(p, current, tks, growth, r) \in Nat /\ Dues(p, current, tks, growth, r) \in Int
  <1> DEFINE f == DueTo(p, current, tks, growth, r)
  <1>1. \A id \in PositionIds : f[id] \in Nat
    BY DueTyped
  <1> HIDE DEF f
  <1>2. Total(f, PositionIds) \in Nat
    BY <1>1, PositionAssumption, TotalNat
  <1> QED BY <1>2 DEF Dues, f

\* A growth that rises by n, with or without wrapping round, raises what is due
\* to a position by at most n times its liquidity, if its range holds the
\* current tick, and otherwise not at all.
LEMMA SinceRises ==
    ASSUME NEW p \in Accounts, Ordered(p), NEW current \in Int,
           NEW tks \in [Usable -> TickRecords],
           NEW growth \in [Kinds -> U128], NEW next \in [Kinds -> U128], NEW r \in Kinds,
           NEW n \in Nat, next[r] = WrapU128(growth[r] + n), NEW id \in Held(p)
    PROVE  Since(p[id], current, tks, next, r)
             <= Since(p[id], current, tks, growth, r) + (IF id \in InRange(p, current) THEN n ELSE 0)
  <1> DEFINE lower == p[id].tick_lower_index
             upper == p[id].tick_upper_index
             c == p[id].checkpoint[r]
             g == growth[r]
             h == next[r]
             o(t) == tks[t].growth_outside[r]
             since == Since(p[id], current, tks, growth, r)
             later == Since(p[id], current, tks, next, r)
  <1>1. /\ lower \in Usable /\ upper \in Usable /\ lower \in Int /\ upper \in Int
        /\ lower < upper /\ p[id] \in PositionRecords
    BY HeldTyped DEF Ordered, Accounts, Held
  <1>2. since \in Nat /\ later \in Nat /\ c \in Int
    BY <1>1, SinceTyped
  <1>3. g \in Nat /\ h \in Nat /\ o(lower) \in Nat /\ o(upper) \in Nat
    BY <1>1, LeftTyped
  <1>4. /\ since = WrapU128((IF current < upper THEN g - o(upper) ELSE o(upper))
                            - (IF current < lower THEN g - o(lower) ELSE o(lower)) - c)
        /\ later = WrapU128((IF current < upper THEN h - o(upper) ELSE o(upper))
                            - (IF current < lower THEN h - o(lower) ELSE o(lower)) - c)
    BY DEF Since, Within, LeftOf
  <1>5. id \in InRange(p, current) <=> lower <= current /\ current < upper
    BY DEF InRange
  <1>6. h = WrapU128(g + n)
    OBVIOUS
  <1> DEFINE a == o(lower)
             b == o(upper)
  <1> HIDE DEF lower, upper, c, g, h, o, since, later, a, b
  <1>7. a \in Nat /\ b \in Nat /\ a = o(lower) /\ b = o(upper)
    BY <1>3 DEF a, b
  <1>8. CASE current < lower
    <2>1. current < upper /\ id \notin InRange(p, current)
      BY <1>1, <1>5, <1>8
    <2>2. since = WrapU128((g - b) - (g - a) - c) /\ later = WrapU128((h - b) - (h - a) - c)
      BY <1>4, <1>7, <1>8, <2>1
    <2>3. (g - b) - (g - a) - c = (h - b) - (h - a) - c
      BY <1>2, <1>3, <1>7
    <2>4. since = later
      BY <2>2, <2>3, Zenon
    <2> QED BY <1>2, <2>1, <2>4 DEF since, later
  <1>9. CASE upper <= current
    <2>1. ~(current < upper) /\ ~(current < lower) /\ id \notin InRange(p, current)
      BY <1>1, <1>5, <1>9
    <2>2. since = WrapU128(b - a - c) /\ later = WrapU128(b - a - c)
      BY <1>4, <1>7, <2>1
    <2> QED BY <1>2, <2>1, <2>2 DEF since, later
  <1>10. CASE lower <= current /\ current < upper
    <2>1. ~(current < lower) /\ id \in InRange(p, current)
      BY <1>1, <1>5, <1>10
    <2>2. since = WrapU128((g - b) - a - c) /\ later = WrapU128((h - b) - a - c)
      BY <1>4, <1>7, <1>10, <2>1
    <2> DEFINE z == b + a + c
    <2>3. (g - b) - a - c = g - z /\ (h - b) - a - c = h - z /\ z \in Int
      BY <1>2, <1>3, <1>7
    <2> HIDE DEF z
    <2>4. g + n \in Int /\ g - z \in Int /\ (g + n) - z = (g - z) + n
      BY <1>3, <2>3
    <2>5. later = WrapU128((g - z) + n)
      <3>1. WrapU128(WrapU128(g + n) - z) = WrapU128((g + n) - z)
        BY <2>3, <2>4, WrapOfWrap
      <3> QED BY <1>6, <2>2, <2>3, <2>4, <3>1, Zenon
    <2>6. WrapU128((g - z) + n) <= WrapU128(g - z) + n
      BY <2>4, WrapAtMost
    <2> QED BY <2>1, <2>2, <2>3, <2>5, <2>6 DEF since, later
  <1> QED BY <1>1, <1>8, <1>9, <1>10

LEMMA DuesRise ==
    ASSUME NEW p \in Accounts, Ordered(p), NEW current \in Int,
           NEW tks \in [Usable -> TickRecords],
           NEW growth \in [Kinds -> U128], NEW next \in [Kinds -> U128], NEW r \in Kinds,
           NEW n \in Nat, next[r] = WrapU128(growth[r] + n)
    PROVE  Dues(p, current, tks, next, r)
             <= Dues(p, current, tks, growth, r) + LiquidityIn(p, InRange(p, current)) * n
  <1> DEFINE f == DueTo(p, current, tks, growth, r)
             g == DueTo(p, current, tks, next, r)
             S == Shares(p, InRange(p, current))
             e == [id \in PositionIds |-> S[id] * n]
             h == [id \in PositionIds |-> f[id] + e[id]]
             L == LiquidityIn(p, InRange(p, current))
  <1>1. ASSUME NEW id \in PositionIds PROVE f[id] \in Int /\ g[id] \in Int /\ S[id] \in Int /\ S[id] \in Nat
    <2>1. S[id] \in Nat
      BY RangesHeld, ShareTyped
    <2>2. f[id] \in Int /\ g[id] \in Int
      BY DueTyped
    <2> QED BY <2>1, <2>2
  <1>2. ASSUME NEW id \in PositionIds PROVE g[id] <= f[id] + S[id] * n
    <2>1. CASE id \in Held(p)
      <3> DEFINE l == p[id].liquidity
                 x == Since(p[id], current, tks, growth, r)
                 y == Since(p[id], current, tks, next, r)
                 w == WORD * p[id].owed[r]
                 m == IF id \in InRange(p, current) THEN n ELSE 0
      <3>1. l \in Nat /\ p[id] \in PositionRecords
        BY <2>1, HeldTyped DEF Held, Accounts
      <3>2. x \in Nat /\ y \in Nat
        BY <3>1, SinceTyped
      <3>3. y <= x + m
        BY <2>1, SinceRises
      <3>4. f[id] = w + l * x /\ g[id] = w + l * y
        BY <2>1 DEF DueTo, Due
      <3>5. S[id] = IF id \in InRange(p, current) THEN l ELSE 0
        BY DEF Shares, Share
      <3>6. w \in Int
        <4>1. p[id].owed[r] \in U64
          BY <3>1 DEF PositionRecords
        <4>2. p[id].owed[r] \in Int /\ WORD \in Int
          BY <4>1, Unsigned, Widths
        <4> QED BY <4>2, ProductInt
      <3>7. l * m = S[id] * n
        <4>1. CASE id \in InRange(p, current)
          BY <3>5, <4>1
        <4>2. CASE id \notin InRange(p, current)
          <5>1. m = 0 /\ S[id] = 0
            BY <3>5, <4>2
          <5>2. l * 0 = 0 * n
            BY <3>1
          <5> QED BY <5>1, <5>2
        <4> QED BY <4>1, <4>2
      <3>8. m \in Nat
        OBVIOUS
      <3> HIDE DEF f, g, S, l, x, y, w, m
      <3>9. l * y <= l * x + l * m
        <4>1. x + m \in Int /\ l * (x + m) = l * x + l * m
          BY <3>1, <3>2, <3>8
        <4>2. y * l <= (x + m) * l
          BY <3>1, <3>2, <3>3, <4>1, ProductMonotone
        <4>3. y * l = l * y /\ (x + m) * l = l * (x + m)
          BY <3>1, <3>2, <4>1, ProductTurned
        <4> QED BY <4>1, <4>2, <4>3
      <3> DEFINE u == l * y
                 v == l * x
                 z == l * m
      <3>10. u \in Int /\ v \in Int /\ z \in Int
        BY <3>1, <3>2, <3>8, ProductInt
      <3>11. u <= v + z
        BY <3>9
      <3>12. f[id] = w + v /\ g[id] = w + u /\ S[id] * n = z
        BY <3>4, <3>7
      <3> HIDE DEF u, v, z
      <3>13. w + u <= (w + v) + z
        BY <3>6, <3>10, <3>11
      <3> QED BY <3>12, <3>13, Zenon
    <2>2. CASE id \notin Held(p)
      <3>1. f[id] = 0 /\ g[id] = 0 /\ S[id] = 0
        BY <2>2 DEF DueTo, Due, Shares, Share, InRange
      <3>2. 0 <= 0 + 0 * n
        OBVIOUS
      <3> QED BY <3>1, <3>2
    <2> QED BY <2>1, <2>2
  <1>3. L = Total(S, PositionIds)
    BY RangesHeld, LiquidityTotal
  <1> HIDE DEF f, g, S, L
  <1>4. \A id \in PositionIds : S[id] \in Int /\ e[id] = S[id] * n /\ e[id] \in Int
    BY <1>1, ProductInt
  <1>5. \A id \in PositionIds : h[id] = f[id] + e[id]
    OBVIOUS
  <1> HIDE DEF e, h
  <1>6. \A id \in PositionIds : f[id] \in Int /\ g[id] \in Int /\ h[id] \in Int /\ g[id] <= h[id]
    <2> SUFFICES ASSUME NEW id \in PositionIds
                 PROVE  f[id] \in Int /\ g[id] \in Int /\ h[id] \in Int /\ g[id] <= h[id]
      OBVIOUS
    <2>1. f[id] \in Int /\ g[id] \in Int /\ e[id] \in Int
      BY <1>1, <1>4
    <2>2. h[id] = f[id] + e[id] /\ g[id] <= f[id] + e[id]
      BY <1>2, <1>4, <1>5
    <2> QED BY <2>1, <2>2
  <1>7. Total(g, PositionIds) <= Total(h, PositionIds)
    BY <1>6, PositionAssumption, TotalBelow
  <1>8. Total(h, PositionIds) = Total(f, PositionIds) + Total(e, PositionIds)
    BY <1>4, <1>5, <1>6, PositionAssumption, TotalAdds
  <1>9. Total(e, PositionIds) = Total(S, PositionIds) * n
    BY <1>4, PositionAssumption, TotalScales
  <1> QED BY <1>3, <1>7, <1>8, <1>9 DEF Dues, f, g, L

\* The seconds up to time now that are not settled yet.
Unsettled(now) == Max({now, pool.reward_last_updated_timestamp}) - pool.reward_last_updated_timestamp

\* What a reward has emitted and not yet settled.
Pending(r) == IF pool.liquidity > 0 THEN pool.emissions[r] * Unsettled(clock) ELSE 0

LEMMA PendingTyped ==
    ASSUME PoolInv, NEW r \in Rewards
    PROVE  /\ Pending(r) \in Nat /\ Pending(r) \in Int /\ Unsettled(clock) \in Nat
           /\ pool.emissions[r] \in Nat
           /\ ~InvalidTimestamp(pool, clock) =>
                 Unsettled(clock) = clock - pool.reward_last_updated_timestamp
  <1> DEFINE s == pool.reward_last_updated_timestamp
             E == pool.emissions[r]
  <1>1. s \in Nat /\ clock \in Nat /\ E \in U128 /\ E \in Nat
    <2>1. pool \in PoolRecords /\ clock \in Nat
      BY DEF PoolInv, TypeOK
    <2>2. s \in Nat /\ E \in U128
      BY <2>1 DEF PoolRecords
    <2> QED BY <2>1, <2>2, Unsigned
  <1>2. InvalidTimestamp(pool, clock) <=> clock < s
    BY DEF InvalidTimestamp
  <1> HIDE DEF s, E
  <1>3. Max({clock, s}) = IF clock >= s THEN clock ELSE s
    BY <1>1, MaxOfTwo
  <1>4. Unsettled(clock) = Max({clock, s}) - s
    BY DEF Unsettled, s
  <1>5. Unsettled(clock) \in Nat /\ (~InvalidTimestamp(pool, clock) => Unsettled(clock) = clock - s)
    BY <1>1, <1>2, <1>3, <1>4
  <1>6. Pending(r) \in Nat
    BY <1>1, <1>5, ProductNat DEF Pending, E
  <1> QED BY <1>1, <1>5, <1>6 DEF s, E

\* next_whirlpool_reward_infos hands out no more than was emitted: each
\* position in range gets its share of the growth, and one second's growth
\* times the pool's liquidity is at most one second's emission.
LEMMA AccruesPending ==
    ASSUME PoolInv, LiquidityInv, ~InvalidTimestamp(pool, clock), NEW r \in Rewards
    PROVE  LET current == pool.tick_current_index
           IN  Dues(positions, current, ticks, next_whirlpool_reward_infos(pool, clock), r)
                 <= Dues(positions, current, ticks, pool.growth, r) + Pending(r)
  <1> DEFINE p == positions
             current == pool.tick_current_index
             G == next_whirlpool_reward_infos(pool, clock)
             L == pool.liquidity
             seconds == clock - pool.reward_last_updated_timestamp
             E == pool.emissions[r]
             d == checked_mul_div(seconds, E, L)
             grows == r \in pool.rewards /\ L > 0 /\ d # Err
             n == IF grows THEN d ELSE 0
  <1>1. /\ pool \in PoolRecords /\ ticks \in [Usable -> TickRecords] /\ p \in Accounts
        /\ Ordered(p) /\ L = LiquidityIn(p, InRange(p, current)) /\ clock \in Nat
    BY DEF PoolInv, TypeOK, Accounts, LiquidityInv, Books
  <1>2. /\ pool.growth \in [Kinds -> U128] /\ current \in Int /\ L \in Nat
        /\ G \in [Kinds -> U128] /\ r \in Kinds
    <2>1. pool.growth \in [Kinds -> U128] /\ current \in Int /\ L \in U128
      BY <1>1, TickIndexAssumption DEF PoolRecords
    <2>2. G \in [Kinds -> U128]
      BY <1>1, GrowthTyped
    <2>3. L \in Nat /\ r \in Kinds
      BY <2>1, KindSets, Unsigned
    <2> QED BY <2>1, <2>2, <2>3
  <1>3. seconds \in Nat /\ E \in Nat /\ Pending(r) \in Nat
        /\ Pending(r) = IF L > 0 THEN E * seconds ELSE 0
    BY PendingTyped DEF Pending
  <1>4. grows => d \in Nat /\ L * d <= Pending(r)
    <2> SUFFICES ASSUME grows PROVE d \in Nat /\ L * d <= Pending(r)
      OBVIOUS
    <2> HIDE DEF L, seconds, E
    <2>1. d = DivRound(seconds * E, L, FALSE) /\ L \in Nat \ {0} /\ seconds * E \in Nat
      BY <1>2, <1>3, MulDiv DEF checked_mul_div
    <2> HIDE DEF d
    <2>2. d \in Nat /\ d * L <= seconds * E
      BY <2>1, RoundedDown
    <2>3. d * L = L * d /\ seconds * E = E * seconds
      <3>1. d \in Int /\ L \in Int /\ seconds \in Int /\ E \in Int
        BY <1>2, <1>3, <2>2
      <3> QED BY <3>1, ProductTurned
    <2>4. Pending(r) = E * seconds
      BY <1>2, <1>3, <2>1
    <2> QED BY <2>2, <2>3, <2>4
  <1>5. n \in Nat /\ L * n <= Pending(r)
    <2> HIDE DEF d, L
    <2>1. CASE grows
      BY <1>4, <2>1
    <2>2. CASE ~grows
      <3>1. n = 0 /\ L * 0 = 0
        BY <1>2, <2>2
      <3> QED BY <1>3, <3>1
    <2> QED BY <2>1, <2>2
  <1>6. G[r] = WrapU128(pool.growth[r] + n)
    <2>1. G[r] = IF grows THEN WrapU128(pool.growth[r] + d) ELSE pool.growth[r]
      BY <1>2 DEF next_whirlpool_reward_infos
    <2>2. pool.growth[r] \in U128 /\ pool.growth[r] \in Int
      BY <1>2, Unsigned
    <2>3. WrapU128(pool.growth[r]) = pool.growth[r] /\ pool.growth[r] + 0 = pool.growth[r]
      BY <2>2, Wraps
    <2> HIDE DEF G, grows, d
    <2>4. CASE grows
      BY <2>1, <2>4
    <2>5. CASE ~grows
      BY <2>1, <2>3, <2>5
    <2> QED BY <2>4, <2>5
  <1>7. Dues(p, current, ticks, pool.growth, r) \in Nat /\ Dues(p, current, ticks, G, r) \in Nat
    BY <1>1, <1>2, DuesTyped
  <1> HIDE DEF G, L, current, p, n
  <1>8. Dues(p, current, ticks, G, r) <= Dues(p, current, ticks, pool.growth, r) + L * n
    BY <1>1, <1>2, <1>5, <1>6, DuesRise
  <1>9. L * n \in Int
    BY <1>2, <1>5, ProductInt
  <1> DEFINE a == Dues(p, current, ticks, G, r)
             b == Dues(p, current, ticks, pool.growth, r)
             e == L * n
  <1>10. a \in Nat /\ b \in Nat /\ e \in Int /\ a <= b + e /\ e <= Pending(r)
    BY <1>5, <1>7, <1>8, <1>9
  <1> HIDE DEF a, b, e
  <1>11. a <= b + Pending(r)
    BY <1>3, <1>10
  <1> QED BY <1>11 DEF a, b, G, current, p

LEMMA WrapBelow == ASSUME NEW n \in Nat PROVE WrapU64(n) \in Nat /\ WrapU64(n) <= n
  <1>1. ASSUME NEW d \in Nat \ {0} PROVE n % d \in Nat /\ n % d <= n
    BY DivisionOf
  <1> QED BY <1>1, Widths DEF WrapU64

\* What next_position_modify_liquidity_update credits is rounded down.
LEMMA EarnedRounds ==
    ASSUME NEW position \in PositionRecords, NEW inside \in [Kinds -> U128], NEW k \in Kinds,
           NEW x, x = WrapU128(inside[k] - position.checkpoint[k])
    PROVE  /\ x \in Nat /\ Earned(position, inside, k) \in Nat
           /\ WORD * Earned(position, inside, k) <= position.liquidity * x
  <1> DEFINE l == position.liquidity
             amount == checked_mul_shift_right_round_up_if(l, x, FALSE)
             e == Earned(position, inside, k)
  <1>1. l \in Nat
    <2>1. l \in U128
      BY DEF PositionRecords
    <2> QED BY <2>1, Unsigned
  <1>2. x \in Nat
    <2>1. inside[k] \in U128 /\ position.checkpoint[k] \in U128
      BY DEF PositionRecords
    <2>2. inside[k] - position.checkpoint[k] \in Int
      BY <2>1, Unsigned
    <2>3. x \in U128
      BY <2>2, Wraps
    <2> QED BY <2>3, Unsigned
  <1>3. e = IF amount = Err THEN 0 ELSE amount
    BY DEF Earned, checked_mul_shift_right
  <1>4. l * x \in Nat /\ WORD \in Nat \ {0}
    BY <1>1, <1>2, ProductNat, Widths
  <1> HIDE DEF l, e
  <1>5. CASE amount = Err
    <2>1. e = 0 /\ WORD * 0 = 0
      BY <1>3, <1>4, <1>5
    <2>2. WORD * e <= l * x
      BY <1>4, <2>1
    <2> QED BY <1>2, <2>1, <2>2 DEF l, e
  <1>6. CASE amount # Err
    <2>1. e = DivRound(l * x, WORD, FALSE)
      BY <1>1, <1>2, <1>3, <1>6, ShiftRight
    <2> HIDE DEF amount
    <2> DEFINE n == l * x
    <2>2. n \in Nat /\ e = DivRound(n, WORD, FALSE)
      BY <1>4, <2>1
    <2> HIDE DEF n
    <2>3. e \in Nat /\ e * WORD <= n
      BY <1>4, <2>2, RoundedDown
    <2>4. e * WORD = WORD * e
      BY <1>4, <2>3, ProductTurned
    <2> QED BY <1>2, <2>3, <2>4 DEF n, l, e
  <1> QED BY <1>5, <1>6

\* A position has earned no more than the growth within its range is worth.
LEMMA EarnedAtMost ==
    ASSUME NEW p \in Accounts, NEW current \in Int, NEW tks \in [Usable -> TickRecords],
           \A u \in Usable : TickBook(tks[u], p, u),
           NEW growth \in [Kinds -> U128], NEW active, Dormant(tks, growth, active),
           NEW id \in Held(p), NEW k \in Kinds, NEW inside,
           inside = next_growths_inside(current, tks, p[id].tick_lower_index,
                                        p[id].tick_upper_index, growth, active)
    PROVE  /\ Earned(p[id], inside, k) \in Nat
           /\ WORD * Earned(p[id], inside, k) <= p[id].liquidity * Since(p[id], current, tks, growth, k)
  <1> DEFINE lower == p[id].tick_lower_index
             upper == p[id].tick_upper_index
             x == WrapU128(inside[k] - p[id].checkpoint[k])
             l == p[id].liquidity
             e == Earned(p[id], inside, k)
             since == Since(p[id], current, tks, growth, k)
  <1>1. lower \in Usable /\ upper \in Usable /\ p[id] \in PositionRecords /\ l \in Nat
    BY HeldTyped DEF Held, Accounts
  <1>2. inside \in [Kinds -> U128]
    BY <1>1, InsideTyped
  <1>3. x \in Nat /\ e \in Nat /\ WORD * e <= l * x
    BY <1>1, <1>2, EarnedRounds
  <1>4. since \in Nat
    BY <1>1, SinceTyped
  <1>5. CASE l = 0
    <2> HIDE DEF l, e, x, since
    <2>1. 0 * x = 0 /\ 0 * since = 0
      BY <1>3, <1>4
    <2> QED BY <1>3, <1>5, <2>1 DEF l, e, since
  <1>6. CASE l # 0
    <2> DEFINE J == LeftOf(k, current, tks[upper], upper, growth)
                      - LeftOf(k, current, tks[lower], lower, growth)
               c == p[id].checkpoint[k]
    <2>1. tks[lower].initialized /\ tks[upper].initialized
      BY <1>6, EndsInitialized DEF Initialized
    <2>2. inside[k] = WrapU128(J)
      <3>1. \A t \in {lower, upper} :
               LeftOf(k, current, tks[t], t, growth)
                 = IF tks[t].initialized THEN LeftOf(k, current, tks[t], t, growth) ELSE growth[k]
        BY <2>1
      <3> QED BY <1>1, <2>1, <3>1, InsideWithin
    <2>3. J = Within(p[id], current, tks, growth, k)
      BY DEF Within
    <2>4. J \in Int /\ c \in Int /\ since = WrapU128(J - c)
      BY <1>1, <2>3, SinceTyped DEF Since
    <2>5. x = WrapU128(WrapU128(J) - c)
      BY <2>2
    <2> HIDE DEF J, c, x, since
    <2>6. x = since
      BY <2>4, <2>5, WrapOfWrap
    <2> QED BY <1>3, <2>6 DEF l, e, since
  <1> QED BY <1>5, <1>6

\* calculate_modify_liquidity: one position is credited what it earned,
\* rounded down; the others have as much to come as before.
LEMMA ModifyOwes ==
    ASSUME PoolInv, LiquidityInv, NEW id \in Open, NEW delta \in Int, ModifyLiquidity(id, delta),
           Dormant(ticks, pool.growth, Active(pool)), NEW r \in Kinds
    PROVE  LET current == pool.tick_current_index
               G == next_whirlpool_reward_infos(pool, clock)
           IN  /\ Dues(positions', current, ticks', G, r) <= Dues(positions, current, ticks, G, r)
               /\ pool'.tick_current_index = current /\ pool'.growth = G /\ G \in [Kinds -> U128]
  <1> DEFINE p == positions
             q == positions'
             lower == p[id].tick_lower_index
             upper == p[id].tick_upper_index
             current == pool.tick_current_index
             G == next_whirlpool_reward_infos(pool, clock)
             inside == next_growths_inside(current, ticks, lower, upper, G, Active(pool))
             f == DueTo(p, current, ticks, G, r)
             g == DueTo(q, current, ticks', G, r)
  <1>1. /\ pool \in PoolRecords /\ ticks \in [Usable -> TickRecords] /\ p \in Accounts
        /\ Ordered(p) /\ \A u \in Usable : TickBook(ticks[u], p, u)
    BY DEF PoolInv, TypeOK, Accounts, LiquidityInv, Books
  <1>2. /\ ticks' \in [Usable -> TickRecords] /\ q \in Accounts
    BY ModifyTyped DEF Accounts
  <1>3. /\ pool'.tick_current_index = current /\ pool'.growth = G /\ G \in [Kinds -> U128]
    BY ModifySettles
  <1>4. \A x \in PositionIds : x # id => q[x] = p[x]
    BY ModifySettles
  <1>5. \A x \in PositionIds, k \in Kinds : Liquid(q, x) =>
            Since(q[x], current, ticks', G, k) = IF x = id THEN 0 ELSE Since(p[x], current, ticks, G, k)
    BY ModifySettles
  <1>6. /\ ~InvalidTimestamp(pool, clock)
        /\ q = [p EXCEPT ![id] = next_position_modify_liquidity_update(p[id], delta, inside)]
    BY Zenon DEF ModifyLiquidity, ModifyFails
  <1>7. id \in Held(p) /\ id \in PositionIds /\ p[id] \in PositionRecords
    BY OpenTyped DEF Open, Held
  <1>8. Dormant(ticks, G, Active(pool)) /\ current \in Int
    <2>1. pool.growth \in [Kinds -> U128] /\ current \in Int
      BY <1>1, TickIndexAssumption DEF PoolRecords
    <2>2. \A k \in Kinds \ Active(pool) : G[k] = pool.growth[k]
      BY <2>1 DEF next_whirlpool_reward_infos, Active
    <2> QED BY <2>1, <2>2 DEF Dormant
  <1>10. q[id].owed[r] = WrapU64(p[id].owed[r] + Earned(p[id], inside, r))
    BY <1>1, <1>6, <1>7 DEF next_position_modify_liquidity_update, PositionRecords, Accounts
  <1>11. ASSUME NEW x \in PositionIds PROVE f[x] \in Int /\ g[x] \in Int
    BY <1>1, <1>2, <1>3, <1>7, DueTyped
  <1> HIDE DEF p, q, G, inside, f, g, lower, upper
  \* The others have as much to come as before.
  <1>12. ASSUME NEW x \in PositionIds, x # id PROVE g[x] <= f[x]
    <2>1. q[x] = p[x] /\ (x \in Held(q) <=> x \in Held(p))
      BY <1>4, <1>12 DEF Held
    <2>2. CASE x \in Held(q)
      <3> DEFINE w == WORD * p[x].owed[r]
                 a == Since(p[x], current, ticks, G, r)
                 b == Since(q[x], current, ticks', G, r)
                 l == p[x].liquidity
      <3>1. f[x] = w + l * a /\ g[x] = w + l * b
        BY <2>1, <2>2 DEF f, g, DueTo, Due
      <3>2. l \in Nat /\ p[x] \in PositionRecords
        BY <1>1, <2>1, <2>2, HeldTyped DEF Held, Accounts
      <3>3. a \in Nat /\ b \in Nat
        BY <1>1, <1>2, <1>3, <1>7, <2>1, <3>2, SinceTyped
      <3>4. l # 0 => b = a
        BY <1>5, <1>7, <1>12, <2>1, <2>2 DEF Liquid
      <3> HIDE DEF l, a, b, w
      <3>5. 0 * a = 0 /\ 0 * b = 0
        BY <3>3
      <3>6. g[x] = f[x]
        BY <3>1, <3>4, <3>5, Zenon
      <3> QED BY <1>11, <3>6
    <2>3. CASE x \notin Held(q)
      BY <2>1, <2>3 DEF f, g, DueTo, Due
    <2> QED BY <2>2, <2>3
  <1>13. g[id] <= f[id]
    <2> DEFINE l == p[id].liquidity
               m == q[id].liquidity
               a == Since(p[id], current, ticks, G, r)
               b == Since(q[id], current, ticks', G, r)
               e == Earned(p[id], inside, r)
               o == p[id].owed[r]
               v == q[id].owed[r]
    <2>1. f[id] = WORD * o + l * a
      BY <1>7 DEF f, DueTo, Due
    <2>2. e \in Nat /\ WORD * e <= l * a
      BY <1>1, <1>3, <1>7, <1>8, EarnedAtMost DEF inside, lower, upper
    <2>3. o \in Nat /\ l \in Nat
      <3>1. o \in U64 /\ l \in U128
        BY <1>7 DEF PositionRecords
      <3> QED BY <3>1, Unsigned
    <2>4. v \in Nat /\ v <= o + e
      BY <1>10, <2>2, <2>3, WrapBelow
    <2>5. a \in Nat
      BY <1>1, <1>3, <1>7, SinceTyped
    <2>6. CASE id \in Held(q)
      <3>1. g[id] = WORD * v + m * b
        BY <1>7, <2>6 DEF g, DueTo, Due
      <3>2. m \in Nat /\ q[id] \in PositionRecords
        BY <1>2, <2>6, HeldTyped DEF Held, Accounts
      <3>3. b \in Nat
        BY <1>2, <1>3, <1>7, <3>2, SinceTyped
      <3>4. m # 0 => b = 0
        BY <1>5, <1>7, <2>6 DEF Liquid
      <3> HIDE DEF l, m, a, b, e, o, v
      <3>5. m * b = 0
        <4>1. 0 * b = 0 /\ m * 0 = 0
          BY <3>2, <3>3
        <4> QED BY <3>4, <4>1
      <3>6. WORD * v <= WORD * o + WORD * e
        <4>1. v * WORD <= (o + e) * WORD
          BY <2>2, <2>3, <2>4, Widths, ProductMonotone
        <4>2. (o + e) * WORD = o * WORD + e * WORD
          BY <2>2, <2>3, Widths, Distributes
        <4>3. v * WORD = WORD * v /\ o * WORD = WORD * o /\ e * WORD = WORD * e
          BY <2>2, <2>3, <2>4, Widths, ProductTurned
        <4> QED BY <4>1, <4>2, <4>3
      <3> DEFINE A == WORD * v
                 B == WORD * o
                 C == WORD * e
                 D == l * a
      <3>7. A \in Nat /\ B \in Nat /\ C \in Nat /\ D \in Nat
        BY <2>2, <2>3, <2>4, <2>5, Widths, ProductNat
      <3>8. A <= B + C /\ C <= D /\ f[id] = B + D /\ g[id] = A + 0
        BY <2>1, <2>2, <3>1, <3>5, <3>6
      <3> HIDE DEF A, B, C, D
      <3> QED BY <3>7, <3>8
    <2>7. CASE id \notin Held(q)
      <3>1. g[id] = 0
        BY <1>7, <2>7 DEF g, DueTo, Due
      <3>2. f[id] \in Nat
        BY <1>1, <1>3, <1>7, DueTyped DEF f
      <3> QED BY <3>1, <3>2
    <2> QED BY <2>6, <2>7
  <1>14. \A x \in PositionIds : f[x] \in Int /\ g[x] \in Int /\ g[x] <= f[x]
    BY <1>11, <1>12, <1>13
  <1>15. Total(g, PositionIds) <= Total(f, PositionIds)
    BY <1>14, PositionAssumption, TotalBelow
  <1> QED BY <1>3, <1>15 DEF Dues, f, g, p, q, G, current

\* The pool settles what the rewards emitted.
LEMMA ModifyDues ==
    ASSUME PoolInv, LiquidityInv, NEW id \in Open, NEW delta \in Int, ModifyLiquidity(id, delta),
           Dormant(ticks, pool.growth, Active(pool)), NEW r \in Rewards
    PROVE  Dues(positions', pool'.tick_current_index, ticks', pool'.growth, r)
             <= Dues(positions, pool.tick_current_index, ticks, pool.growth, r) + Pending(r)
  <1> DEFINE current == pool.tick_current_index
             G == next_whirlpool_reward_infos(pool, clock)
             x == Dues(positions', current, ticks', G, r)
             y == Dues(positions, current, ticks, G, r)
             z == Dues(positions, current, ticks, pool.growth, r)
  <1>1. /\ pool \in PoolRecords /\ ticks \in [Usable -> TickRecords] /\ positions \in Accounts
        /\ Ordered(positions) /\ \A u \in Usable : TickBook(ticks[u], positions, u)
    BY DEF PoolInv, TypeOK, Accounts, LiquidityInv, Books
  <1>2. /\ ticks' \in [Usable -> TickRecords] /\ positions' \in Accounts
    BY ModifyTyped DEF Accounts
  <1>3. r \in Kinds /\ ~InvalidTimestamp(pool, clock)
    BY KindSets, Zenon DEF ModifyLiquidity, ModifyFails
  <1>4. /\ x <= y
        /\ pool'.tick_current_index = current /\ pool'.growth = G /\ G \in [Kinds -> U128]
    BY <1>3, ModifyOwes
  <1>5. y <= z + Pending(r)
    BY <1>1, <1>3, AccruesPending
  <1>6. x \in Nat /\ y \in Nat /\ z \in Nat /\ Pending(r) \in Nat
    <2>1. pool.growth \in [Kinds -> U128]
      BY <1>1 DEF PoolRecords
    <2>2. positions[id] \in PositionRecords
      BY OpenTyped
    <2> QED BY <1>1, <1>2, <1>3, <1>4, <2>1, <2>2, DuesTyped, PendingTyped
  <1> HIDE DEF x, y, z, G, current
  <1>7. x <= z + Pending(r)
    BY <1>4, <1>5, <1>6
  <1> QED BY <1>4, <1>7 DEF x, z, G, current

-----------------------------------------------------------------------------
(* The books of the rewards. *)

\* What was paid out, in units of 1 / WORD token.
Spent(r) == WORD * paid[r]

DuesNow(r) == Dues(positions, pool.tick_current_index, ticks, pool.growth, r)

RecordsOK == emitted \in [Rewards -> Int] /\ paid \in [Rewards -> Nat]

\* What was paid and what is due, settled or not, on chain and as the swap in
\* progress sees it, which settled the rewards when it began.
RewardInv ==
    /\ RecordsOK
    /\ Dormant(ticks, pool.growth, Active(pool))
    /\ \A r \in Rewards : Spent(r) + DuesNow(r) + Pending(r) <= emitted[r]
    /\ swap # NoSwap =>
           /\ Dormant(swap.ticks, swap.growth, Active(pool))
           /\ \A r \in Rewards :
                 Spent(r) + Dues(positions, swap.tick, swap.ticks, swap.growth, r) <= emitted[r]

LEMMA BooksTyped ==
    ASSUME PoolInv, RecordsOK, NEW r \in Rewards
    PROVE  /\ Spent(r) \in Nat /\ emitted[r] \in Int /\ paid[r] \in Nat /\ r \in Kinds
           /\ DuesNow(r) \in Nat /\ Pending(r) \in Nat /\ vault[r] \in Nat
  <1>1. /\ pool \in PoolRecords /\ ticks \in [Usable -> TickRecords] /\ positions \in Accounts
        /\ vault \in [Kinds -> 0..Supply]
    BY DEF PoolInv, TypeOK, Accounts
  <1>2. pool.growth \in [Kinds -> U128]
    BY <1>1 DEF PoolRecords
  <1>3. r \in Kinds
    BY KindSets
  <1>4. DuesNow(r) \in Nat
    BY <1>1, <1>2, <1>3, DuesTyped DEF DuesNow
  <1>5. emitted[r] \in Int /\ paid[r] \in Nat
    BY DEF RecordsOK
  <1>6. Spent(r) \in Nat
    BY <1>5, Widths, ProductNat DEF Spent
  <1>7. vault[r] \in Nat
    BY <1>1, <1>3, KindSets
  <1> QED BY <1>3, <1>4, <1>5, <1>6, <1>7, PendingTyped

\* What the clock emits while it moves.
LEMMA RecordTyped ==
    ASSUME PoolInv, PoolInv', RecordsOK, Record
    PROVE  RecordsOK'
  <1> DEFINE settled == pool.reward_last_updated_timestamp
             seconds == Max({clock', settled}) - Max({clock, settled})
             e(r) == IF pool.liquidity > 0 THEN pool.emissions[r] * seconds ELSE 0
             v(r) == IF vault'[r] < vault[r] THEN vault[r] - vault'[r] ELSE 0
  <1>1. /\ emitted' = [r \in Rewards |-> emitted[r] + e(r)]
        /\ paid' = [r \in Rewards |-> paid[r] + v(r)]
    BY DEF Record
  <1>2. seconds \in Int
    <2>1. settled \in Int /\ clock \in Int /\ clock' \in Int
      BY DEF PoolInv, TypeOK, PoolRecords
    <2> HIDE DEF settled
    <2>2. Max({clock', settled}) \in Int /\ Max({clock, settled}) \in Int
      BY <2>1, MaxOfTwo
    <2> QED BY <2>2
  <1> HIDE DEF seconds
  <1>3. ASSUME NEW r \in Rewards PROVE emitted[r] + e(r) \in Int /\ paid[r] + v(r) \in Nat
    <2>1. emitted[r] \in Int /\ paid[r] \in Nat /\ vault[r] \in Nat /\ pool.emissions[r] \in Nat
      BY BooksTyped, PendingTyped
    <2>2. vault'[r] \in Nat
      <3>1. vault' \in [Kinds -> 0..Supply]
        BY DEF PoolInv, TypeOK
      <3> QED BY <3>1, KindSets
    <2>3. pool.emissions[r] * seconds \in Int
      BY <1>2, <2>1, ProductInt
    <2> QED BY <2>1, <2>2, <2>3
  <1> HIDE DEF e, v
  <1> QED BY <1>1, <1>3 DEF RecordsOK

\* While the clock stands still nothing is emitted, and only what leaves the
\* vault is paid.
LEMMA RecordQuiet ==
    ASSUME PoolInv, PoolInv', RecordsOK, Record, clock' = clock, NEW r \in Rewards
    PROVE  /\ emitted'[r] = emitted[r]
           /\ vault'[r] >= vault[r] => paid'[r] = paid[r]
           /\ vault'[r] < vault[r] => paid'[r] = paid[r] + (vault[r] - vault'[r])
  <1> DEFINE settled == pool.reward_last_updated_timestamp
             seconds == Max({clock', settled}) - Max({clock, settled})
             e == IF pool.liquidity > 0 THEN pool.emissions[r] * seconds ELSE 0
             v == IF vault'[r] < vault[r] THEN vault[r] - vault'[r] ELSE 0
  <1>1. emitted'[r] = emitted[r] + e /\ paid'[r] = paid[r] + v
    BY DEF Record
  <1>2. emitted[r] \in Int /\ paid[r] \in Nat /\ vault[r] \in Nat /\ pool.emissions[r] \in Nat
    BY BooksTyped, PendingTyped
  <1>3. seconds = 0
    <2>1. settled \in Int /\ clock \in Int
      BY DEF PoolInv, TypeOK, PoolRecords
    <2> HIDE DEF settled
    <2>2. Max({clock, settled}) \in Int
      BY <2>1, MaxOfTwo
    <2> QED BY <2>2
  <1> HIDE DEF seconds
  <1>4. e = 0
    BY <1>2, <1>3
  <1> HIDE DEF e
  <1>5. emitted'[r] = emitted[r]
    BY <1>1, <1>2, <1>4
  <1>6. vault'[r] \in Nat
    <2>1. vault' \in [Kinds -> 0..Supply]
      BY DEF PoolInv, TypeOK
    <2> QED BY <2>1, KindSets
  <1> QED BY <1>1, <1>2, <1>5, <1>6

\* A clock that moves emits what becomes pending, and takes back what it emitted
\* when it goes back.
LEMMA RecordEmits ==
    ASSUME PoolInv, PoolInv', RecordsOK, Record, pool' = pool, NEW r \in Rewards
    PROVE  emitted'[r] + Pending(r) = emitted[r] + Pending(r)'
  <1> DEFINE s == pool.reward_last_updated_timestamp
             E == pool.emissions[r]
             m == Max({clock, s})
             n == Max({clock', s})
             e == IF pool.liquidity > 0 THEN E * (n - m) ELSE 0
  <1>1. emitted'[r] = emitted[r] + e
    BY DEF Record
  <1>2. /\ Pending(r) = IF pool.liquidity > 0 THEN E * (m - s) ELSE 0
        /\ Pending(r)' = IF pool.liquidity > 0 THEN E * (n - s) ELSE 0
    BY DEF Pending, Unsettled
  <1>3. emitted[r] \in Int /\ E \in Int
    BY BooksTyped, PendingTyped
  <1>4. s \in Int /\ m \in Int /\ n \in Int
    <2>1. s \in Int /\ clock \in Int /\ clock' \in Int
      BY DEF PoolInv, TypeOK, PoolRecords
    <2> HIDE DEF s
    <2> QED BY <2>1, MaxOfTwo
  <1> HIDE DEF s, E, m, n
  <1>5. CASE pool.liquidity > 0
    <2> DEFINE x == m - s
               y == n - m
    <2>1. n - s = x + y /\ x \in Int /\ y \in Int
      BY <1>4
    <2>2. E * (n - s) = E * x + E * y
      <3> HIDE DEF x, y
      <3>1. (x + y) * E = x * E + y * E
        BY <1>3, <2>1, Distributes
      <3>2. (x + y) * E = E * (x + y) /\ x * E = E * x /\ y * E = E * y
        BY <1>3, <2>1, ProductTurned
      <3> QED BY <2>1, <3>1, <3>2
    <2> HIDE DEF x, y
    <2> DEFINE a == E * x
               b == E * y
    <2>3. a \in Int /\ b \in Int
      BY <1>3, <2>1, ProductInt
    <2>4. e = b /\ Pending(r) = a /\ Pending(r)' = a + b
      BY <1>2, <1>5, <2>2 DEF x, y
    <2> HIDE DEF a, b, e
    <2> QED BY <1>1, <1>3, <2>3, <2>4
  <1>6. CASE ~(pool.liquidity > 0)
    BY <1>1, <1>2, <1>3, <1>6
  <1> QED BY <1>5, <1>6


\* One account changes.
LEMMA AccountDues ==
    ASSUME NEW p \in Accounts, NEW q \in Accounts, NEW current,
           NEW tks \in [Usable -> TickRecords], NEW growth \in [Kinds -> U128], NEW r \in Kinds,
           NEW id \in PositionIds, \A x \in PositionIds : x # id => q[x] = p[x], NEW e \in Int,
           Due(q, current, tks, growth, r, id) + e <= Due(p, current, tks, growth, r, id)
    PROVE  Dues(q, current, tks, growth, r) + e <= Dues(p, current, tks, growth, r)
  <1> DEFINE f == DueTo(p, current, tks, growth, r)
             g == DueTo(q, current, tks, growth, r)
  <1>1. \A x \in PositionIds : f[x] \in Int /\ g[x] \in Int
    BY DueTyped
  <1>2. ASSUME NEW x \in PositionIds, id # x PROVE g[x] <= f[x]
    <2>1. q[x] = p[x]
      BY <1>2
    <2>2. g[x] = f[x]
      BY <2>1 DEF DueTo, Due, Held, Since, Within
    <2> HIDE DEF f, g
    <2> QED BY <1>1, <2>2
  <1>3. g[id] + e <= f[id]
    BY DueTyped
  <1> HIDE DEF f, g
  <1>4. Total(g, PositionIds) + e <= Total(f, PositionIds)
    BY <1>1, <1>2, <1>3, PositionAssumption, TotalLess
  <1> QED BY <1>4 DEF Dues, f, g

\* A position's owed amounts change, and nothing else of it.
LEMMA OwedDue ==
    ASSUME NEW p \in Accounts, NEW q \in Accounts, NEW current,
           NEW tks \in [Usable -> TickRecords], NEW growth \in [Kinds -> U128], NEW r \in Kinds,
           NEW id \in Held(p), NEW owed \in [Kinds -> U64], NEW e \in Nat,
           q = [p EXCEPT ![id].owed = owed], owed[r] + e = p[id].owed[r]
    PROVE  Dues(q, current, tks, growth, r) + WORD * e <= Dues(p, current, tks, growth, r)
  <1> DEFINE l == p[id].liquidity
             since == Since(p[id], current, tks, growth, r)
             o == p[id].owed[r]
             v == owed[r]
  <1>1. p[id] \in PositionRecords /\ id \in PositionIds
    BY DEF Held, Accounts
  <1>2. /\ q[id] = [p[id] EXCEPT !.owed = owed]
        /\ \A x \in PositionIds : x # id => q[x] = p[x]
    BY <1>1 DEF Accounts
  <1>3. /\ q[id] \in PositionRecords /\ q[id].liquidity = l /\ q[id].owed = owed
        /\ q[id].tick_lower_index = p[id].tick_lower_index
        /\ q[id].tick_upper_index = p[id].tick_upper_index
        /\ q[id].checkpoint = p[id].checkpoint
    BY <1>1, <1>2 DEF PositionRecords
  <1>4. id \in Held(q)
    BY <1>1, <1>3, PositionAssumption DEF Held
  <1>5. Due(p, current, tks, growth, r, id) = WORD * o + l * since
    BY DEF Due
  <1>6. Since(q[id], current, tks, growth, r) = since
    BY <1>3 DEF Since, Within
  <1>7. Due(q, current, tks, growth, r, id) = WORD * v + l * since
    BY <1>3, <1>4, <1>6 DEF Due
  <1>8. l \in Nat /\ since \in Nat
    BY <1>1, HeldTyped, SinceTyped
  <1>9. v \in Nat /\ o = v + e
    BY Unsigned
  <1> HIDE DEF l, since, o, v
  <1>10. WORD * o = WORD * v + WORD * e
    <2>1. (v + e) * WORD = v * WORD + e * WORD
      BY <1>9, Widths, Distributes
    <2>2. (v + e) * WORD = WORD * (v + e) /\ v * WORD = WORD * v /\ e * WORD = WORD * e
      BY <1>9, Widths, ProductTurned
    <2> QED BY <1>9, <2>1, <2>2
  <1> DEFINE a == WORD * v
             b == WORD * e
             c == l * since
             x == Due(q, current, tks, growth, r, id)
             y == Due(p, current, tks, growth, r, id)
  <1>11. a \in Nat /\ b \in Nat /\ b \in Int /\ c \in Nat
    BY <1>8, <1>9, Widths, ProductNat
  <1>12. y = (a + b) + c /\ x = a + c
    BY <1>5, <1>7, <1>10
  <1> HIDE DEF a, b, c, x, y
  <1>13. x + b <= y
    BY <1>11, <1>12
  <1> QED BY <1>1, <1>2, <1>11, <1>13, AccountDues DEF b, x, y

BooksOK == \A r \in Rewards : Spent(r) \in Nat /\ DuesNow(r) \in Nat /\ Pending(r) \in Nat

LEMMA BooksNow == PoolInv /\ RecordsOK => BooksOK
  BY BooksTyped DEF BooksOK

LEMMA BooksNext == PoolInv' /\ RecordsOK' => BooksOK'
  BY BooksNow, PTL

\* An instruction outside a swap, while the clock stands still.
LEMMA BooksCarried ==
    ASSUME PoolInv, PoolInv', RewardInv, Record, clock' = clock, swap' = NoSwap,
           Dormant(ticks', pool'.growth, Active(pool')),
           \A r \in Rewards : Spent(r)' + DuesNow(r)' + Pending(r)' <= Spent(r) + DuesNow(r) + Pending(r)
    PROVE  RewardInv'
  <1>1. RecordsOK /\ RecordsOK'
    BY RecordTyped DEF RewardInv
  <1>2. ASSUME NEW r \in Rewards PROVE Spent(r)' + DuesNow(r)' + Pending(r)' <= emitted'[r]
    <2>1. /\ Spent(r) \in Nat /\ DuesNow(r) \in Nat /\ Pending(r) \in Nat /\ emitted[r] \in Int
          /\ Spent(r) + DuesNow(r) + Pending(r) <= emitted[r]
      BY <1>1, BooksTyped DEF RewardInv
    <2>2. Spent(r)' \in Nat /\ DuesNow(r)' \in Nat /\ Pending(r)' \in Nat
      BY <1>1, BooksNext DEF BooksOK
    <2>3. emitted'[r] = emitted[r]
      BY <1>1, RecordQuiet
    <2> QED BY <2>1, <2>2, <2>3
  <1> QED BY <1>1, <1>2 DEF RewardInv

\* No reward leaves its vault.
LEMMA SpentKept ==
    ASSUME PoolInv, PoolInv', RewardInv, Record, clock' = clock, NEW r \in Rewards,
           vault'[r] >= vault[r]
    PROVE  Spent(r)' = Spent(r)
  <1>1. paid'[r] = paid[r]
    BY RecordQuiet DEF RewardInv
  <1> QED BY <1>1 DEF Spent


LEMMA NothingPending ==
    ASSUME PoolInv', clock' = clock, pool'.reward_last_updated_timestamp = clock, NEW r \in Rewards
    PROVE  Pending(r)' = 0
  <1> DEFINE s == pool'.reward_last_updated_timestamp
             E == pool'.emissions[r]
  <1>1. pool' \in PoolRecords /\ clock' \in Nat
    BY DEF PoolInv, TypeOK
  <1>2. E \in Nat
    <2>1. E \in U128
      BY <1>1 DEF PoolRecords
    <2> QED BY <2>1, Unsigned
  <1>3. Pending(r)' = IF pool'.liquidity > 0 THEN E * (Max({clock', s}) - s) ELSE 0
    BY DEF Pending, Unsettled
  <1>4. Max({clock', s}) - s = 0
    <2>1. s = clock' /\ s \in Int
      BY <1>1
    <2> HIDE DEF s
    <2>2. Max({clock', s}) = s
      BY <2>1, MaxOfTwo
    <2> QED BY <2>1, <2>2
  <1> HIDE DEF E, s
  <1> QED BY <1>2, <1>3, <1>4

\* Transfers of the two tokens leave the vaults of the rewards alone.
LEMMA TokensMove ==
    ASSUME PoolInv, NEW amounts, DOMAIN amounts = Tokens,
           transfer_from_owner_to_vault(amounts) \/ transfer_from_vault_to_owner(amounts)
    PROVE  \A r \in Rewards : vault'[r] = vault[r]
  <1> SUFFICES ASSUME NEW r \in Rewards PROVE vault'[r] = vault[r]
    OBVIOUS
  <1>1. r \in Kinds /\ r \notin Tokens
    BY KindSets, PoolAssumption
  <1> QED BY <1>1 DEF transfer_from_owner_to_vault, transfer_from_vault_to_owner

\* An instruction that leaves the pool alone and pays no more than it takes off
\* what is due.
LEMMA AccountRewards ==
    ASSUME PoolInv, PoolInv', RewardInv, Record, swap = NoSwap, UNCHANGED <<pool, ticks, clock, swap>>,
           \A r \in Rewards : Spent(r)' + DuesNow(r)' <= Spent(r) + DuesNow(r)
    PROVE  RewardInv'
  <1>1. RecordsOK /\ RecordsOK' /\ Dormant(ticks', pool'.growth, Active(pool'))
    BY RecordTyped DEF RewardInv
  <1>2. ASSUME NEW r \in Rewards
        PROVE  Spent(r)' + DuesNow(r)' + Pending(r)' <= Spent(r) + DuesNow(r) + Pending(r)
    <2>1. Pending(r)' = Pending(r)
      BY DEF Pending, Unsettled
    <2>2. Spent(r) \in Nat /\ DuesNow(r) \in Nat /\ Pending(r) \in Nat
      BY <1>1, BooksTyped
    <2>3. Spent(r)' \in Nat /\ DuesNow(r)' \in Nat
      BY <1>1, BooksNext DEF BooksOK
    <2>4. Spent(r)' + DuesNow(r)' <= Spent(r) + DuesNow(r)
      OBVIOUS
    <2> QED BY <2>1, <2>2, <2>3, <2>4
  <1> QED BY <1>1, <1>2, BooksCarried

\* The instructions that settle a position.
LEMMA ModifyRewards ==
    ASSUME PoolInv, PoolInv', LiquidityInv, RewardInv, Record, swap = NoSwap, swap' = swap,
           clock' = clock, NEW id \in Open, NEW delta \in Int, ModifyLiquidity(id, delta),
           \A r \in Rewards : vault'[r] = vault[r]
    PROVE  RewardInv'
  <1>1. RecordsOK /\ RecordsOK' /\ Dormant(ticks, pool.growth, Active(pool))
    BY RecordTyped DEF RewardInv
  <1>2. Dormant(ticks', pool'.growth, Active(pool'))
    BY <1>1, ModifySettles
  <1>3. pool'.reward_last_updated_timestamp = clock
    <2>1. pool \in PoolRecords
      BY DEF PoolInv, TypeOK
    <2> QED BY <2>1 DEF ModifyLiquidity, PoolRecords
  <1>4. ASSUME NEW r \in Rewards
        PROVE  Spent(r)' + DuesNow(r)' + Pending(r)' <= Spent(r) + DuesNow(r) + Pending(r)
    <2>1. Spent(r) \in Nat /\ DuesNow(r) \in Nat /\ Pending(r) \in Nat /\ vault[r] \in Nat
      BY <1>1, BooksTyped
    <2>2. DuesNow(r)' \in Nat
      BY <1>1, BooksNext DEF BooksOK
    <2>3. vault'[r] >= vault[r]
      BY <2>1
    <2>4. Spent(r)' = Spent(r)
      BY <2>3, SpentKept
    <2>5. DuesNow(r)' <= DuesNow(r) + Pending(r)
      BY <1>1, ModifyDues DEF DuesNow
    <2>6. Pending(r)' = 0
      BY <1>3, NothingPending
    <2> QED BY <2>1, <2>2, <2>4, <2>5, <2>6
  <1> QED BY <1>2, <1>4, BooksCarried

\* An instruction that changes what a position owes, and pays at most that.
LEMMA OwedRewards ==
    ASSUME PoolInv, PoolInv', RewardInv, Record, swap = NoSwap, UNCHANGED <<pool, ticks, clock, swap>>,
           NEW id \in Open, NEW owed \in [Kinds -> U64], NEW e \in [Rewards -> Nat],
           positions' = [positions EXCEPT ![id].owed = owed],
           \A r \in Rewards : /\ owed[r] + e[r] = positions[id].owed[r]
                              /\ paid'[r] = paid[r] + e[r]
    PROVE  RewardInv'
  <1>1. RecordsOK /\ RecordsOK'
    BY RecordTyped DEF RewardInv
  <1>2. /\ ticks \in [Usable -> TickRecords] /\ positions \in Accounts /\ positions' \in Accounts
        /\ pool \in PoolRecords
    BY DEF PoolInv, TypeOK, Accounts
  <1>3. pool.growth \in [Kinds -> U128]
    BY <1>2 DEF PoolRecords
  <1>4. id \in Held(positions)
    BY DEF Open, Held
  <1>5. ASSUME NEW r \in Rewards PROVE Spent(r)' + DuesNow(r)' <= Spent(r) + DuesNow(r)
    <2>1. Spent(r) \in Nat /\ DuesNow(r) \in Nat /\ paid[r] \in Nat /\ r \in Kinds
      BY <1>1, BooksTyped
    <2>2. DuesNow(r)' \in Nat
      BY <1>1, BooksNext DEF BooksOK
    <2> DEFINE n == e[r]
    <2>3. n \in Nat /\ owed[r] + n = positions[id].owed[r] /\ paid'[r] = paid[r] + n
      OBVIOUS
    <2> HIDE DEF n
    <2>4. DuesNow(r)' + WORD * n <= DuesNow(r)
      <3>1. Dues(positions', pool.tick_current_index, ticks, pool.growth, r) + WORD * n
              <= Dues(positions, pool.tick_current_index, ticks, pool.growth, r)
        BY <1>2, <1>3, <1>4, <2>1, <2>3, OwedDue
      <3> QED BY <3>1 DEF DuesNow
    <2>5. Spent(r)' = Spent(r) + WORD * n
      <3> DEFINE m == paid[r]
      <3>1. m \in Int /\ n \in Int /\ m + n \in Int /\ WORD \in Int
        BY <2>1, <2>3, Widths
      <3> HIDE DEF m
      <3>2. (m + n) * WORD = m * WORD + n * WORD
        BY <3>1, Distributes
      <3>3. (m + n) * WORD = WORD * (m + n) /\ m * WORD = WORD * m /\ n * WORD = WORD * n
        BY <3>1, ProductTurned
      <3>4. WORD * (m + n) = WORD * m + WORD * n
        BY <3>2, <3>3
      <3> QED BY <2>3, <3>4 DEF Spent, m
    <2>6. WORD * n \in Nat
      BY <2>3, Widths, ProductNat
    <2> DEFINE w == WORD * n
    <2> HIDE DEF w
    <2>7. w \in Nat /\ DuesNow(r)' + w <= DuesNow(r) /\ Spent(r)' = Spent(r) + w
      BY <2>4, <2>5, <2>6 DEF w
    <2> QED BY <2>1, <2>2, <2>7
  <1> QED BY <1>5, AccountRewards


\* An account is opened or closed: nothing is due to it before or after.
LEMMA EmptyRewards ==
    ASSUME PoolInv, PoolInv', RewardInv, Record, swap = NoSwap,
           UNCHANGED <<pool, ticks, clock, swap, vault>>, NEW id \in PositionIds,
           \A x \in PositionIds : x # id => positions'[x] = positions[x],
           id \in Held(positions') => /\ positions'[id].liquidity = 0
                                      /\ \A r \in Rewards : positions'[id].owed[r] = 0
    PROVE  RewardInv'
  <1>1. RecordsOK /\ RecordsOK'
    BY RecordTyped DEF RewardInv
  <1>2. /\ ticks \in [Usable -> TickRecords] /\ positions \in Accounts /\ positions' \in Accounts
        /\ pool \in PoolRecords
    BY DEF PoolInv, TypeOK, Accounts
  <1>3. pool.growth \in [Kinds -> U128]
    BY <1>2 DEF PoolRecords
  <1>4. ASSUME NEW r \in Rewards PROVE Spent(r)' + DuesNow(r)' <= Spent(r) + DuesNow(r)
    <2> DEFINE x == Due(positions', pool.tick_current_index, ticks, pool.growth, r, id)
               y == Due(positions, pool.tick_current_index, ticks, pool.growth, r, id)
    <2>1. Spent(r) \in Nat /\ DuesNow(r) \in Nat /\ vault[r] \in Nat /\ r \in Kinds
      BY <1>1, BooksTyped
    <2>2. DuesNow(r)' \in Nat
      BY <1>1, BooksNext DEF BooksOK
    <2>3. y \in Nat
      BY <1>2, <1>3, <2>1, DueTyped
    <2>4. x = 0
      <3>1. CASE id \in Held(positions')
        <4> DEFINE since == Since(positions'[id], pool.tick_current_index, ticks, pool.growth, r)
        <4>1. x = WORD * positions'[id].owed[r] + positions'[id].liquidity * since
          BY <3>1 DEF Due
        <4>2. positions'[id].owed[r] = 0 /\ positions'[id].liquidity = 0
          BY <3>1
        <4>3. since \in Nat
          <5>1. positions'[id] \in PositionRecords
            BY <1>2, <3>1 DEF Held, Accounts
          <5> QED BY <1>2, <1>3, <2>1, <5>1, SinceTyped
        <4> HIDE DEF since, x
        <4>4. x = WORD * 0 + 0 * since
          BY <4>1, <4>2
        <4>5. WORD * 0 = 0 /\ 0 * since = 0
          BY <4>3, Widths
        <4> QED BY <4>4, <4>5
      <3>2. CASE id \notin Held(positions')
        BY <3>2 DEF Due
      <3> QED BY <3>1, <3>2
    <2> HIDE DEF x, y
    <2>5. x + 0 <= y /\ 0 \in Int
      BY <2>3, <2>4
    <2>6. DuesNow(r)' + 0 <= DuesNow(r)
      <3>1. Dues(positions', pool.tick_current_index, ticks, pool.growth, r) + 0
              <= Dues(positions, pool.tick_current_index, ticks, pool.growth, r)
        BY <1>2, <1>3, <2>1, <2>5, AccountDues DEF x, y
      <3> QED BY <3>1 DEF DuesNow
    <2>7. Spent(r)' = Spent(r)
      BY <2>1, SpentKept
    <2> QED BY <2>1, <2>2, <2>6, <2>7
  <1> QED BY <1>4, AccountRewards

LEMMA PositionRewards ==
    ASSUME PoolInv, PoolInv', LiquidityInv, RewardInv, Record, PositionNext
    PROVE  RewardInv'
  <1>1. PICK id \in PositionIds :
            \/ \E range \in RangeInputs : OpenPosition(id, range[1], range[2])
            \/ ClosePosition(id)
            \/ \E amount \in LiquidityInputs, limits \in [Tokens -> TokenLimits] :
                  \/ IncreaseLiquidity(id, amount, limits)
                  \/ DecreaseLiquidity(id, amount, limits)
            \/ UpdateFeesAndRewards(id)
            \/ CollectFees(id)
            \/ \E r \in Rewards : CollectReward(id, r)
    BY DEF PositionNext
  <1>2. /\ positions \in Accounts /\ RecordsOK /\ Rewards \subseteq Kinds /\ Rewards \cap Tokens = {}
        /\ \A r \in Rewards : vault[r] \in Nat /\ paid[r] \in Nat
    BY KindSets, PoolAssumption, BooksTyped DEF PoolInv, TypeOK, Accounts, RewardInv
  <1>3. ASSUME NEW lower, NEW upper, OpenPosition(id, lower, upper) PROVE RewardInv'
    <2>1. /\ swap = NoSwap /\ UNCHANGED <<pool, ticks, clock, swap, vault>>
          /\ positions' = [positions EXCEPT ![id] = DefaultPosition(lower, upper)]
      BY <1>3 DEF OpenPosition
    <2>2. /\ positions'[id] = DefaultPosition(lower, upper)
          /\ \A x \in PositionIds : x # id => positions'[x] = positions[x]
      BY <1>2, <2>1 DEF Accounts
    <2>3. positions'[id].liquidity = 0 /\ \A r \in Rewards : positions'[id].owed[r] = 0
      BY <1>2, <2>2 DEF DefaultPosition, Zero
    <2> QED BY <2>1, <2>2, <2>3, EmptyRewards
  <1>4. CASE ClosePosition(id)
    <2>1. /\ swap = NoSwap /\ UNCHANGED <<pool, ticks, clock, swap, vault>>
          /\ positions' = [positions EXCEPT ![id] = NoPosition]
      BY <1>4 DEF ClosePosition
    <2>2. /\ positions'[id] = NoPosition
          /\ \A x \in PositionIds : x # id => positions'[x] = positions[x]
      BY <1>2, <2>1 DEF Accounts
    <2>3. id \notin Held(positions')
      BY <2>2 DEF Held
    <2> QED BY <2>1, <2>2, <2>3, EmptyRewards
  \* The instructions that settle and change liquidity.
  <1>5. ASSUME NEW amount \in LiquidityInputs, NEW limits,
               IncreaseLiquidity(id, amount, limits) \/ DecreaseLiquidity(id, amount, limits)
        PROVE  RewardInv'
    <2> DEFINE d(positive) == convert_to_liquidity_delta(amount, positive)
               t(positive) == calculate_liquidity_token_deltas(pool, positions[id], d(positive))
               moved(positive) == \/ transfer_from_owner_to_vault(t(positive))
                                  \/ transfer_from_vault_to_owner(t(positive))
    <2>1. d(TRUE) \in Int /\ d(FALSE) \in Int
      BY InputAssumption, LiquidityDelta
    <2>2. PICK positive \in BOOLEAN :
            /\ swap = NoSwap /\ swap' = swap /\ clock' = clock /\ id \in Open
            /\ ModifyLiquidity(id, d(positive)) /\ moved(positive)
      BY <1>5 DEF IncreaseLiquidity, DecreaseLiquidity
    <2>3. d(positive) \in Int
      BY <2>1
    <2> HIDE DEF d
    <2>4. DOMAIN t(positive) = Tokens
      <3>1. pool \in PoolRecords /\ positions[id] \in PositionRecords
        BY <2>2, OpenTyped DEF PoolInv, TypeOK
      <3> QED BY <2>3, <3>1, DeltasTyped
    <2> HIDE DEF t
    <2>5. \A r \in Rewards : vault'[r] = vault[r]
      BY <2>2, <2>4, TokensMove
    <2> QED BY <2>2, <2>3, <2>5, ModifyRewards
  <1>6. CASE UpdateFeesAndRewards(id)
    <2>1. /\ swap = NoSwap /\ swap' = swap /\ clock' = clock /\ vault' = vault /\ id \in Open
          /\ ModifyLiquidity(id, 0)
      BY <1>6 DEF UpdateFeesAndRewards
    <2> QED BY <2>1, ModifyRewards
  \* The instructions that only change what is owed.
  <1>7. CASE CollectFees(id)
    <2> DEFINE owed == [k \in Kinds |-> IF k \in Tokens THEN 0 ELSE positions[id].owed[k]]
               out == [k \in Tokens |-> positions[id].owed[k]]
               e == [r \in Rewards |-> 0]
    <2>1. /\ swap = NoSwap /\ id \in Open /\ UNCHANGED <<pool, ticks, clock, swap>>
          /\ positions' = [positions EXCEPT ![id].owed = owed]
          /\ transfer_from_vault_to_owner(out)
      BY <1>7 DEF CollectFees
    <2>2. positions[id].owed \in [Kinds -> U64]
      BY <2>1, OpenTyped DEF PositionRecords
    <2>3. owed \in [Kinds -> U64] /\ e \in [Rewards -> Nat]
      BY <2>2, Unsigned
    <2>4. ASSUME NEW r \in Rewards
          PROVE  owed[r] + e[r] = positions[id].owed[r] /\ paid'[r] = paid[r] + e[r]
      <3>1. vault'[r] = vault[r]
        <4>1. DOMAIN out = Tokens
          OBVIOUS
        <4> HIDE DEF out
        <4> QED BY <2>1, <4>1, TokensMove
      <3>2. paid'[r] = paid[r]
        BY <1>2, <2>1, <3>1, RecordQuiet
      <3>3. owed[r] = positions[id].owed[r] /\ e[r] = 0 /\ positions[id].owed[r] \in Nat
        BY <1>2, <2>2, Unsigned
      <3> HIDE DEF owed, e
      <3> QED BY <1>2, <3>2, <3>3
    <2> HIDE DEF owed, e
    <2> QED BY <2>1, <2>3, <2>4, OwedRewards
  <1>8. ASSUME NEW r \in Rewards, CollectReward(id, r) PROVE RewardInv'
    <2> DEFINE o == positions[id].owed[r]
               c == calculate_collect_reward(o, vault[r])
               owed == [positions[id].owed EXCEPT ![r] = c.owed]
               e == [x \in Rewards |-> IF x = r THEN c.transfer ELSE 0]
               out == [k \in {r} |-> c.transfer]
    <2>1. /\ swap = NoSwap /\ id \in Open /\ UNCHANGED <<pool, ticks, clock, swap>>
          /\ positions' = [positions EXCEPT ![id].owed = owed]
          /\ transfer_from_vault_to_owner(out)
      BY <1>8 DEF CollectReward
    <2>2. positions[id].owed \in [Kinds -> U64] /\ r \in Kinds
      BY <1>2, <2>1, OpenTyped DEF PositionRecords
    <2>3. o \in U64 /\ o \in Nat /\ vault[r] \in 0..Supply /\ vault[r] \in Nat
      BY <1>2, <2>2, Unsigned DEF PoolInv, TypeOK
    <2>4. c.transfer \in Nat /\ c.owed \in U64
      BY <2>3, RewardCollected
    <2>5. c.owed + c.transfer = o
      BY <2>3 DEF calculate_collect_reward
    <2>6. \A k \in Kinds : vault'[k] = IF k = r THEN vault[k] - c.transfer ELSE vault[k]
      <3> HIDE DEF c
      <3>1. vault' = [k \in Kinds |-> IF k \in DOMAIN out THEN vault[k] - out[k] ELSE vault[k]]
        BY <2>1, Zenon DEF transfer_from_vault_to_owner
      <3> QED BY <3>1
    <2> HIDE DEF c, o
    <2>7. owed \in [Kinds -> U64] /\ e \in [Rewards -> Nat]
      BY <2>2, <2>4
    <2>8. ASSUME NEW x \in Rewards
          PROVE  owed[x] + e[x] = positions[id].owed[x] /\ paid'[x] = paid[x] + e[x]
      <3>1. x \in Kinds /\ vault[x] \in Nat /\ paid[x] \in Nat /\ positions[id].owed[x] \in Nat
        BY <1>2, <2>2, Unsigned
      <3>2. CASE x = r
        <4>1. owed[x] = c.owed /\ e[x] = c.transfer
          BY <2>2, <3>2
        <4>2. vault'[x] = vault[x] - c.transfer
          BY <2>6, <3>1, <3>2
        <4>3. /\ vault'[x] >= vault[x] => paid'[x] = paid[x]
              /\ vault'[x] < vault[x] => paid'[x] = paid[x] + (vault[x] - vault'[x])
          BY <1>2, <2>1, RecordQuiet
        <4>4. paid'[x] = paid[x] + c.transfer
          BY <2>4, <3>1, <4>2, <4>3
        <4> QED BY <2>5, <3>2, <4>1, <4>4 DEF o
      <3>3. CASE x # r
        <4>1. owed[x] = positions[id].owed[x] /\ e[x] = 0
          BY <2>2, <3>1, <3>3
        <4>2. vault'[x] = vault[x]
          BY <2>6, <3>1, <3>3
        <4>3. paid'[x] = paid[x]
          BY <1>2, <2>1, <3>1, <4>2, RecordQuiet
        <4> QED BY <3>1, <4>1, <4>3
      <3> QED BY <3>2, <3>3
    <2> HIDE DEF owed, e
    <2> QED BY <2>1, <2>7, <2>8, OwedRewards
  <1> QED BY <1>1, <1>3, <1>4, <1>5, <1>6, <1>7, <1>8


\* Steps that leave alone what the books are about, and pay nothing.
LEMMA QuietRewards ==
    ASSUME PoolInv, PoolInv', RewardInv, Record, swap' = NoSwap, UNCHANGED <<ticks, positions, clock>>,
           pool'.tick_current_index = pool.tick_current_index, pool'.growth = pool.growth,
           pool'.liquidity = pool.liquidity, pool'.emissions = pool.emissions,
           pool'.reward_last_updated_timestamp = pool.reward_last_updated_timestamp,
           pool.rewards \subseteq pool'.rewards,
           \A r \in Rewards : vault'[r] >= vault[r]
    PROVE  RewardInv'
  <1>1. Dormant(ticks', pool'.growth, Active(pool'))
    BY DEF RewardInv, Dormant, Active
  <1>2. ASSUME NEW r \in Rewards
        PROVE  Spent(r)' + DuesNow(r)' + Pending(r)' <= Spent(r) + DuesNow(r) + Pending(r)
    <2>1. Spent(r)' = Spent(r)
      BY SpentKept
    <2>2. DuesNow(r)' = DuesNow(r) /\ Pending(r)' = Pending(r)
      BY DEF DuesNow, Pending, Unsettled
    <2>3. Spent(r) \in Nat /\ DuesNow(r) \in Nat /\ Pending(r) \in Nat
      BY BooksTyped DEF RewardInv
    <2> QED BY <2>1, <2>2, <2>3
  <1> QED BY <1>1, <1>2, BooksCarried

\* What is pending is settled.
LEMMA SettledRewards ==
    ASSUME PoolInv, PoolInv', RewardInv, Record, swap' = NoSwap, clock' = clock,
           pool'.reward_last_updated_timestamp = clock, Dormant(ticks', pool'.growth, Active(pool')),
           \A r \in Rewards : /\ vault'[r] = vault[r]
                              /\ Spent(r) + DuesNow(r)' <= emitted[r]
    PROVE  RewardInv'
  <1>1. RecordsOK /\ RecordsOK'
    BY RecordTyped DEF RewardInv
  <1>2. ASSUME NEW r \in Rewards PROVE Spent(r)' + DuesNow(r)' + Pending(r)' <= emitted'[r]
    <2>1. Spent(r) \in Nat /\ emitted[r] \in Int /\ vault[r] \in Nat
      BY <1>1, BooksTyped
    <2>2. vault'[r] >= vault[r]
      BY <2>1
    <2>3. Spent(r)' = Spent(r) /\ Pending(r)' = 0 /\ emitted'[r] = emitted[r]
      BY <1>1, <2>2, SpentKept, NothingPending, RecordQuiet
    <2>4. DuesNow(r)' \in Nat
      BY <1>1, BooksNext DEF BooksOK
    <2>5. Spent(r) + DuesNow(r)' <= emitted[r]
      OBVIOUS
    <2> QED BY <2>1, <2>3, <2>4, <2>5
  <1> QED BY <1>1, <1>2 DEF RewardInv

\* What is due once the rewards are settled, and their growth while dormant.
LEMMA AccruedBooks ==
    ASSUME PoolInv, LiquidityInv, RewardInv, ~InvalidTimestamp(pool, clock),
           NEW growth, growth = next_whirlpool_reward_infos(pool, clock)
    PROVE  /\ Dormant(ticks, growth, Active(pool))
           /\ \A r \in Rewards :
                 Spent(r) + Dues(positions, pool.tick_current_index, ticks, growth, r) <= emitted[r]
  <1>1. /\ pool \in PoolRecords /\ ticks \in [Usable -> TickRecords] /\ positions \in Accounts
        /\ clock \in Nat
    BY DEF PoolInv, TypeOK, Accounts
  <1>2. growth \in [Kinds -> U128] /\ pool.growth \in [Kinds -> U128]
    BY <1>1, GrowthTyped DEF PoolRecords
  <1>3. Dormant(ticks, growth, Active(pool))
    <2>1. \A k \in Kinds \ Active(pool) : growth[k] = pool.growth[k]
      BY <1>2 DEF next_whirlpool_reward_infos, Active
    <2> QED BY <2>1 DEF Dormant, RewardInv
  <1>4. ASSUME NEW r \in Rewards
        PROVE  Spent(r) + Dues(positions, pool.tick_current_index, ticks, growth, r) <= emitted[r]
    <2> DEFINE x == Dues(positions, pool.tick_current_index, ticks, growth, r)
    <2>1. /\ Spent(r) \in Nat /\ DuesNow(r) \in Nat /\ Pending(r) \in Nat /\ emitted[r] \in Int
          /\ Spent(r) + DuesNow(r) + Pending(r) <= emitted[r] /\ r \in Kinds
      BY BooksTyped DEF RewardInv
    <2>2. x \in Nat
      BY <1>1, <1>2, <2>1, DuesTyped
    <2>3. x <= DuesNow(r) + Pending(r)
      BY AccruesPending DEF DuesNow
    <2> HIDE DEF x
    <2>4. Spent(r) + x <= emitted[r]
      BY <2>1, <2>2, <2>3
    <2> QED BY <2>4 DEF x
  <1> QED BY <1>3, <1>4

LEMMA AuthorityRewards ==
    ASSUME PoolInv, PoolInv', LiquidityInv, RewardInv, Record, AuthorityNext
    PROVE  RewardInv'
  <1>1. pool \in PoolRecords /\ \A r \in Rewards : vault[r] \in Nat
    BY BooksTyped DEF PoolInv, TypeOK, RewardInv
  <1>2. ASSUME NEW r, NEW emissions, SetRewardEmissions(r, emissions) PROVE RewardInv'
    <2> DEFINE growth == next_whirlpool_reward_infos(pool, clock)
    <2>1. /\ swap = NoSwap /\ UNCHANGED <<ticks, positions, vault, clock, swap>>
          /\ ~InvalidTimestamp(pool, clock) /\ pool'.growth = growth /\ pool'.rewards = pool.rewards
          /\ pool'.tick_current_index = pool.tick_current_index
          /\ pool'.reward_last_updated_timestamp = clock
      BY <1>1, <1>2 DEF SetRewardEmissions, update_emissions, PoolRecords
    <2> HIDE DEF growth
    <2>2. /\ Dormant(ticks, growth, Active(pool))
          /\ \A x \in Rewards :
                Spent(x) + Dues(positions, pool.tick_current_index, ticks, growth, x) <= emitted[x]
      BY <2>1, AccruedBooks DEF growth
    <2>3. Dormant(ticks', pool'.growth, Active(pool'))
      BY <2>1, <2>2 DEF Active
    <2>4. \A x \in Rewards : vault'[x] = vault[x] /\ Spent(x) + DuesNow(x)' <= emitted[x]
      BY <2>1, <2>2 DEF DuesNow
    <2> QED BY <2>1, <2>3, <2>4, SettledRewards
  <1>3. CASE CollectProtocolFees
    <2>1. /\ swap' = NoSwap /\ UNCHANGED <<ticks, positions, clock>>
          /\ transfer_from_vault_to_owner(pool.protocol_fee_owed)
          /\ pool' = [pool EXCEPT !.protocol_fee_owed = [k \in Tokens |-> 0]]
      BY <1>3 DEF CollectProtocolFees
    <2>2. DOMAIN pool.protocol_fee_owed = Tokens
      BY <1>1 DEF PoolRecords
    <2>3. \A r \in Rewards : vault'[r] = vault[r]
      BY <2>1, <2>2, TokensMove
    <2>4. \A r \in Rewards : vault'[r] >= vault[r]
      BY <1>1, <2>3
    <2>5. /\ pool'.tick_current_index = pool.tick_current_index /\ pool'.growth = pool.growth
          /\ pool'.liquidity = pool.liquidity /\ pool'.emissions = pool.emissions
          /\ pool'.reward_last_updated_timestamp = pool.reward_last_updated_timestamp
          /\ pool'.rewards = pool.rewards
      BY <1>1, <2>1 DEF PoolRecords
    <2> QED BY <2>1, <2>4, <2>5, QuietRewards
  <1>4. CASE \/ \E rate \in FeeRates : SetFeeRate(rate)
             \/ \E rate \in ProtocolFeeRates : SetProtocolFeeRate(rate)
             \/ \E i \in 1..Len(RewardNames) : InitializeReward(i)
    <2>1. /\ swap' = NoSwap /\ UNCHANGED <<ticks, positions, vault, clock>>
          /\ pool'.tick_current_index = pool.tick_current_index /\ pool'.growth = pool.growth
          /\ pool'.liquidity = pool.liquidity /\ pool'.emissions = pool.emissions
          /\ pool'.reward_last_updated_timestamp = pool.reward_last_updated_timestamp
          /\ pool.rewards \subseteq pool'.rewards
      BY <1>1, <1>4 DEF SetFeeRate, SetProtocolFeeRate, InitializeReward, PoolRecords
    <2>2. \A r \in Rewards : vault'[r] >= vault[r]
      BY <1>1, <2>1
    <2> QED BY <2>1, <2>2, QuietRewards
  <1> QED BY <1>2, <1>3, <1>4 DEF AuthorityNext

\* The iterations of a swap leave what is due as it was.
LEMMA IterationDues ==
    ASSUME NEW p \in Accounts, NEW s \in SwapRecords, NEW price \in Nat,
           SwapRuns(s, price), Looping(s), pool \in PoolRecords, NEW found, found = NextTick(s),
           NEW c, c = Computation(s, found), IterationSucceeds(s, found, c),
           NEW after, after = Iteration(s, found, c),
           Books(p, s.tick, s.liquidity, s.ticks), Dormant(s.ticks, s.growth, Active(pool)),
           NEW r \in Rewards
    PROVE  Dues(p, after.tick, after.ticks, after.growth, r) = Dues(p, s.tick, s.ticks, s.growth, r)
  <1> DEFINE G == after.growth
             tick == s.tick
             tks == s.ticks
  <1>1. r \in Kinds /\ r \notin Tokens
    BY KindSets, PoolAssumption
  <1>2. G[r] = s.growth[r]
    BY <1>1, IterationTurns
  <1>3. \A id \in PositionIds, k \in Kinds : Liquid(p, id) =>
            Since(p[id], after.tick, after.ticks, G, k) = Since(p[id], tick, tks, G, k)
    BY IterationTurns
  <1>4. /\ s.growth \in [Kinds -> U128] /\ tks \in [Usable -> TickRecords]
        /\ G \in [Kinds -> U128] /\ after.ticks \in [Usable -> TickRecords]
    <2>1. after \in SwapRecords
      BY IterationTyped
    <2> QED BY <2>1 DEF SwapRecords
  <1> HIDE DEF G, tick, tks
  <1>5. ASSUME NEW id \in PositionIds
        PROVE  Due(p, after.tick, after.ticks, G, r, id) = Due(p, tick, tks, s.growth, r, id)
    <2>1. CASE id \in Held(p)
      <3> DEFINE l == p[id].liquidity
                 a == Since(p[id], after.tick, after.ticks, G, r)
                 b == Since(p[id], tick, tks, s.growth, r)
                 w == WORD * p[id].owed[r]
      <3>1. /\ Due(p, after.tick, after.ticks, G, r, id) = w + l * a
            /\ Due(p, tick, tks, s.growth, r, id) = w + l * b
        BY <2>1 DEF Due
      <3>2. p[id] \in PositionRecords
        BY <2>1 DEF Held, Accounts
      <3>3. a \in Nat /\ b \in Nat
        BY <1>1, <1>4, <3>2, SinceTyped
      <3>4. Since(p[id], tick, tks, G, r) = b
        BY <1>2 DEF Since, Within, LeftOf
      <3>5. l # 0 => a = b
        BY <1>1, <1>3, <2>1, <3>4 DEF Liquid
      <3> HIDE DEF l, a, b, w
      <3>6. 0 * a = 0 /\ 0 * b = 0
        BY <3>3
      <3> QED BY <3>1, <3>5, <3>6, Zenon
    <2>2. CASE id \notin Held(p)
      BY <2>2 DEF Due
    <2> QED BY <2>1, <2>2
  <1>6. DueTo(p, after.tick, after.ticks, G, r) = DueTo(p, tick, tks, s.growth, r)
    BY <1>5 DEF DueTo
  <1> QED BY <1>6 DEF Dues, G, tick, tks


LEMMA SwapRewards ==
    ASSUME PoolInv, PoolInv', LiquidityInv, RewardInv, Record, SwapNext
    PROVE  RewardInv'
  <1>1. /\ positions \in Accounts /\ RecordsOK /\ Rewards \cap Tokens = {} /\ Rewards \subseteq Kinds
        /\ \A r \in Rewards : vault[r] \in Nat
    BY BooksTyped, KindSets, PoolAssumption DEF PoolInv, TypeOK, Accounts, RewardInv
  \* The swap in progress is thrown away.
  <1>2. ASSUME swap' = NoSwap, UNCHANGED <<pool, tick_arrays, ticks, positions, vault, clock>>
        PROVE  RewardInv'
    <2>1. \A r \in Rewards : vault'[r] >= vault[r]
      BY <1>1, <1>2
    <2> QED BY <1>2, <2>1, QuietRewards
  <1>3. CASE swap # NoSwap /\ SwapSearches(NextTick(swap))
    <2> DEFINE found == NextTick(swap)
               c == Computation(swap, found)
               after == Iteration(swap, found, c)
    <2>1. SwapIterates(found, c) \/ SwapFails(found, c)
      BY <1>3, Zenon DEF SwapSearches, SwapLoops
    <2>2. CASE SwapIterates(found, c)
      <3>1. /\ Looping(swap) /\ IterationSucceeds(swap, found, c) /\ swap' = after
            /\ UNCHANGED <<pool, ticks, positions, vault, clock>>
        BY <2>2 DEF SwapIterates
      <3>2. /\ swap \in SwapRecords /\ pool \in PoolRecords /\ SwapRuns(swap, pool.sqrt_price)
            /\ pool.sqrt_price \in Nat
        BY <1>3, SwapTyped
      <3>3. /\ Books(positions, swap.tick, swap.liquidity, swap.ticks)
            /\ Dormant(swap.ticks, swap.growth, Active(pool))
        BY <1>3 DEF LiquidityInv, RewardInv
      <3> HIDE DEF found, c, after
      <3>4. Dormant(after.ticks, after.growth, Active(pool))
        BY <1>1, <3>1, <3>2, <3>3, IterationTurns DEF found, c, after
      <3>5. ASSUME NEW r \in Rewards
            PROVE  Dues(positions, after.tick, after.ticks, after.growth, r)
                     = Dues(positions, swap.tick, swap.ticks, swap.growth, r)
        BY <1>1, <3>1, <3>2, <3>3, IterationDues DEF found, c, after
      <3>6. RecordsOK'
        BY <1>1, RecordTyped
      <3>7. ASSUME NEW r \in Rewards
            PROVE  /\ emitted'[r] = emitted[r] /\ Spent(r)' = Spent(r)
                   /\ DuesNow(r)' = DuesNow(r) /\ Pending(r)' = Pending(r)
        <4>1. vault'[r] >= vault[r]
          BY <1>1, <3>1
        <4>2. emitted'[r] = emitted[r] /\ Spent(r)' = Spent(r)
          BY <1>1, <3>1, <4>1, SpentKept, RecordQuiet
        <4> QED BY <3>1, <4>2 DEF DuesNow, Pending, Unsettled
      <3>8. /\ \A r \in Rewards : Spent(r)' + DuesNow(r)' + Pending(r)' <= emitted'[r]
            /\ \A r \in Rewards : Spent(r)' + Dues(positions', swap'.tick, swap'.ticks, swap'.growth, r) <= emitted'[r]
        <4>1. ASSUME NEW r \in Rewards
              PROVE  /\ Spent(r) + DuesNow(r) + Pending(r) <= emitted[r]
                     /\ Spent(r) + Dues(positions, swap.tick, swap.ticks, swap.growth, r) <= emitted[r]
          BY <1>3 DEF RewardInv
        <4> QED BY <3>1, <3>5, <3>7, <4>1
      <3> QED BY <3>1, <3>3, <3>4, <3>6, <3>8 DEF RewardInv
    <2>3. CASE SwapFails(found, c)
      BY <1>2, <2>3 DEF SwapFails
    <2> QED BY <2>1, <2>2, <2>3
  <1>4. CASE SwapCommits
    <2>1. /\ swap # NoSwap /\ swap' = NoSwap /\ ticks' = swap.ticks /\ UNCHANGED <<positions, clock>>
          /\ pool' = [pool EXCEPT
                        !.sqrt_price = swap.sqrt_price,
                        !.tick_current_index = swap.tick,
                        !.liquidity = swap.liquidity,
                        !.growth = swap.growth,
                        !.reward_last_updated_timestamp = clock,
                        !.protocol_fee_owed[InputToken(swap)] = WrapU64(@ + swap.protocol_fee)]
          /\ vault' = [vault EXCEPT ![InputToken(swap)] = @ + AmountIn(swap),
                                    ![OutputToken(swap)] = @ - AmountOut(swap)]
      BY <1>4 DEF SwapCommits
    <2>2. pool \in PoolRecords /\ vault \in [Kinds -> 0..Supply]
      BY DEF PoolInv, TypeOK
    <2>3. /\ pool'.tick_current_index = swap.tick /\ pool'.growth = swap.growth
          /\ pool'.rewards = pool.rewards /\ pool'.reward_last_updated_timestamp = clock
      BY <2>1, <2>2 DEF PoolRecords
    <2>4. \A r \in Rewards : vault'[r] = vault[r]
      <3>1. InputToken(swap) \in Tokens /\ OutputToken(swap) \in Tokens
        BY DEF InputToken, OutputToken, Tokens
      <3> QED BY <1>1, <2>1, <2>2, <3>1
    <2>5. Dormant(ticks', pool'.growth, Active(pool'))
      BY <2>1, <2>3 DEF RewardInv, Active
    <2>6. \A r \in Rewards : Spent(r) + DuesNow(r)' <= emitted[r]
      BY <2>1, <2>3 DEF RewardInv, DuesNow
    <2> QED BY <2>1, <2>3, <2>4, <2>5, <2>6, SettledRewards
  <1>5. CASE SwapRefused
    BY <1>2, <1>5 DEF SwapRefused
  <1> QED BY <1>3, <1>4, <1>5 DEF SwapNext

\* The rewards are settled in the working copy of a swap when it begins.
LEMMA BeginRewards ==
    ASSUME PoolInv, PoolInv', LiquidityInv, RewardInv, Record, NEW amount, NEW threshold, NEW limit,
           NEW is_input, NEW a_to_b, NEW arrays,
           BeginSwap(amount, threshold, limit, is_input, a_to_b, arrays)
    PROVE  RewardInv'
  <1> DEFINE growth == next_whirlpool_reward_infos(pool, clock)
  <1>1. /\ ~InvalidTimestamp(pool, clock) /\ UNCHANGED <<pool, ticks, positions, vault, clock>>
        /\ swap'.tick = pool.tick_current_index /\ swap'.growth = growth /\ swap'.ticks = ticks
    BY DEF BeginSwap
  <1> HIDE DEF growth
  <1>2. /\ Dormant(ticks, growth, Active(pool))
        /\ \A r \in Rewards :
              Spent(r) + Dues(positions, pool.tick_current_index, ticks, growth, r) <= emitted[r]
    BY <1>1, AccruedBooks DEF growth
  <1>3. RecordsOK /\ RecordsOK'
    BY RecordTyped DEF RewardInv
  <1>4. ASSUME NEW r \in Rewards
        PROVE  /\ emitted'[r] = emitted[r] /\ Spent(r)' = Spent(r)
               /\ DuesNow(r)' = DuesNow(r) /\ Pending(r)' = Pending(r)
    <2>1. vault'[r] >= vault[r]
      BY <1>1, <1>3, BooksTyped
    <2>2. emitted'[r] = emitted[r] /\ Spent(r)' = Spent(r)
      BY <1>1, <1>3, <2>1, SpentKept, RecordQuiet
    <2> QED BY <1>1, <2>2 DEF DuesNow, Pending, Unsettled
  <1>5. /\ \A r \in Rewards : Spent(r)' + DuesNow(r)' + Pending(r)' <= emitted'[r]
        /\ \A r \in Rewards : Spent(r)' + Dues(positions', swap'.tick, swap'.ticks, swap'.growth, r) <= emitted'[r]
    BY <1>1, <1>2, <1>4 DEF RewardInv
  <1>6. Dormant(ticks', pool'.growth, Active(pool')) /\ Dormant(swap'.ticks, swap'.growth, Active(pool'))
    BY <1>1, <1>2 DEF RewardInv
  <1> QED BY <1>3, <1>5, <1>6 DEF RewardInv

LEMMA ClockRewards ==
    ASSUME PoolInv, PoolInv', RewardInv, Record, NEW now, ClockMoves(now)
    PROVE  RewardInv'
  <1>1. swap' = NoSwap /\ UNCHANGED <<pool, ticks, positions, vault>>
    BY DEF ClockMoves
  <1>2. RecordsOK /\ RecordsOK'
    BY RecordTyped DEF RewardInv
  <1>3. ASSUME NEW r \in Rewards PROVE Spent(r)' + DuesNow(r)' + Pending(r)' <= emitted'[r]
    <2>1. /\ Spent(r) \in Nat /\ DuesNow(r) \in Nat /\ Pending(r) \in Nat /\ emitted[r] \in Int
          /\ paid[r] \in Nat /\ vault[r] \in Nat
          /\ Spent(r) + DuesNow(r) + Pending(r) <= emitted[r]
      BY <1>2, BooksTyped DEF RewardInv
    <2>2. Pending(r)' \in Nat /\ emitted'[r] \in Int
      BY <1>2, BooksNext DEF BooksOK, RecordsOK
    <2>3. emitted'[r] + Pending(r) = emitted[r] + Pending(r)'
      BY <1>1, <1>2, RecordEmits
    <2>4. Spent(r)' = Spent(r)
      <3>1. paid'[r] = paid[r] + (IF vault'[r] < vault[r] THEN vault[r] - vault'[r] ELSE 0)
        BY DEF Record
      <3>2. paid'[r] = paid[r]
        BY <1>1, <2>1, <3>1
      <3> QED BY <3>2 DEF Spent
    <2>5. DuesNow(r)' = DuesNow(r)
      BY <1>1 DEF DuesNow
    <2> QED BY <2>1, <2>2, <2>3, <2>4, <2>5
  <1>4. Dormant(ticks', pool'.growth, Active(pool'))
    BY <1>1 DEF RewardInv
  <1> QED BY <1>1, <1>2, <1>3, <1>4 DEF RewardInv

LEMMA RewardCreated == BoundedInit => Created /\ RewardInv
  <1> SUFFICES ASSUME BoundedInit PROVE Created /\ RewardInv
    OBVIOUS
  <1>1. Created
    BY BudgetAssumption DEF BoundedInit, Created
  <1>2. PoolInv
    BY <1>1, PoolCreated
  <1>3. /\ pool.growth = Zero /\ ticks = [t \in Usable |-> DefaultTick] /\ swap = NoSwap
        /\ positions = [id \in PositionIds |-> NoPosition] /\ pool.liquidity = 0
    BY DEF BoundedInit, InitializePool
  <1>4. Dormant(ticks, pool.growth, Active(pool))
    BY <1>3 DEF Dormant, DefaultTick, Zero
  <1>5. RecordsOK
    BY DEF RecordsOK, BoundedInit
  <1>6. ASSUME NEW r \in Rewards PROVE Spent(r) + DuesNow(r) + Pending(r) <= emitted[r]
    <2>1. Pending(r) = 0
      BY <1>3 DEF Pending
    <2>2. Spent(r) = 0
      <3>1. WORD * 0 = 0
        BY Widths
      <3> QED BY <3>1 DEF Spent, BoundedInit
    <2>3. DuesNow(r) = 0
      <3> DEFINE f == DueTo(positions, pool.tick_current_index, ticks, pool.growth, r)
      <3>1. \A x \in PositionIds : f[x] = 0
        BY <1>3 DEF DueTo, Due, Held
      <3> HIDE DEF f
      <3>2. Total(f, {}) = Total(f, PositionIds)
        <4>1. {} \in SUBSET PositionIds /\ \A x \in PositionIds : f[x] \in Int
          BY <3>1
        <4>2. \A x \in PositionIds \ {} : f[x] = 0
          BY <3>1
        <4> QED BY <4>1, <4>2, PositionAssumption, TotalPart
      <3> QED BY <3>2, TotalEmpty DEF DuesNow, Dues, f
    <2>4. emitted[r] = 0
      BY DEF BoundedInit
    <2> QED BY <2>1, <2>2, <2>3, <2>4
  <1> QED BY <1>1, <1>3, <1>4, <1>5, <1>6 DEF RewardInv


LEMMA BoundedTakes == BoundedNext => Next /\ Record
  <1> SUFFICES ASSUME BoundedNext PROVE Next /\ Record
    OBVIOUS
  <1>1. ASSUME NEW op, Spend(op) PROVE Record
    BY <1>1 DEF Spend
  <1>2. Free => Record
    BY DEF Free
  <1> QED BY <1>1, <1>2 DEF BoundedNext, Next, PositionNext, AuthorityNext

LEMMA RewardStep ==
    PoolInv /\ PoolInv' /\ LiquidityInv /\ RewardInv /\ [BoundedNext]_boundedVars => RewardInv'
  <1> SUFFICES ASSUME PoolInv, PoolInv', LiquidityInv, RewardInv, [BoundedNext]_boundedVars
               PROVE  RewardInv'
    OBVIOUS
  <1>1. CASE UNCHANGED boundedVars
    <2>1. UNCHANGED <<pool, ticks, positions, clock, swap, emitted, paid>>
      BY <1>1 DEF boundedVars, vars
    <2> QED BY <2>1 DEF RewardInv, RecordsOK, Spent, DuesNow, Pending, Unsettled
  <1> SUFFICES ASSUME Next, Record PROVE RewardInv'
    BY <1>1, BoundedTakes
  <1>2. CASE PositionNext
    BY <1>2, PositionRewards
  <1>3. CASE AuthorityNext
    BY <1>3, AuthorityRewards
  <1>4. CASE SwapNext
    BY <1>4, SwapRewards
  <1>5. \A r \in Rewards : vault[r] \in Nat
    BY BooksTyped DEF RewardInv
  <1>6. ASSUME NEW start, InitializeTickArray(start) PROVE RewardInv'
    <2>1. swap' = NoSwap /\ UNCHANGED <<pool, ticks, positions, vault, clock>>
      BY <1>6 DEF InitializeTickArray
    <2>2. \A r \in Rewards : vault'[r] >= vault[r]
      BY <1>5, <2>1
    <2> QED BY <2>1, <2>2, QuietRewards
  <1>7. ASSUME NEW r \in Rewards, NEW amount \in FundAmounts, FundReward(r, amount) PROVE RewardInv'
    <2>1. /\ swap' = NoSwap /\ UNCHANGED <<pool, ticks, positions, clock>>
          /\ vault' = [k \in Kinds |-> IF k \in {r} THEN vault[k] + amount ELSE vault[k]]
      BY <1>7 DEF FundReward, transfer_from_owner_to_vault
    <2>2. amount \in Nat /\ Rewards \subseteq Kinds
      BY InputAssumption, Unsigned, KindSets
    <2>3. \A x \in Rewards : vault'[x] >= vault[x]
      BY <1>5, <2>1, <2>2
    <2> QED BY <2>1, <2>3, QuietRewards
  <1>8. ASSUME NEW now, ClockMoves(now) PROVE RewardInv'
    BY <1>8, ClockRewards
  <1>9. ASSUME NEW amount, NEW threshold, NEW limit, NEW is_input, NEW a_to_b, NEW arrays,
               BeginSwap(amount, threshold, limit, is_input, a_to_b, arrays)
        PROVE  RewardInv'
    BY <1>9, BeginRewards
  <1> QED BY <1>2, <1>3, <1>4, <1>6, <1>7, <1>8, <1>9 DEF Next

LEMMA RewardAlways == BoundedSpec => [](PoolInv /\ LiquidityInv /\ RewardInv)
  <1>1. [BoundedNext]_boundedVars => [Next]_vars
    BY BoundedTakes DEF boundedVars
  <1> QED BY <1>1, RewardCreated, PoolCreated, LiquidityCreated, PoolInvStep, LiquidityStep,
             RewardStep, PTL DEF BoundedSpec

\* What a position can still collect of a reward.
Claimed(r, id) == positions[id].owed[r] + Earned(positions[id], InsideOf(Committed, id), r)

\* The partial sums that the fold over the claims builds.
ClaimsAdd(r, ids, h) ==
    h = [s \in SUBSET ids |-> IF s = {} THEN 0
                              ELSE LET x == CHOOSE x \in s : TRUE
                                   IN  Claimed(r, x) + h[s \ {x}]]

LEMMA ClaimsTotal ==
    ASSUME NEW r, NEW ids, IsFiniteSet(ids), NEW f, \A x \in ids : f[x] = Claimed(r, x)
    PROVE  MapThenSumSet(LAMBDA id : Claimed(r, id), ids) = Total(f, ids)
  <1> DEFINE k == CHOOSE k : ClaimsAdd(r, ids, k)
  <1>1. ASSUME NEW s \in SUBSET ids, s # {} PROVE f[First(s)] = Claimed(r, First(s))
    BY <1>1, FirstIn
  <1>2. ASSUME NEW h PROVE ClaimsAdd(r, ids, h) <=> Adds(f, ids, h)
    <2> DEFINE F == [s \in SUBSET ids |-> IF s = {} THEN 0
                                          ELSE Claimed(r, First(s)) + h[s \ {First(s)}]]
               G == [s \in SUBSET ids |-> IF s = {} THEN 0 ELSE f[First(s)] + h[s \ {First(s)}]]
    <2>1. F = G
      BY <1>1
    <2>2. ClaimsAdd(r, ids, h) <=> h = F
      BY DEF ClaimsAdd, First
    <2>3. Adds(f, ids, h) <=> h = G
      BY DEF Adds
    <2> QED BY <2>1, <2>2, <2>3, Zenon
  <1>3. \E h : ClaimsAdd(r, ids, h)
    BY <1>2, SumsExist
  <1>4. ClaimsAdd(r, ids, k)
    BY <1>3
  <1>5. MapThenSumSet(LAMBDA id : Claimed(r, id), ids) = k[ids]
    BY DEF MapThenSumSet, MapThenFoldSet, ClaimsAdd, k
  <1> HIDE DEF k
  <1>6. Adds(f, ids, k)
    BY <1>2, <1>4
  <1>7. Adds(f, ids, CHOOSE h : Adds(f, ids, h))
    BY SumsChosen
  <1> QED BY <1>5, <1>6, <1>7, SumsAgree DEF Total

\* What the positions can still collect is at most what is due to them.
LEMMA ClaimsDue ==
    ASSUME PoolInv, LiquidityInv, RewardInv, NEW r \in Rewards
    PROVE  LET sum == MapThenSumSet(LAMBDA id : Claimed(r, id), Open)
           IN  sum \in Int /\ WORD * sum <= DuesNow(r)
  <1> DEFINE p == positions
             current == pool.tick_current_index
             f == [id \in PositionIds |-> IF id \in Open THEN Claimed(r, id) ELSE 0]
             g == [id \in PositionIds |-> f[id] * WORD]
             d == DueTo(p, current, ticks, pool.growth, r)
             sum == MapThenSumSet(LAMBDA id : Claimed(r, id), Open)
  <1>1. /\ pool \in PoolRecords /\ ticks \in [Usable -> TickRecords] /\ p \in Accounts
        /\ Dormant(ticks, pool.growth, Active(pool))
        /\ \A u \in Usable : TickBook(ticks[u], p, u)
    BY DEF PoolInv, TypeOK, Accounts, LiquidityInv, Books, RewardInv
  <1>2. pool.growth \in [Kinds -> U128] /\ current \in Int /\ r \in Kinds /\ WORD \in Nat
    BY <1>1, TickIndexAssumption, KindSets, Widths DEF PoolRecords
  <1>3. ASSUME NEW id \in Open PROVE Claimed(r, id) \in Nat /\ Claimed(r, id) * WORD <= d[id]
    <2> DEFINE l == p[id].liquidity
               since == Since(p[id], current, ticks, pool.growth, r)
               o == p[id].owed[r]
               inside == InsideOf(Committed, id)
               e == Earned(p[id], inside, r)
    <2>1. id \in Held(p) /\ id \in PositionIds /\ p[id] \in PositionRecords
      BY OpenTyped DEF Open, Held
    <2>2. e \in Nat /\ WORD * e <= l * since
      <3>1. inside
              = next_growths_inside(current, ticks, p[id].tick_lower_index,
                                    p[id].tick_upper_index, pool.growth, Active(pool))
        BY DEF InsideOf, Committed
      <3> HIDE DEF inside
      <3>2. /\ Earned(p[id], inside, r) \in Nat
            /\ WORD * Earned(p[id], inside, r)
                 <= p[id].liquidity * Since(p[id], current, ticks, pool.growth, r)
        <4> HIDE DEF p, current
        <4> QED BY <1>1, <1>2, <2>1, <3>1, EarnedAtMost
      <3> QED BY <3>2
    <2>3. o \in Nat /\ l \in Nat /\ since \in Nat
      <3>1. o \in U64
        BY <1>2, <2>1 DEF PositionRecords
      <3> QED BY <1>1, <1>2, <2>1, <3>1, HeldTyped, SinceTyped, Unsigned
    <2>4. d[id] = WORD * o + l * since
      BY <2>1 DEF DueTo, Due
    <2>5. Claimed(r, id) = o + e
      BY DEF Claimed
    <2> HIDE DEF l, since, o, e, d
    <2>6. (o + e) * WORD = WORD * o + WORD * e
      <3>1. (o + e) * WORD = o * WORD + e * WORD
        BY <1>2, <2>2, <2>3, Distributes
      <3>2. o * WORD = WORD * o /\ e * WORD = WORD * e
        BY <1>2, <2>2, <2>3, ProductTurned
      <3> QED BY <3>1, <3>2
    <2> DEFINE a == WORD * o
               b == WORD * e
               c == l * since
    <2>7. a \in Nat /\ b \in Nat /\ c \in Nat
      BY <1>2, <2>2, <2>3, ProductNat
    <2>8. (o + e) * WORD = a + b /\ d[id] = a + c /\ b <= c
      BY <2>2, <2>4, <2>6
    <2> HIDE DEF a, b, c
    <2>9. (o + e) * WORD <= d[id]
      BY <2>7, <2>8
    <2> QED BY <2>2, <2>3, <2>5, <2>9
  <1>4. ASSUME NEW id \in PositionIds
        PROVE  f[id] \in Nat /\ f[id] \in Int /\ g[id] \in Int /\ d[id] \in Int /\ g[id] <= d[id]
    <2>1. d[id] \in Nat
      BY <1>1, <1>2, DueTyped
    <2> HIDE DEF d
    <2>2. CASE id \in Open
      <3>1. f[id] = Claimed(r, id) /\ g[id] = Claimed(r, id) * WORD
        BY <2>2
      <3>2. Claimed(r, id) \in Nat /\ Claimed(r, id) * WORD <= d[id]
        BY <1>3, <2>2
      <3> HIDE DEF f, g
      <3>3. g[id] \in Int
        BY <1>2, <3>1, <3>2, ProductInt
      <3>4. g[id] <= d[id]
        BY <3>1, <3>2, Zenon
      <3> QED BY <2>1, <3>1, <3>2, <3>3, <3>4
    <2>3. CASE id \notin Open
      <3>1. f[id] = 0 /\ g[id] = 0 * WORD
        BY <2>3
      <3> HIDE DEF f, g
      <3>2. 0 * WORD = 0
        BY <1>2
      <3> QED BY <2>1, <3>1, <3>2
    <2> QED BY <2>2, <2>3
  <1>5. Open \in SUBSET PositionIds /\ IsFiniteSet(Open)
    BY PositionAssumption, FS_Subset DEF Open
  <1>6. sum = Total(f, Open)
    <2>1. \A x \in Open : f[x] = Claimed(r, x)
      BY <1>5
    <2> HIDE DEF f
    <2> QED BY <1>5, <2>1, ClaimsTotal
  <1>7. (\A x \in PositionIds \ Open : f[x] = 0) /\ \A x \in PositionIds : g[x] = f[x] * WORD
    OBVIOUS
  <1> HIDE DEF f, g, d, sum
  <1>8. Total(f, PositionIds) = sum /\ Total(f, PositionIds) \in Int
    BY <1>4, <1>5, <1>6, <1>7, PositionAssumption, TotalPart, TotalTyped
  <1>9. Total(g, PositionIds) = Total(f, PositionIds) * WORD
    <2>1. WORD \in Int
      BY <1>2
    <2> QED BY <1>4, <1>7, <2>1, PositionAssumption, TotalScales
  <1>10. Total(g, PositionIds) <= Total(d, PositionIds)
    BY <1>4, PositionAssumption, TotalBelow
  <1>11. sum * WORD = WORD * sum
    BY <1>2, <1>8, ProductTurned
  <1>12. WORD * sum <= Total(d, PositionIds)
    BY <1>8, <1>9, <1>10, <1>11
  <1> QED BY <1>8, <1>12 DEF DuesNow, Dues, d, sum

\* A reward never hands out more than its emissions, in every pool: what was
\* paid, what is owed and what positions earned and did not settle yet are
\* together within what the rates emitted, through changes of the rate, ticks
\* crossed or initialised anew, a clock that goes back, and swaps in progress.
THEOREM RewardsBacked == BoundedSpec => []RewardsWithinEmission
  <1>1. PoolInv /\ LiquidityInv /\ RewardInv => RewardsWithinEmission
    <2> SUFFICES ASSUME PoolInv, LiquidityInv, RewardInv, NEW r \in pool.rewards
                 PROVE  WORD * (paid[r] + MapThenSumSet(LAMBDA id : Claimed(r, id), Open)) <= emitted[r]
      BY Zenon DEF RewardsWithinEmission, Claimed
    <2> DEFINE sum == MapThenSumSet(LAMBDA id : Claimed(r, id), Open)
    <2>1. r \in Rewards
      BY DEF PoolInv, TypeOK, PoolRecords
    <2>2. /\ Spent(r) \in Nat /\ DuesNow(r) \in Nat /\ Pending(r) \in Nat /\ emitted[r] \in Int
          /\ paid[r] \in Nat /\ Spent(r) + DuesNow(r) + Pending(r) <= emitted[r]
      BY <2>1, BooksTyped DEF RewardInv
    <2>3. sum \in Int /\ WORD * sum <= DuesNow(r)
      BY <2>1, ClaimsDue
    <2> HIDE DEF sum
    <2> DEFINE n == paid[r]
    <2>4. n \in Int /\ WORD \in Int
      BY <2>2, Widths
    <2> HIDE DEF n
    <2>5. WORD * (n + sum) = WORD * n + WORD * sum
      <3>1. (n + sum) * WORD = n * WORD + sum * WORD
        BY <2>3, <2>4, Distributes
      <3>2. (n + sum) * WORD = WORD * (n + sum) /\ n * WORD = WORD * n /\ sum * WORD = WORD * sum
        BY <2>3, <2>4, ProductTurned
      <3> QED BY <3>1, <3>2
    <2> DEFINE a == WORD * n
               b == WORD * sum
    <2>6. a = Spent(r) /\ b \in Int /\ b <= DuesNow(r)
      BY <2>3, <2>4, ProductInt DEF Spent, n
    <2> HIDE DEF a, b
    <2>7. a + b <= emitted[r]
      BY <2>2, <2>6
    <2> QED BY <2>5, <2>7 DEF a, b, n, sum
  <1> QED BY <1>1, RewardAlways, PTL

-----------------------------------------------------------------------------
(* What the positions are worth at a price. *)

\* The price, or the end of a range from lo to hi that it is beyond.
Clamp(price, lo, hi) == IF price < lo THEN lo ELSE IF price > hi THEN hi ELSE price

LowPrice(position) == SqrtPrice[position.tick_lower_index]
HighPrice(position) == SqrtPrice[position.tick_upper_index]

\* What one of a position's liquidity is worth in token k.
Rate(k, position, price) ==
    Value(k, Clamp(price, LowPrice(position), HighPrice(position)))
        - Value(k, IF k = "a" THEN HighPrice(position) ELSE LowPrice(position))

Stake(p, price, k, id) ==
    IF id \in Held(p) THEN p[id].liquidity * Rate(k, p[id], price) ELSE 0

StakeOf(p, price, k) == [id \in PositionIds |-> Stake(p, price, k, id)]

Stakes(p, price, k) == Total(StakeOf(p, price, k), PositionIds)

LEMMA RangePrices ==
    ASSUME NEW position \in PositionRecords
    PROVE  /\ position.tick_lower_index \in MIN_TICK_INDEX..MAX_TICK_INDEX
           /\ position.tick_upper_index \in MIN_TICK_INDEX..MAX_TICK_INDEX
           /\ LowPrice(position) \in 1..U128MAX /\ HighPrice(position) \in 1..U128MAX
           /\ LowPrice(position) \in Nat /\ HighPrice(position) \in Nat
           /\ position.tick_lower_index < position.tick_upper_index =>
                 LowPrice(position) < HighPrice(position)
  <1>1. /\ position.tick_lower_index \in MIN_TICK_INDEX..MAX_TICK_INDEX
        /\ position.tick_upper_index \in MIN_TICK_INDEX..MAX_TICK_INDEX
    BY DEF PositionRecords, Usable
  <1>2. \A t \in MIN_TICK_INDEX..MAX_TICK_INDEX : SqrtPrice[t] \in 1..U128MAX /\ SqrtPrice[t] \in Nat
    BY TickPrices
  <1> QED BY <1>1, <1>2, TickPriceAssumption DEF LowPrice, HighPrice

LEMMA RateTyped ==
    ASSUME NEW position \in PositionRecords,
           position.tick_lower_index < position.tick_upper_index,
           NEW price \in 1..U128MAX, NEW k \in Tokens
    PROVE  Rate(k, position, price) \in Nat
  <1> DEFINE lo == LowPrice(position)
             hi == HighPrice(position)
             c == Clamp(price, lo, hi)
  <1>1. lo \in 1..U128MAX /\ hi \in 1..U128MAX /\ lo \in Nat /\ hi \in Nat /\ lo < hi
    BY RangePrices
  <1>2. Rate(k, position, price) = Value(k, c) - Value(k, IF k = "a" THEN hi ELSE lo)
    BY DEF Rate
  <1> HIDE DEF lo, hi
  <1>3. c \in 1..U128MAX /\ lo <= c /\ c <= hi
    BY <1>1 DEF Clamp
  <1> HIDE DEF c
  <1>4. Value(k, c) \in Int /\ Value(k, lo) \in Int /\ Value(k, hi) \in Int
    BY <1>1, <1>3, ValueTyped
  <1>5. CASE k = "a"
    BY <1>1, <1>2, <1>3, <1>4, <1>5, ValueOrder
  <1>6. CASE k = "b"
    BY <1>1, <1>2, <1>3, <1>4, <1>6, ValueOrder
  <1> QED BY <1>5, <1>6 DEF Tokens

\* A stake is a natural number.
LEMMA StakeTyped ==
    ASSUME NEW p \in Accounts, Ordered(p), NEW price \in 1..U128MAX, NEW k \in Tokens,
           NEW id \in PositionIds
    PROVE  /\ Stake(p, price, k, id) \in Nat /\ Stake(p, price, k, id) \in Int
           /\ StakeOf(p, price, k)[id] = Stake(p, price, k, id)
  <1>1. CASE id \in Held(p)
    <2>1. p[id] \in PositionRecords /\ p[id].tick_lower_index < p[id].tick_upper_index
          /\ p[id].liquidity \in Nat
      BY <1>1, HeldTyped DEF Held, Accounts, Ordered
    <2>2. Rate(k, p[id], price) \in Nat
      BY <2>1, RateTyped
    <2>3. p[id].liquidity * Rate(k, p[id], price) \in Nat
      BY <2>1, <2>2, ProductNat
    <2> QED BY <1>1, <2>3 DEF Stake, StakeOf
  <1>2. CASE id \notin Held(p)
    BY <1>2 DEF Stake, StakeOf
  <1> QED BY <1>1, <1>2

LEMMA StakesTyped ==
    ASSUME NEW p \in Accounts, Ordered(p), NEW price \in 1..U128MAX, NEW k \in Tokens
    PROVE  Stakes(p, price, k) \in Nat
  <1> DEFINE f == StakeOf(p, price, k)
  <1>1. \A id \in PositionIds : f[id] \in Nat
    BY StakeTyped
  <1> HIDE DEF f
  <1>2. Total(f, PositionIds) \in Nat
    BY <1>1, PositionAssumption, TotalNat
  <1> QED BY <1>2 DEF Stakes, f

\* A price that moves within every range that holds tick t, and within none of
\* the others.
Sweeps(p, t, x, y) ==
    \A id \in Held(p) : p[id].liquidity # 0 =>
        IF id \in InRange(p, t)
        THEN /\ LowPrice(p[id]) <= x /\ x <= HighPrice(p[id])
             /\ LowPrice(p[id]) <= y /\ y <= HighPrice(p[id])
        ELSE \/ x <= LowPrice(p[id]) /\ y <= LowPrice(p[id])
             \/ HighPrice(p[id]) <= x /\ HighPrice(p[id]) <= y

\* Such a move changes the worth of the positions as it does that of the
\* liquidity in range.
LEMMA StakesMove ==
    ASSUME NEW p \in Accounts, Ordered(p), NEW t, NEW x \in 1..U128MAX, NEW y \in 1..U128MAX,
           Sweeps(p, t, x, y), NEW k \in Tokens
    PROVE  Stakes(p, y, k)
             = Stakes(p, x, k) + LiquidityIn(p, InRange(p, t)) * (Value(k, y) - Value(k, x))
  <1> DEFINE f == StakeOf(p, x, k)
             g == StakeOf(p, y, k)
             S == Shares(p, InRange(p, t))
             n == Value(k, y) - Value(k, x)
             e == [id \in PositionIds |-> S[id] * n]
             L == LiquidityIn(p, InRange(p, t))
  <1>1. ASSUME NEW id \in PositionIds
        PROVE  f[id] \in Int /\ g[id] \in Int /\ S[id] \in Int
    <2>1. f[id] \in Int /\ g[id] \in Int
      BY StakeTyped
    <2>2. S[id] \in Nat
      BY RangesHeld, ShareTyped
    <2> QED BY <2>1, <2>2
  <1>2. Value(k, x) \in Int /\ Value(k, y) \in Int /\ n \in Int
    <2>1. Value(k, x) \in Nat /\ Value(k, y) \in Nat
      BY ValueTyped
    <2> QED BY <2>1
  <1>3. ASSUME NEW id \in PositionIds PROVE g[id] = f[id] + S[id] * n
    <2>1. CASE id \in Held(p)
      <3> DEFINE l == p[id].liquidity
                 lo == LowPrice(p[id])
                 hi == HighPrice(p[id])
                 z == Value(k, IF k = "a" THEN hi ELSE lo)
                 vx == Value(k, Clamp(x, lo, hi))
                 vy == Value(k, Clamp(y, lo, hi))
      <3>1. /\ l \in Nat /\ p[id] \in PositionRecords
            /\ p[id].tick_lower_index < p[id].tick_upper_index
        BY <2>1, HeldTyped DEF Held, Accounts, Ordered
      <3>2. /\ lo \in 1..U128MAX /\ hi \in 1..U128MAX /\ lo \in Nat /\ hi \in Nat /\ lo < hi
        BY <3>1, RangePrices
      <3>3. f[id] = l * (vx - z) /\ g[id] = l * (vy - z)
        BY <2>1 DEF StakeOf, Stake, Rate
      <3>4. S[id] = IF id \in InRange(p, t) THEN l ELSE 0
        BY DEF Shares, Share
      <3>5. l # 0 => IF id \in InRange(p, t) THEN lo <= x /\ x <= hi /\ lo <= y /\ y <= hi
                     ELSE (x <= lo /\ y <= lo) \/ (hi <= x /\ hi <= y)
        BY <2>1 DEF Sweeps
      <3> HIDE DEF f, g, S, l, lo, hi
      <3>6. z \in Int /\ vx \in Int /\ vy \in Int
        <4>1. Clamp(x, lo, hi) \in 1..U128MAX /\ Clamp(y, lo, hi) \in 1..U128MAX
          BY <3>2 DEF Clamp
        <4>2. Value(k, Clamp(x, lo, hi)) \in Nat /\ Value(k, Clamp(y, lo, hi)) \in Nat
          BY <4>1, ValueTyped
        <4>3. Value(k, lo) \in Nat /\ Value(k, hi) \in Nat
          BY <3>2, ValueTyped
        <4> QED BY <4>2, <4>3
      <3>7. CASE l = 0
        <4>1. S[id] = 0
          BY <3>4, <3>7
        <4> HIDE DEF z, vx, vy, n
        <4>2. 0 * (vx - z) = 0 /\ 0 * (vy - z) = 0 /\ 0 * n = 0
          BY <1>2, <3>6
        <4> QED BY <3>3, <3>7, <4>1, <4>2
      <3>8. CASE l # 0 /\ id \in InRange(p, t)
        <4>1. Clamp(x, lo, hi) = x /\ Clamp(y, lo, hi) = y
          BY <3>2, <3>5, <3>8 DEF Clamp
        <4>2. vx = Value(k, x) /\ vy = Value(k, y) /\ S[id] = l
          BY <3>4, <3>8, <4>1
        <4>3. n = vy - vx
          BY <4>2
        <4> HIDE DEF z, vx, vy, n
        <4>4. l * (vy - z) = l * (vx - z) + l * (vy - vx)
          BY <3>1, <3>6
        <4> QED BY <3>3, <4>2, <4>3, <4>4
      <3>9. CASE l # 0 /\ id \notin InRange(p, t)
        <4>1. Clamp(x, lo, hi) = Clamp(y, lo, hi)
          BY <3>2, <3>5, <3>9 DEF Clamp
        <4>2. vx = vy /\ S[id] = 0
          BY <3>4, <3>9, <4>1
        <4> HIDE DEF z, vx, vy, n
        <4>3. 0 * n = 0
          BY <1>2
        <4> QED BY <1>1, <3>3, <4>2, <4>3
      <3> QED BY <3>7, <3>8, <3>9
    <2>2. CASE id \notin Held(p)
      <3>1. f[id] = 0 /\ g[id] = 0 /\ S[id] = 0
        BY <2>2 DEF StakeOf, Stake, Shares, Share, InRange
      <3> HIDE DEF n, f, g, S
      <3>2. 0 * n = 0
        BY <1>2
      <3> QED BY <3>1, <3>2
    <2> QED BY <2>1, <2>2
  <1>4. L = Total(S, PositionIds)
    BY RangesHeld, LiquidityTotal
  <1> HIDE DEF f, g, S, L, n
  <1>5. \A id \in PositionIds : e[id] = S[id] * n /\ e[id] \in Int
    BY <1>1, <1>2, ProductInt
  <1>6. \A id \in PositionIds : f[id] \in Int /\ e[id] \in Int /\ g[id] = f[id] + e[id]
    BY <1>1, <1>3, <1>5
  <1> HIDE DEF e
  <1>7. Total(g, PositionIds) = Total(f, PositionIds) + Total(e, PositionIds)
    BY <1>6, PositionAssumption, TotalAdds
  <1>8. Total(e, PositionIds) = Total(S, PositionIds) * n
    BY <1>1, <1>2, <1>5, PositionAssumption, TotalScales
  <1> QED BY <1>4, <1>7, <1>8 DEF Stakes, f, g, L, n

\* A price lies between the prices of the ticks on both sides of its tick.
LEMMA PriceAtTick ==
    ASSUME NEW x \in Int, NEW tick \in MIN_TICK_INDEX - 1..MAX_TICK_INDEX, PriceInTick(x, tick),
           NEW t \in MIN_TICK_INDEX..MAX_TICK_INDEX
    PROVE  (t <= tick => SqrtPrice[t] <= x) /\ (tick < t => x <= SqrtPrice[t])
  <1> USE TickIndexAssumption
  <1>1. SqrtPrice[t] \in Nat
    BY TickPrices
  <1>2. ASSUME t <= tick PROVE SqrtPrice[t] <= x
    <2>1. tick \in MIN_TICK_INDEX..MAX_TICK_INDEX /\ tick >= MIN_TICK_INDEX
      BY <1>2
    <2>2. SqrtPrice[t] <= SqrtPrice[tick] /\ SqrtPrice[tick] \in Nat
      BY <1>2, <2>1, PriceOrder, TickPrices
    <2>3. SqrtPrice[tick] <= x
      BY <2>1 DEF PriceInTick
    <2> QED BY <1>1, <2>2, <2>3
  <1>3. ASSUME tick < t PROVE x <= SqrtPrice[t]
    <2>1. tick + 1 \in MIN_TICK_INDEX..MAX_TICK_INDEX /\ tick + 1 <= t /\ tick < MAX_TICK_INDEX
      BY <1>3
    <2>2. SqrtPrice[tick + 1] <= SqrtPrice[t] /\ SqrtPrice[tick + 1] \in Nat
      BY <2>1, PriceOrder, TickPrices
    <2>3. x <= SqrtPrice[tick + 1]
      BY <2>1 DEF PriceInTick
    <2> QED BY <1>1, <2>2, <2>3
  <1> QED BY <1>2, <1>3

\* An iteration moves the price within the ranges that hold the current tick
\* and within no other: it stops at the next tick that is initialised.
LEMMA IterationSweeps ==
    ASSUME NEW p \in Accounts, Ordered(p), NEW s \in SwapRecords, NEW price \in Nat,
           SwapRuns(s, price), Looping(s), pool \in PoolRecords, NEW found, found = NextTick(s),
           NEW c, c = Computation(s, found), IterationSucceeds(s, found, c),
           NEW after, after = Iteration(s, found, c),
           Books(p, s.tick, s.liquidity, s.ticks)
    PROVE  /\ s.sqrt_price \in 1..U128MAX /\ after.sqrt_price \in 1..U128MAX
           /\ Sweeps(p, s.tick, s.sqrt_price, after.sqrt_price)
  <1> DEFINE t == found.tick_index
             target == get_next_sqrt_prices(t, s.limit, s.a_to_b)
             x == s.sqrt_price
             y == after.sqrt_price
             z == SqrtPrice[t]
             left == s.a_to_b
             tick == s.tick
  <1>1. ~found.error /\ ~c.error
    BY Zenon DEF IterationSucceeds
  <1>2. /\ Heads(s, t, target)
        /\ StepResult(c, s.remaining, pool.fee_rate, s.liquidity, x, target, s.is_input, left)
    BY <1>1, StepOfSwap
  <1>3. y = c.next_price
    BY DEF Iteration, SwapRecords
  <1>4. /\ target \in Nat \ {0} /\ y \in Nat \ {0} /\ Between(y, x, target, left)
    BY <1>2, <1>3 DEF Heads, StepResult
  <1>5. x \in U128 /\ y \in U128 /\ x \in Int /\ tick \in MIN_TICK_INDEX - 1..MAX_TICK_INDEX
        /\ left \in BOOLEAN
    BY IterationMoves, Unsigned DEF SwapRecords
  <1>6. PriceInTick(x, tick)
    BY DEF SwapRuns
  <1>7. t \in MIN_TICK_INDEX..MAX_TICK_INDEX /\ z \in Nat
    BY <1>2, TickPrices DEF Heads
  <1>8. x \in 1..U128MAX
    <2>1. MIN_TICK_INDEX \in MIN_TICK_INDEX..MAX_TICK_INDEX
      BY TickIndexAssumption
    <2>2. MIN_SQRT_PRICE_X64 \in Nat \ {0}
      BY <2>1, TickPrices DEF MIN_SQRT_PRICE_X64
    <2>3. x \in MIN_SQRT_PRICE_X64..MAX_SQRT_PRICE_X64
      BY <1>6 DEF PriceInTick
    <2> QED BY <1>5, <2>2, <2>3, Widths DEF U128
  <1>9. y \in 1..U128MAX
    BY <1>4, <1>5, Widths DEF U128
  <1>10. IF left THEN z <= y /\ y <= x /\ t <= tick ELSE x <= y /\ y <= z /\ tick < t
    <2>1. IF left THEN z <= target /\ t <= tick ELSE target <= z /\ tick < t
      BY <1>2 DEF Heads
    <2> HIDE DEF x, y, z, target, left, tick
    <2> QED BY <1>4, <1>5, <1>7, <2>1 DEF Between
  <1>11. \A u \in Initialized(s.ticks) : IF left THEN u <= tick => u <= t ELSE tick < u => t <= u
    BY IterationPasses
  <1>12. \A u \in Usable : TickBook(s.ticks[u], p, u)
    BY DEF Books
  <1> HIDE DEF x, y, z, target, left, tick
  <1>13. ASSUME NEW id \in Held(p), p[id].liquidity # 0
         PROVE  IF id \in InRange(p, tick)
                THEN /\ LowPrice(p[id]) <= x /\ x <= HighPrice(p[id])
                     /\ LowPrice(p[id]) <= y /\ y <= HighPrice(p[id])
                ELSE \/ x <= LowPrice(p[id]) /\ y <= LowPrice(p[id])
                     \/ HighPrice(p[id]) <= x /\ HighPrice(p[id]) <= y
    <2> DEFINE l == p[id].tick_lower_index
               u == p[id].tick_upper_index
               lo == SqrtPrice[l]
               hi == SqrtPrice[u]
    <2>1. p[id] \in PositionRecords
      BY DEF Accounts, Held
    <2>2. /\ l \in MIN_TICK_INDEX..MAX_TICK_INDEX /\ u \in MIN_TICK_INDEX..MAX_TICK_INDEX
          /\ lo \in Nat /\ hi \in Nat /\ LowPrice(p[id]) = lo /\ HighPrice(p[id]) = hi
      BY <2>1, RangePrices DEF LowPrice, HighPrice
    <2>3. l \in Initialized(s.ticks) /\ u \in Initialized(s.ticks)
      BY <1>12, <1>13, EndsInitialized
    <2>4. /\ IF left THEN l <= tick => l <= t ELSE tick < l => t <= l
          /\ IF left THEN u <= tick => u <= t ELSE tick < u => t <= u
      BY <1>11, <2>3
    <2>5. /\ (l <= tick => lo <= x) /\ (tick < l => x <= lo)
          /\ (u <= tick => hi <= x) /\ (tick < u => x <= hi)
      BY <1>5, <1>6, <2>2, PriceAtTick
    <2>6. /\ (l <= t => lo <= z) /\ (t <= l => z <= lo)
          /\ (u <= t => hi <= z) /\ (t <= u => z <= hi)
      BY <1>7, <2>2, PriceOrder DEF z
    <2>7. id \in InRange(p, tick) <=> l <= tick /\ tick < u
      BY DEF InRange
    <2>8. l < u /\ tick \in Int /\ l \in Int /\ u \in Int
      BY <1>5, <2>2, TickIndexAssumption DEF Ordered
    <2> HIDE DEF l, u, lo, hi
    <2>9. CASE left
      <3>1. z <= y /\ y <= x /\ t <= tick
        BY <1>10, <2>9
      <3>2. (l <= tick => lo <= y) /\ (u <= tick => hi <= y)
        BY <1>4, <1>7, <2>2, <2>4, <2>6, <2>9, <3>1
      <3>3. (tick < l => y <= lo) /\ (tick < u => y <= hi)
        BY <1>4, <1>5, <2>2, <2>5, <3>1
      <3> QED BY <2>2, <2>5, <2>7, <2>8, <3>2, <3>3
    <2>10. CASE ~left
      <3>1. x <= y /\ y <= z /\ tick < t
        BY <1>10, <2>10
      <3>2. (tick < l => y <= lo) /\ (tick < u => y <= hi)
        BY <1>4, <1>7, <2>2, <2>4, <2>6, <2>10, <3>1
      <3>3. (l <= tick => lo <= y) /\ (u <= tick => hi <= y)
        BY <1>4, <1>5, <2>2, <2>5, <3>1
      <3> QED BY <2>2, <2>5, <2>7, <2>8, <3>2, <3>3
    <2> QED BY <2>9, <2>10
  <1> QED BY <1>8, <1>9, <1>13 DEF Sweeps, x, y, tick

\* What the amounts between two prices are worth: rounded up no less than the
\* liquidity, rounded down no more.
LEMMA AmountWorth ==
    ASSUME NEW p \in 1..U128MAX, NEW q \in 1..U128MAX, p <= q, NEW L \in Nat, NEW up \in BOOLEAN,
           NEW k \in Tokens,
           NEW n, n = IF k = "a" THEN get_amount_delta_a(p, q, L, up)
                                 ELSE get_amount_delta_b(p, q, L, up),
           n # Err,
           NEW v, v = IF k = "a" THEN Value(k, p) - Value(k, q) ELSE Value(k, q) - Value(k, p)
    PROVE  /\ n \in Nat /\ v \in Int
           /\ IF up THEN L * v <= n * Scale ELSE n * Scale <= L * v
  <1> DEFINE g == q - p
  <1>1. /\ p \in Nat /\ q \in Nat /\ g \in Nat /\ PriceGap(p, q) = g /\ WORD \in Nat \ {0}
        /\ Scale \in Nat
    BY Widths, UnitTyped DEF PriceGap
  <1>2. v \in Int
    <2>1. \A x \in {p, q} : Value(k, x) \in Nat
      BY ValueTyped
    <2> QED BY <2>1
  <1> HIDE DEF g
  <1>3. L * g \in Nat /\ g * WORD \in Int /\ g \in Int
    BY <1>1, ProductNat, ProductInt
  <1>4. CASE k = "a"
    <2>1. /\ n \in U64 /\ p * q \in Nat \ {0} /\ (L * g) * WORD \in Nat
          /\ n = DivRound((L * g) * WORD, p * q, up)
      BY <1>1, <1>4, AmountA
    <2>2. (L * g) * WORD = L * (g * WORD)
      BY <1>1
    <2>3. v * (p * q) = Scale * (g * WORD)
      BY <1>4, ValueOfA DEF g
    <2>4. n \in Nat /\ n \in Int
      BY <2>1, Unsigned
    <2> DEFINE m == (L * g) * WORD
               d == p * q
               h == g * WORD
    <2>5. /\ m \in Nat /\ d \in Nat \ {0} /\ h \in Int /\ m = L * h /\ n = DivRound(m, d, up)
          /\ v * d = Scale * h
      BY <1>3, <2>1, <2>2, <2>3
    <2> HIDE DEF m, d, h
    <2>6. CASE up = TRUE
      <3>1. m <= n * d
        BY <2>5, <2>6, RoundedUp
      <3>2. L * v <= n * Scale
        BY <1>1, <1>2, <2>4, <2>5, <3>1, ScaledUp
      <3> QED BY <1>2, <2>4, <2>6, <3>2
    <2>7. CASE up = FALSE
      <3>1. n * d <= m
        BY <2>5, <2>7, RoundedDown
      <3>2. n * Scale <= L * v
        BY <1>1, <1>2, <2>4, <2>5, <3>1, ScaledDown
      <3> QED BY <1>2, <2>4, <2>7, <3>2
    <2> QED BY <2>6, <2>7
  <1>5. CASE k = "b"
    <2>1. n \in U64 /\ n = DivRound(L * g, WORD, up)
      BY <1>1, <1>5, AmountB
    <2>2. v * WORD = Scale * g
      BY <1>5, ValueOfB DEF g
    <2>3. n \in Nat /\ n \in Int
      BY <2>1, Unsigned
    <2> DEFINE m == L * g
    <2>4. m \in Nat /\ n = DivRound(m, WORD, up) /\ m = L * g
      BY <1>3, <2>1
    <2> HIDE DEF m
    <2>5. CASE up = TRUE
      <3>1. m <= n * WORD
        BY <1>1, <2>4, <2>5, RoundedUp
      <3>2. L * v <= n * Scale
        BY <1>1, <1>2, <1>3, <2>2, <2>3, <2>4, <3>1, ScaledUp
      <3> QED BY <1>2, <2>3, <2>5, <3>2
    <2>6. CASE up = FALSE
      <3>1. n * WORD <= m
        BY <1>1, <2>4, <2>6, RoundedDown
      <3>2. n * WORD <= L * g
        BY <2>4, <3>1
      <3>3. n * Scale <= L * v
        BY <1>1, <1>2, <1>3, <2>2, <2>3, <3>2, ScaledDown
      <3> QED BY <1>2, <2>3, <2>6, <3>3
    <2> QED BY <2>5, <2>6
  <1> QED BY <1>4, <1>5 DEF Tokens

\* The tick tells on which side of a range the price is.
LEMMA ClampAtTick ==
    ASSUME NEW position \in PositionRecords,
           position.tick_lower_index < position.tick_upper_index,
           NEW price \in 1..U128MAX, NEW tick \in MIN_TICK_INDEX - 1..MAX_TICK_INDEX,
           PriceInTick(price, tick)
    PROVE  LET lo == LowPrice(position)
               hi == HighPrice(position)
               c == Clamp(price, lo, hi)
           IN  /\ tick < position.tick_lower_index => c = lo
               /\ tick >= position.tick_upper_index => c = hi
               /\ (position.tick_lower_index <= tick /\ tick < position.tick_upper_index)
                     => c = price /\ lo <= price /\ price <= hi
  <1> DEFINE l == position.tick_lower_index
             u == position.tick_upper_index
             lo == LowPrice(position)
             hi == HighPrice(position)
  <1>1. /\ l \in MIN_TICK_INDEX..MAX_TICK_INDEX /\ u \in MIN_TICK_INDEX..MAX_TICK_INDEX
        /\ lo \in Nat /\ hi \in Nat /\ lo < hi
    BY RangePrices
  <1>2. price \in Int /\ tick \in Int /\ l \in Int /\ u \in Int /\ l < u
    BY <1>1, Widths, TickIndexAssumption
  <1>3. /\ (l <= tick => lo <= price) /\ (tick < l => price <= lo)
        /\ (u <= tick => hi <= price) /\ (tick < u => price <= hi)
    BY <1>1, <1>2, PriceAtTick DEF LowPrice, HighPrice
  <1> HIDE DEF l, u, lo, hi
  <1>4. /\ tick < l => Clamp(price, lo, hi) = lo
        /\ tick >= u => Clamp(price, lo, hi) = hi
        /\ l <= tick /\ tick < u => Clamp(price, lo, hi) = price /\ lo <= price /\ price <= hi
    BY <1>1, <1>2, <1>3 DEF Clamp
  <1> QED BY <1>4 DEF l, u, lo, hi

\* What liquidity L is in token k between two prices, and what one of it is worth.
AmountOf(k, x, y, L, up) == IF k = "a" THEN get_amount_delta_a(x, y, L, up)
                                       ELSE get_amount_delta_b(x, y, L, up)

ValueOf(k, x, y) == IF k = "a" THEN Value(k, x) - Value(k, y) ELSE Value(k, y) - Value(k, x)

\* The prices of a range's ends and the pool's.
PricesOf(p, position) == {LowPrice(position), HighPrice(position), p.sqrt_price}

\* What calculate_liquidity_token_deltas yields of a token: nothing, or what lies
\* between two of the prices that the range and the pool have.
LEMMA DeltasBetween ==
    ASSUME NEW p \in PoolRecords, p.sqrt_price \in 1..U128MAX,
           PriceInTick(p.sqrt_price, p.tick_current_index), NEW position \in PositionRecords,
           position.tick_lower_index < position.tick_upper_index, NEW delta \in Int,
           NEW d, d = calculate_liquidity_token_deltas(p, position, delta),
           NEW k \in Tokens, NEW L, L = IF delta > 0 THEN delta ELSE -delta,
           NEW up, up = (delta > 0)
    PROVE  \/ d[k] = 0 /\ Rate(k, position, p.sqrt_price) = 0
           \/ \E x, y \in PricesOf(p, position) :
                /\ x <= y /\ d[k] = AmountOf(k, x, y, L, up)
                /\ Rate(k, position, p.sqrt_price) = ValueOf(k, x, y)
  <1> DEFINE l == position.tick_lower_index
             u == position.tick_upper_index
             t == p.tick_current_index
             lo == SqrtPrice[l]
             hi == SqrtPrice[u]
             price == p.sqrt_price
             c == Clamp(price, lo, hi)
             v == Rate(k, position, price)
             n == d[k]
             amount(x, y) == AmountOf(k, x, y, L, up)
             between(x, y) == ValueOf(k, x, y)
  <1>1. /\ l \in MIN_TICK_INDEX..MAX_TICK_INDEX /\ u \in MIN_TICK_INDEX..MAX_TICK_INDEX
        /\ lo \in 1..U128MAX /\ hi \in 1..U128MAX /\ lo \in Nat /\ hi \in Nat /\ lo < hi
        /\ lo = LowPrice(position) /\ hi = HighPrice(position)
    BY RangePrices DEF LowPrice, HighPrice
  <1>2. t \in MIN_TICK_INDEX - 1..MAX_TICK_INDEX /\ t \in Int /\ l \in Int /\ u \in Int /\ l < u
    BY <1>1, TickIndexAssumption DEF PoolRecords
  <1>3. /\ t < l => c = lo
        /\ t >= u => c = hi
        /\ l <= t /\ t < u => c = price /\ lo <= price /\ price <= hi
    BY <1>1, <1>2, ClampAtTick
  <1>4. d = CASE t < l -> [a |-> get_amount_delta_a(lo, hi, L, up), b |-> 0]
              [] t \in l..u - 1 -> [a |-> get_amount_delta_a(price, hi, L, up),
                                    b |-> get_amount_delta_b(lo, price, L, up)]
              [] t >= u -> [a |-> 0, b |-> get_amount_delta_b(lo, hi, L, up)]
    BY Zenon DEF calculate_liquidity_token_deltas, sqrt_price_from_tick_index
  <1>5. v = Value(k, c) - Value(k, IF k = "a" THEN hi ELSE lo)
    BY <1>1 DEF Rate
  <1>6. \A x \in {lo, hi, price} : Value(k, x) \in Nat
    BY <1>1, ValueTyped
  <1> HIDE DEF l, u, t, lo, hi, price, c, v
  <1>7. \/ n = 0 /\ v = 0
        \/ \E x, y \in {lo, hi, price} : x <= y /\ n = amount(x, y) /\ v = between(x, y)
    <2>1. CASE t < l
      <3>1. d = [a |-> get_amount_delta_a(lo, hi, L, up), b |-> 0] /\ c = lo
        BY <1>2, <1>3, <1>4, <2>1
      <3>2. CASE k = "a"
        <4>1. n = amount(lo, hi) /\ v = between(lo, hi) /\ lo <= hi
          BY <1>1, <1>5, <3>1, <3>2 DEF AmountOf, ValueOf
        <4> HIDE DEF n, amount, between
        <4> QED BY <4>1
      <3>3. CASE k = "b"
        BY <1>5, <1>6, <3>1, <3>3
      <3> QED BY <3>2, <3>3 DEF Tokens
    <2>2. CASE t >= u
      <3>1. d = [a |-> 0, b |-> get_amount_delta_b(lo, hi, L, up)] /\ c = hi
        BY <1>2, <1>3, <1>4, <2>2
      <3>2. CASE k = "a"
        BY <1>5, <1>6, <3>1, <3>2
      <3>3. CASE k = "b"
        <4>1. n = amount(lo, hi) /\ v = between(lo, hi) /\ lo <= hi
          BY <1>1, <1>5, <3>1, <3>3 DEF AmountOf, ValueOf
        <4> HIDE DEF n, amount, between
        <4> QED BY <4>1
      <3> QED BY <3>2, <3>3 DEF Tokens
    <2>3. CASE l <= t /\ t < u
      <3>1. /\ d = [a |-> get_amount_delta_a(price, hi, L, up),
                    b |-> get_amount_delta_b(lo, price, L, up)]
            /\ c = price /\ lo <= price /\ price <= hi
        BY <1>2, <1>3, <1>4, <2>3
      <3>2. CASE k = "a"
        <4>1. n = amount(price, hi) /\ v = between(price, hi) /\ price <= hi
          BY <1>1, <1>5, <3>1, <3>2 DEF AmountOf, ValueOf
        <4> HIDE DEF n, amount, between
        <4> QED BY <4>1
      <3>3. CASE k = "b"
        <4>1. n = amount(lo, price) /\ v = between(lo, price) /\ lo <= price
          BY <1>1, <1>5, <3>1, <3>3 DEF AmountOf, ValueOf
        <4> HIDE DEF n, amount, between
        <4> QED BY <4>1
      <3> QED BY <3>2, <3>3 DEF Tokens
    <2> QED BY <1>2, <2>1, <2>2, <2>3
  <1>8. PricesOf(p, position) = {lo, hi, price}
    BY <1>1 DEF PricesOf, price
  <1> HIDE DEF n, amount, between
  <1>9. \/ n = 0 /\ v = 0
        \/ \E x, y \in PricesOf(p, position) : x <= y /\ n = amount(x, y) /\ v = between(x, y)
    BY <1>7, <1>8
  <1> QED BY <1>9, Zenon DEF v, price, n, amount, between

\* What calculate_liquidity_token_deltas takes in is worth at least the
\* liquidity added, and what it gives out at most the liquidity taken off.
LEMMA DeltasWorth ==
    ASSUME NEW p \in PoolRecords, p.sqrt_price \in 1..U128MAX,
           PriceInTick(p.sqrt_price, p.tick_current_index), NEW position \in PositionRecords,
           position.tick_lower_index < position.tick_upper_index, NEW delta \in Int,
           NEW d, d = calculate_liquidity_token_deltas(p, position, delta),
           NEW k \in Tokens, d[k] # Err
    PROVE  LET v == Rate(k, position, p.sqrt_price)
           IN  /\ d[k] \in Nat /\ v \in Nat
               /\ delta > 0 => delta * v <= d[k] * Scale
               /\ ~(delta > 0) => d[k] * Scale <= (-delta) * v
  <1> DEFINE L == IF delta > 0 THEN delta ELSE -delta
             up == delta > 0
             v == Rate(k, position, p.sqrt_price)
             n == d[k]
  <1>1. L \in Nat /\ up \in BOOLEAN
    OBVIOUS
  <1>2. v \in Nat
    BY RateTyped
  <1>3. \/ n = 0 /\ v = 0
        \/ \E x, y \in PricesOf(p, position) :
             x <= y /\ n = AmountOf(k, x, y, L, up) /\ v = ValueOf(k, x, y)
    <2>1. L = (IF delta > 0 THEN delta ELSE -delta) /\ up = (delta > 0)
      OBVIOUS
    <2> HIDE DEF L, up
    <2> QED BY <2>1, DeltasBetween
  <1>4. \A x \in PricesOf(p, position) : x \in 1..U128MAX
    BY RangePrices DEF PricesOf
  <1>5. n # Err
    OBVIOUS
  <1> HIDE DEF L, up, v, n
  <1>6. n \in Nat /\ IF up THEN L * v <= n * Scale ELSE n * Scale <= L * v
    <2>1. CASE n = 0 /\ v = 0
      <3>1. L * 0 = 0 /\ 0 * Scale = 0
        BY <1>1, UnitTyped
      <3> QED BY <1>1, <2>1, <3>1
    <2>2. CASE \E x, y \in PricesOf(p, position) :
                 x <= y /\ n = AmountOf(k, x, y, L, up) /\ v = ValueOf(k, x, y)
      <3>1. PICK x \in PricesOf(p, position), y \in PricesOf(p, position) :
                x <= y /\ n = AmountOf(k, x, y, L, up) /\ v = ValueOf(k, x, y)
        BY <2>2
      <3> QED BY <1>1, <1>4, <1>5, <3>1, AmountWorth DEF AmountOf, ValueOf
    <2> QED BY <1>3, <2>1, <2>2
  <1> QED BY <1>2, <1>6 DEF L, up, v, n

-----------------------------------------------------------------------------
(* What the tokens in the vaults must cover. *)

\* What is due to the positions and what they are worth, in the unit.
Worth(p, price, tick, tks, growth, k) ==
    Unit * Dues(p, tick, tks, growth, k) + Stakes(p, price, k)

\* Worth is a natural number.
LEMMA WorthTyped ==
    ASSUME NEW p \in Accounts, Ordered(p), NEW price \in 1..U128MAX, NEW tick,
           NEW tks \in [Usable -> TickRecords], NEW growth \in [Kinds -> U128], NEW k \in Tokens
    PROVE  /\ Dues(p, tick, tks, growth, k) \in Nat /\ Stakes(p, price, k) \in Nat
           /\ Unit * Dues(p, tick, tks, growth, k) \in Nat
           /\ Worth(p, price, tick, tks, growth, k) \in Nat
           /\ Worth(p, price, tick, tks, growth, k) \in Int
  <1> DEFINE a == Dues(p, tick, tks, growth, k)
             b == Stakes(p, price, k)
             c == Unit * a
  <1>1. a \in Nat /\ b \in Nat
    BY KindSets, DuesTyped, StakesTyped
  <1> HIDE DEF a, b
  <1>2. c \in Nat
    BY <1>1, UnitTyped, ProductNat
  <1> HIDE DEF c
  <1>3. c + b \in Nat /\ c + b \in Int
    BY <1>1, <1>2
  <1> QED BY <1>1, <1>2, <1>3 DEF Worth, a, b, c

\* What is due depends on what the positions that hold liquidity have earned.
LEMMA DuesSame ==
    ASSUME NEW p \in Accounts, NEW tick, NEW next, NEW tks \in [Usable -> TickRecords],
           NEW then \in [Usable -> TickRecords], NEW growth \in [Kinds -> U128],
           NEW grown \in [Kinds -> U128], NEW k \in Kinds,
           \A id \in PositionIds : Liquid(p, id) =>
               Since(p[id], next, then, grown, k) = Since(p[id], tick, tks, growth, k)
    PROVE  Dues(p, next, then, grown, k) = Dues(p, tick, tks, growth, k)
  <1>1. ASSUME NEW id \in PositionIds
        PROVE  Due(p, next, then, grown, k, id) = Due(p, tick, tks, growth, k, id)
    <2>1. CASE id \in Held(p)
      <3> DEFINE l == p[id].liquidity
                 a == Since(p[id], next, then, grown, k)
                 b == Since(p[id], tick, tks, growth, k)
                 w == WORD * p[id].owed[k]
      <3>1. /\ Due(p, next, then, grown, k, id) = w + l * a
            /\ Due(p, tick, tks, growth, k, id) = w + l * b
        BY <2>1 DEF Due
      <3>2. p[id] \in PositionRecords
        BY <2>1 DEF Held, Accounts
      <3>3. a \in Nat /\ b \in Nat
        BY <3>2, SinceTyped
      <3>4. l # 0 => a = b
        BY <2>1 DEF Liquid
      <3> HIDE DEF l, a, b, w
      <3>5. 0 * a = 0 /\ 0 * b = 0
        BY <3>3
      <3> QED BY <3>1, <3>4, <3>5, Zenon
    <2>2. CASE id \notin Held(p)
      BY <2>2 DEF Due
    <2> QED BY <2>1, <2>2
  <1>2. DueTo(p, next, then, grown, k) = DueTo(p, tick, tks, growth, k)
    BY <1>1 DEF DueTo
  <1> QED BY <1>2 DEF Dues

\* The protocol's share of a fee, and what the growth makes of the rest.
LEMMA FeeRises ==
    ASSUME NEW fee \in U64, NEW rate \in 0..MAX_PROTOCOL_FEE_RATE, NEW liquidity \in U128,
           NEW growth \in U128, NEW share, share = calculate_protocol_fee(fee, rate)
    PROVE  /\ share \in Nat /\ share <= fee
           /\ \E n \in Nat : /\ FeeGrowth(fee, rate, liquidity, growth) = WrapU128(growth + n)
                             /\ liquidity * n <= WORD * (fee - share)
  <1> DEFINE m == PROTOCOL_FEE_RATE_MUL_VALUE
             x == fee * rate
             rest == fee - share
             y == rest * WORD
             z == y \div liquidity
  <1>1. /\ fee \in Nat /\ liquidity \in Nat /\ growth \in Nat /\ WORD \in Nat /\ m \in Nat \ {0}
        /\ rate \in Nat /\ rate <= m
    BY Unsigned, Widths, FeeAssumption, PoolAssumption
  <1>2. x \in Nat /\ x <= fee * m
    <2>1. x \in Nat
      BY <1>1, ProductNat
    <2>2. rate * fee <= m * fee
      BY <1>1, ProductMonotone
    <2>3. rate * fee = fee * rate /\ m * fee = fee * m
      BY <1>1, ProductTurned
    <2> QED BY <2>1, <2>2, <2>3
  <1>3. share \in Nat /\ share <= fee
    <2>1. share = x \div m
      BY DEF calculate_protocol_fee
    <2> HIDE DEF x, m
    <2>2. share \in Int /\ share * m <= x /\ x < share * m + m
      <3> DEFINE e == share * m
                 f == x % m
      <3>1. share \in Int /\ f \in 0..m - 1 /\ x = e + f
        BY <1>1, <1>2, <2>1, DivisionOf
      <3>2. e \in Int
        BY <1>1, <3>1, ProductInt
      <3> HIDE DEF e, f
      <3>3. e <= x /\ x < e + m
        BY <1>1, <1>2, <3>1, <3>2
      <3> QED BY <3>1, <3>3 DEF e
    <2>3. share <= fee
      <3>1. share * m <= fee * m
        <4>1. share * m \in Int /\ fee * m \in Int
          BY <1>1, <2>2, ProductInt
        <4> QED BY <1>2, <2>2, <4>1
      <3> QED BY <1>1, <2>2, <3>1, ProductOrder
    <2>4. 0 <= share
      <3>1. share + 1 \in Int /\ (share + 1) * m = share * m + m
        BY <1>1, <2>2
      <3>2. share * m \in Int /\ (share + 1) * m \in Int /\ 0 * m = 0
        BY <1>1, <2>2, <3>1, ProductInt
      <3>3. ~((share + 1) * m <= 0 * m)
        BY <1>1, <1>2, <2>2, <3>1, <3>2
      <3>4. ~(share + 1 <= 0)
        <4>1. share + 1 <= 0 => (share + 1) * m <= 0 * m
          BY <1>1, <3>1, ProductMonotone
        <4> QED BY <3>3, <4>1
      <3> QED BY <2>2, <3>4
    <2> QED BY <2>2, <2>3, <2>4
  <1>4. rest \in Nat /\ y \in Nat /\ WORD * rest = y
    <2>1. rest \in Nat
      BY <1>1, <1>3
    <2> HIDE DEF rest
    <2> QED BY <1>1, <2>1, ProductNat, ProductTurned
  <1>5. FeeGrowth(fee, rate, liquidity, growth)
          = IF liquidity > 0 THEN WrapU128(growth + z) ELSE growth
    BY DEF FeeGrowth
  <1>6. WrapU128(growth) = growth
    <2>1. growth \in Int
      BY <1>1
    <2> QED BY <2>1, Wraps
  <1> HIDE DEF y, rest
  <1>7. CASE liquidity > 0
    <2>1. liquidity \in Nat \ {0}
      BY <1>1, <1>7
    <2> DEFINE e == z * liquidity
               f == y % liquidity
    <2>2. z \in Int /\ f \in 0..liquidity - 1 /\ y = e + f
      <3>1. y \in Int
        BY <1>4
      <3> QED BY <2>1, <3>1, DivisionOf, Zenon
    <2> HIDE DEF z
    <2>3. e \in Int
      BY <2>1, <2>2, ProductInt
    <2>4. liquidity * z <= y
      <3>1. liquidity * z = e
        BY <2>1, <2>2, ProductTurned
      <3> HIDE DEF e, f
      <3> QED BY <1>4, <2>1, <2>2, <2>3, <3>1
    <2>5. z \in Nat
      <3> SUFFICES ASSUME z <= -1 PROVE FALSE
        BY <2>2
      <3>1. z * liquidity <= (-1) * liquidity
        BY <2>1, <2>2, ProductMonotone
      <3>2. (-1) * liquidity = -liquidity
        BY <2>1
      <3> HIDE DEF f
      <3>3. e <= -liquidity /\ e + f = y /\ e \in Int
        BY <2>2, <2>3, <3>1, <3>2
      <3> HIDE DEF e
      <3> QED BY <1>4, <2>1, <2>2, <3>3
    <2>6. FeeGrowth(fee, rate, liquidity, growth) = WrapU128(growth + z)
      BY <1>5, <1>7 DEF z
    <2> QED BY <1>3, <1>4, <2>4, <2>5, <2>6 DEF rest
  <1>8. CASE ~(liquidity > 0)
    <2>1. liquidity * 0 <= WORD * rest
      <3>1. liquidity * 0 = 0
        BY <1>1
      <3> QED BY <1>4, <3>1
    <2>2. growth + 0 = growth
      BY <1>1
    <2>3. FeeGrowth(fee, rate, liquidity, growth) = WrapU128(growth + 0)
      BY <1>5, <1>6, <1>8, <2>2
    <2>4. 0 \in Nat
      OBVIOUS
    <2> QED BY <1>3, <2>1, <2>3, <2>4 DEF rest
  <1> QED BY <1>7, <1>8

\* The tokens that a swap in progress has for the positions' sake put into the
\* vault or taken out.
Moved(s, k) == IF k = InputToken(s) THEN AmountIn(s) - s.protocol_fee ELSE -AmountOut(s)

LEMMA MovedTyped ==
    ASSUME NEW s \in SwapRecords, NEW k PROVE Moved(s, k) \in Int
  <1>1. /\ s.amount \in Int /\ s.remaining \in Int /\ s.calculated \in Int /\ s.protocol_fee \in Int
    <2>1. s.amount \in U64 /\ s.remaining \in U64 /\ s.calculated \in U64 /\ s.protocol_fee \in U64
      BY DEF SwapRecords
    <2> QED BY <2>1, Unsigned
  <1>2. AmountIn(s) \in Int /\ AmountOut(s) \in Int
    BY <1>1 DEF AmountIn, AmountOut
  <1> QED BY <1>1, <1>2 DEF Moved

\* An iteration takes in, for the positions' sake, what makes them worth more,
\* and gives out no more than makes them worth less.
LEMMA IterationWorth ==
    ASSUME NEW p \in Accounts, Ordered(p), NEW s \in SwapRecords, NEW price \in Nat,
           SwapRuns(s, price), Looping(s), pool \in PoolRecords, NEW found, found = NextTick(s),
           NEW c, c = Computation(s, found), IterationSucceeds(s, found, c),
           NEW after, after = Iteration(s, found, c),
           Books(p, s.tick, s.liquidity, s.ticks), Dormant(s.ticks, s.growth, Active(pool)),
           NEW k \in Tokens
    PROVE  Worth(p, after.sqrt_price, after.tick, after.ticks, after.growth, k)
             <= Worth(p, s.sqrt_price, s.tick, s.ticks, s.growth, k)
                  + Scale * (Moved(after, k) - Moved(s, k))
  <1> DEFINE x == s.sqrt_price
             y == after.sqrt_price
             L == s.liquidity
             in == c.amount_in
             out == c.amount_out
             fee == c.fee_amount
             share == calculate_protocol_fee(fee, pool.protocol_fee_rate)
             left == s.a_to_b
             i == IF left THEN "a" ELSE "b"
             o == IF left THEN "b" ELSE "a"
             G == after.growth
             D == Dues(p, s.tick, s.ticks, s.growth, k)
             E == Dues(p, s.tick, s.ticks, G, k)
             F == Dues(p, after.tick, after.ticks, G, k)
             S == Stakes(p, x, k)
             T == Stakes(p, y, k)
             m == Moved(after, k) - Moved(s, k)
             target == get_next_sqrt_prices(found.tick_index, s.limit, s.a_to_b)
  <1>1. ~found.error /\ ~c.error
    BY Zenon DEF IterationSucceeds
  <1>2. StepResult(c, s.remaining, pool.fee_rate, L, x, target, s.is_input, left)
    BY <1>1, StepOfSwap
  <1>3. /\ in \in U64 /\ out \in U64 /\ fee \in U64 /\ in \in Nat /\ out \in Nat /\ fee \in Nat
        /\ Covers(in, out, L, x, c.next_price, left) /\ c.next_price = y
    <2>1. /\ in \in U64 /\ out \in U64 /\ fee \in U64 /\ Covers(in, out, L, x, c.next_price, left)
      BY <1>2, Zenon DEF StepResult
    <2>2. c.next_price = y
      BY DEF Iteration, SwapRecords
    <2> QED BY <2>1, <2>2, Unsigned
  <1>4. x \in 1..U128MAX /\ y \in 1..U128MAX /\ Sweeps(p, s.tick, x, y)
    BY IterationSweeps
  <1>5. IF left THEN y <= x ELSE x <= y
    BY IterationMoves
  <1>6. /\ left \in BOOLEAN /\ L \in U128 /\ L \in Nat /\ s.tick \in Int
        /\ s.growth \in [Kinds -> U128] /\ s.ticks \in [Usable -> TickRecords]
        /\ after \in SwapRecords /\ G \in [Kinds -> U128] /\ after.ticks \in [Usable -> TickRecords]
    <2>1. after \in SwapRecords
      BY IterationTyped
    <2>2. G \in [Kinds -> U128] /\ after.ticks \in [Usable -> TickRecords]
      BY <2>1 DEF SwapRecords
    <2>3. /\ left \in BOOLEAN /\ L \in U128 /\ s.tick \in MIN_TICK_INDEX - 1..MAX_TICK_INDEX
          /\ s.growth \in [Kinds -> U128] /\ s.ticks \in [Usable -> TickRecords]
      BY DEF SwapRecords
    <2>4. L \in Nat /\ s.tick \in Int
      BY <2>3, Unsigned, TickIndexAssumption
    <2> QED BY <2>1, <2>2, <2>3, <2>4
  <1>7. L = LiquidityIn(p, InRange(p, s.tick))
    BY DEF Books
  <1>8. L * (Value(i, y) - Value(i, x)) <= in * Scale /\ out * Scale <= L * (Value(o, x) - Value(o, y))
    <2> HIDE DEF x, y, L, in, out, left
    <2> QED BY <1>3, <1>4, <1>5, <1>6, CoversValue
  <1>9. T = S + L * (Value(k, y) - Value(k, x))
    BY <1>4, <1>7, StakesMove
  <1>10. k \in Kinds
    BY KindSets
  <1>11. F = E
    <2>1. \A id \in PositionIds : Liquid(p, id) =>
              Since(p[id], after.tick, after.ticks, G, k) = Since(p[id], s.tick, s.ticks, G, k)
      BY <1>10, IterationTurns
    <2> QED BY <1>6, <1>10, <2>1, DuesSame
  <1>12. D \in Nat /\ E \in Nat /\ F \in Nat /\ S \in Nat /\ T \in Nat
    <2> HIDE DEF x, y, G
    <2> QED BY <1>4, <1>6, WorthTyped
  <1>13. pool.protocol_fee_rate \in 0..MAX_PROTOCOL_FEE_RATE
    BY DEF PoolRecords
  <1>14. /\ InputToken(after) = InputToken(s) /\ OutputToken(after) = OutputToken(s)
         /\ InputToken(s) = i /\ OutputToken(s) = o /\ after.is_input = s.is_input
         /\ after.amount = s.amount /\ after.remaining = s.remaining - Used(s, c)
         /\ after.calculated = s.calculated + Counted(s, c)
         /\ after.protocol_fee = WrapU64(s.protocol_fee + share)
         /\ G = [s.growth EXCEPT ![i] = FeeGrowth(fee, pool.protocol_fee_rate, L, @)]
    BY Zenon DEF Iteration, GrowthAfter, InputToken, OutputToken, SwapRecords
  <1>15. /\ s.amount \in Int /\ s.remaining \in Int /\ s.calculated \in Int /\ s.protocol_fee \in Nat
         /\ s.is_input \in BOOLEAN
    <2>1. s.amount \in U64 /\ s.remaining \in U64 /\ s.calculated \in U64 /\ s.protocol_fee \in U64
          /\ s.is_input \in BOOLEAN
      BY DEF SwapRecords
    <2> QED BY <2>1, Unsigned
  <1>16. AmountIn(after) = AmountIn(s) + (in + fee) /\ AmountOut(after) = AmountOut(s) + out
         /\ AmountIn(s) \in Int /\ AmountOut(s) \in Int
    BY <1>3, <1>14, <1>15 DEF AmountIn, AmountOut, Used, Counted
  <1>17. Scale \in Nat /\ Unit \in Nat /\ WORD \in Nat /\ Scale = WORD * Unit
    BY UnitTyped, Widths DEF Scale
  <1>18. \A q \in {x, y} : Value(k, q) \in Nat
    BY <1>4, ValueTyped
  <1>19. m \in Int
    BY <1>6, MovedTyped
  <1> DEFINE v == Value(k, y) - Value(k, x)
             e == L * v
  <1>20. v \in Int /\ e \in Int
    <2>1. v \in Int
      BY <1>18
    <2> HIDE DEF v
    <2> QED BY <1>6, <2>1, ProductInt
  <1>21. T = S + e
    BY <1>9
  <1>22. Unit * F + T <= (Unit * D + S) + Scale * m
    <2>1. CASE k = i
      <3>1. /\ share \in Nat /\ share <= fee
            /\ \E n \in Nat : /\ FeeGrowth(fee, pool.protocol_fee_rate, L, s.growth[k])
                                   = WrapU128(s.growth[k] + n)
                              /\ L * n <= WORD * (fee - share)
        <4>1. s.growth[k] \in U128
          BY <1>6, <1>10
        <4>2. fee \in U64 /\ L \in U128 /\ pool.protocol_fee_rate \in 0..MAX_PROTOCOL_FEE_RATE
          BY <1>3, <1>6, <1>13
        <4>3. share = calculate_protocol_fee(fee, pool.protocol_fee_rate)
          OBVIOUS
        <4> HIDE DEF fee, L, share
        <4> QED BY <4>1, <4>2, <4>3, FeeRises, Zenon
      <3>2. PICK n \in Nat : /\ FeeGrowth(fee, pool.protocol_fee_rate, L, s.growth[k])
                                   = WrapU128(s.growth[k] + n)
                             /\ L * n <= WORD * (fee - share)
        BY <3>1
      <3>3. G[k] = WrapU128(s.growth[k] + n)
        BY <1>6, <1>10, <1>14, <2>1, <3>2
      <3>4. E <= D + L * n
        BY <1>6, <1>7, <1>10, <3>3, DuesRise
      <3>5. e <= in * Scale
        BY <1>8, <2>1
      <3>6. m >= in + (fee - share)
        <4>1. WrapU64(s.protocol_fee + share) \in Nat /\ WrapU64(s.protocol_fee + share) <= s.protocol_fee + share
          BY <1>15, <3>1, WrapBelow
        <4>2. m = (AmountIn(after) - after.protocol_fee) - (AmountIn(s) - s.protocol_fee)
          BY <1>14, <2>1 DEF Moved
        <4> HIDE DEF m, share, in, fee
        <4> QED BY <1>3, <1>14, <1>15, <1>16, <3>1, <4>1, <4>2
      <3> DEFINE r == fee - share
                 a == L * n
      <3>7. r \in Nat /\ a \in Nat /\ a <= WORD * r /\ m >= in + r
        BY <1>3, <1>6, <3>1, <3>2, <3>6, ProductNat
      <3>8. E <= D + a
        BY <3>4
      <3> HIDE DEF r, a, D, E, F, S, T, m, e, in
      <3>9. Unit * E <= Unit * D + Scale * r
        <4>1. WORD * r \in Nat
          BY <1>17, <3>7, ProductNat
        <4> DEFINE w == WORD * r
        <4> HIDE DEF w
        <4>2. w \in Nat /\ E <= D + w
          BY <1>12, <3>7, <3>8, <4>1 DEF w
        <4>3. E * Unit <= (D + w) * Unit
          BY <1>12, <1>17, <4>2, ProductMonotone
        <4>4. (D + w) * Unit = Unit * D + Unit * w /\ E * Unit = Unit * E
          BY <1>12, <1>17, <4>2
        <4>5. Unit * w = Scale * r
          <5>1. \A f, g, h \in Int : f * (g * h) = (g * f) * h
            OBVIOUS
          <5> QED BY <1>17, <3>7, <5>1 DEF w
        <4> QED BY <4>3, <4>4, <4>5
      <3>10. in * Scale + Scale * r <= Scale * m
        <4>1. (in + r) * Scale <= m * Scale
          BY <1>3, <1>17, <1>19, <3>7, ProductMonotone
        <4>2. (in + r) * Scale = in * Scale + Scale * r /\ m * Scale = Scale * m
          BY <1>3, <1>17, <1>19, <3>7
        <4> QED BY <4>1, <4>2
      <3> DEFINE uD == Unit * D
                 uE == Unit * E
                 sr == Scale * r
                 si == in * Scale
                 sm == Scale * m
      <3>11. uD \in Int /\ uE \in Int /\ sr \in Int /\ si \in Int /\ sm \in Int
        BY <1>3, <1>12, <1>17, <1>19, <3>7, ProductInt
      <3>12. uE <= uD + sr /\ si + sr <= sm /\ e <= si /\ Unit * F = uE
        BY <1>11, <3>5, <3>9, <3>10
      <3> HIDE DEF uD, uE, sr, si, sm
      <3>13. uE + T <= (uD + S) + sm
        BY <1>12, <1>20, <1>21, <3>11, <3>12
      <3> QED BY <3>12, <3>13 DEF uD, sm
    <2>2. CASE k # i
      <3>1. k = o
        BY <1>6, <2>2 DEF Tokens
      <3>2. G[k] = s.growth[k]
        BY <1>6, <1>10, <1>14, <2>2
      <3>3. E = D
        <4>1. \A id \in PositionIds : Since(p[id], s.tick, s.ticks, G, k) = Since(p[id], s.tick, s.ticks, s.growth, k)
          BY <3>2 DEF Since, Within, LeftOf
        <4> QED BY <1>6, <1>10, <4>1, DuesSame
      <3>4. m = -out
        <4>1. m = (-AmountOut(after)) - (-AmountOut(s))
          BY <1>14, <2>2 DEF Moved
        <4> HIDE DEF m, out
        <4> QED BY <1>3, <1>16, <4>1
      <3>5. out * Scale <= L * (Value(k, x) - Value(k, y))
        BY <1>8, <3>1
      <3>6. L * (Value(k, x) - Value(k, y)) = -e
        <4>1. \A f, g, h \in Int : f * (g - h) = -(f * (h - g))
          OBVIOUS
        <4>2. Value(k, x) \in Int /\ Value(k, y) \in Int /\ L \in Int
          BY <1>6, <1>18
        <4> QED BY <4>1, <4>2, Zenon
      <3>7. Scale * m = -(out * Scale)
        BY <1>3, <1>17, <3>4
      <3> DEFINE so == out * Scale
                 uD == Unit * D
      <3>8. so \in Int /\ uD \in Int /\ so <= -e /\ Scale * m = -so /\ Unit * F = uD
        BY <1>3, <1>11, <1>12, <1>17, <3>3, <3>5, <3>6, <3>7, ProductInt
      <3> HIDE DEF so, uD, D, E, F, S, T, m, e
      <3>9. uD + T <= (uD + S) + (-so)
        BY <1>12, <1>20, <1>21, <3>8
      <3> QED BY <3>8, <3>9 DEF uD
    <2> QED BY <2>1, <2>2
  <1> QED BY <1>22 DEF Worth

\* The rewards are settled; the fees grow in swaps only.
LEMMA TokenGrowth ==
    ASSUME pool \in PoolRecords, NEW now, NEW k \in Tokens
    PROVE  next_whirlpool_reward_infos(pool, now)[k] = pool.growth[k]
  <1>1. k \in Kinds /\ k \notin pool.rewards
    BY KindSets, PoolAssumption DEF PoolRecords
  <1> QED BY <1>1 DEF next_whirlpool_reward_infos

\* What is due of a token is a matter of that token's growth only.
LEMMA SettledDues ==
    ASSUME NEW p \in Accounts, NEW tick, NEW tks \in [Usable -> TickRecords],
           NEW growth \in [Kinds -> U128], NEW settled \in [Kinds -> U128], NEW k \in Kinds,
           settled[k] = growth[k]
    PROVE  Dues(p, tick, tks, settled, k) = Dues(p, tick, tks, growth, k)
  <1>1. \A id \in PositionIds : Since(p[id], tick, tks, settled, k) = Since(p[id], tick, tks, growth, k)
    BY DEF Since, Within, LeftOf
  <1> QED BY <1>1, DuesSame

\* One account changes.
LEMMA AccountStakes ==
    ASSUME NEW p \in Accounts, NEW q \in Accounts, Ordered(p), Ordered(q),
           NEW price \in 1..U128MAX, NEW k \in Tokens, NEW id \in PositionIds,
           \A x \in PositionIds : x # id => q[x] = p[x]
    PROVE  Stakes(q, price, k) + Stake(p, price, k, id) = Stakes(p, price, k) + Stake(q, price, k, id)
  <1> DEFINE f == StakeOf(p, price, k)
             g == StakeOf(q, price, k)
             S == PositionIds \ {id}
  <1>1. \A x \in PositionIds : f[x] \in Int /\ g[x] \in Int
    BY StakeTyped
  <1>2. f[id] = Stake(p, price, k, id) /\ g[id] = Stake(q, price, k, id)
    BY StakeTyped
  <1>3. \A x \in S : f[x] = g[x]
    BY DEF StakeOf, Stake, Held
  <1> HIDE DEF f, g
  <1>4. Total(f, PositionIds) = f[id] + Total(f, S) /\ Total(g, PositionIds) = g[id] + Total(g, S)
    BY <1>1, PositionAssumption, TotalWithout
  <1>5. IsFiniteSet(S)
    BY PositionAssumption, FS_Subset
  <1>6. Total(f, S) = Total(g, S) /\ Total(f, S) \in Int
    BY <1>1, <1>3, <1>5, TotalSame, TotalTyped
  <1>7. f[id] \in Int /\ g[id] \in Int
    BY <1>1
  <1>8. Total(g, PositionIds) + f[id] = Total(f, PositionIds) + g[id]
    BY <1>4, <1>6, <1>7
  <1> QED BY <1>2, <1>8 DEF Stakes, f, g

\* calculate_modify_liquidity makes the positions worth more by what the
\* liquidity added is worth, or less by what the liquidity taken off is.
LEMMA ModifyWorth ==
    ASSUME PoolInv, LiquidityInv, NEW id \in Open, NEW delta \in Int, ModifyLiquidity(id, delta),
           Dormant(ticks, pool.growth, Active(pool)), NEW k \in Tokens
    PROVE  /\ Rate(k, positions[id], pool.sqrt_price) \in Nat
           /\ Worth(positions', pool'.sqrt_price, pool'.tick_current_index, ticks', pool'.growth, k)
                <= Worth(positions, pool.sqrt_price, pool.tick_current_index, ticks, pool.growth, k)
                     + delta * Rate(k, positions[id], pool.sqrt_price)
  <1> DEFINE p == positions
             q == positions'
             current == pool.tick_current_index
             G == next_whirlpool_reward_infos(pool, clock)
             price == pool.sqrt_price
             v == Rate(k, p[id], price)
             l == p[id].liquidity
             D == Dues(p, current, ticks, pool.growth, k)
             E == Dues(q, current, ticks', G, k)
             S == Stakes(p, price, k)
             T == Stakes(q, price, k)
             d == delta * v
  <1>1. /\ pool \in PoolRecords /\ ticks \in [Usable -> TickRecords] /\ p \in Accounts
        /\ Ordered(p) /\ PriceInTick(price, current)
    BY DEF PoolInv, TypeOK, Accounts, LiquidityInv
  <1>2. price \in 1..U128MAX
    <2>1. MIN_TICK_INDEX \in MIN_TICK_INDEX..MAX_TICK_INDEX
      BY TickIndexAssumption
    <2>2. MIN_SQRT_PRICE_X64 \in Nat \ {0}
      BY <2>1, TickPrices DEF MIN_SQRT_PRICE_X64
    <2>3. price \in MIN_SQRT_PRICE_X64..MAX_SQRT_PRICE_X64 /\ price \in U128
      BY <1>1 DEF PriceInTick, PoolRecords
    <2> QED BY <2>2, <2>3, Widths DEF U128
  <1>3. /\ ticks' \in [Usable -> TickRecords] /\ q \in Accounts /\ pool'.sqrt_price = price
        /\ Ordered(q)
    BY ModifyTyped, ModifyBooks DEF Accounts
  <1>4. k \in Kinds
    BY KindSets
  <1>5. /\ E <= Dues(p, current, ticks, G, k) /\ pool'.tick_current_index = current
        /\ pool'.growth = G /\ G \in [Kinds -> U128]
    BY <1>4, ModifyOwes
  <1>6. pool.growth \in [Kinds -> U128]
    BY <1>1 DEF PoolRecords
  <1>7. Dues(p, current, ticks, G, k) = D
    <2>1. G[k] = pool.growth[k]
      BY <1>1, TokenGrowth
    <2> HIDE DEF G
    <2> QED BY <1>1, <1>4, <1>5, <1>6, <2>1, SettledDues
  <1>8. id \in Held(p) /\ id \in PositionIds /\ p[id] \in PositionRecords
        /\ p[id].tick_lower_index < p[id].tick_upper_index
    BY <1>1, OpenTyped DEF Open, Held, Ordered
  <1>9. v \in Nat /\ l \in Nat /\ l \in Int
    BY <1>1, <1>2, <1>8, RateTyped, HeldTyped
  <1>10. /\ q[id].liquidity = l + delta /\ q[id].tick_lower_index = p[id].tick_lower_index
         /\ q[id].tick_upper_index = p[id].tick_upper_index /\ id \in Held(q)
         /\ \A x \in PositionIds : x # id => q[x] = p[x]
    <2> DEFINE inside == next_growths_inside(current, ticks, p[id].tick_lower_index,
                                             p[id].tick_upper_index, G, Active(pool))
               new == next_position_modify_liquidity_update(p[id], delta, inside)
    <2>1. q = [p EXCEPT ![id] = new] /\ add_liquidity_delta(p[id].liquidity, delta) # Err
      BY Zenon DEF ModifyLiquidity, ModifyFails
    <2>2. add_liquidity_delta(p[id].liquidity, delta) = l + delta
      BY <1>9, <2>1, AddLiquidity
    <2>3. /\ new.liquidity = add_liquidity_delta(p[id].liquidity, delta)
          /\ new.tick_lower_index = p[id].tick_lower_index
          /\ new.tick_upper_index = p[id].tick_upper_index
      BY <1>8 DEF next_position_modify_liquidity_update, PositionRecords
    <2> HIDE DEF new
    <2>4. q[id] = new /\ \A x \in PositionIds : x # id => q[x] = p[x]
      BY <1>1, <1>8, <2>1 DEF Accounts
    <2>5. id \in Held(q)
      <3>1. new # NoPosition
        <4>1. new = next_position_modify_liquidity_update(p[id], delta, inside)
          BY DEF new
        <4>2. inside \in [Kinds -> U128]
          <5>1. p[id].tick_lower_index \in Usable /\ p[id].tick_upper_index \in Usable
            BY <1>8 DEF PositionRecords
          <5> HIDE DEF G
          <5> QED BY <1>1, <1>5, <5>1, InsideTyped
        <4>3. add_liquidity_delta(p[id].liquidity, delta) # Err
          BY <2>1
        <4> HIDE DEF inside
        <4>4. new \in PositionRecords
          BY <1>8, <4>1, <4>2, <4>3, PositionUpdateTyped
        <4> QED BY <4>4, PositionAssumption
      <3> QED BY <1>8, <2>4, <3>1 DEF Held
    <2> QED BY <2>2, <2>3, <2>4, <2>5
  <1>11. T + Stake(p, price, k, id) = S + Stake(q, price, k, id)
    <2> HIDE DEF p, q, price
    <2> QED BY <1>1, <1>2, <1>3, <1>8, <1>10, AccountStakes
  <1>12. Stake(p, price, k, id) = l * v
    BY <1>8 DEF Stake
  <1>13. Stake(q, price, k, id) = (l + delta) * v
    <2>1. Rate(k, q[id], price) = v
      BY <1>10 DEF Rate, LowPrice, HighPrice
    <2> QED BY <1>10, <2>1 DEF Stake
  <1>14. D \in Nat /\ E \in Nat /\ S \in Nat /\ T \in Nat
    <2> HIDE DEF p, q, price, current, G
    <2> QED BY <1>1, <1>2, <1>3, <1>5, <1>6, WorthTyped
  <1>15. d \in Int /\ l * v \in Int
    BY <1>9, ProductInt
  <1> HIDE DEF p, q, D, E, S, T, v, l, price, current, G
  <1>16. T = S + d
    <2>1. (l + delta) * v = l * v + delta * v
      BY <1>9, Distributes
    <2> DEFINE a == l * v
    <2>2. a \in Int /\ T + a = S + (a + d)
      BY <1>11, <1>12, <1>13, <1>15, <2>1
    <2> HIDE DEF a, d
    <2> QED BY <1>14, <1>15, <2>2
  <1>17. Unit * E <= Unit * D
    <2>1. E <= D /\ Unit \in Nat
      BY <1>5, <1>7, UnitTyped DEF E
    <2>2. E * Unit <= D * Unit
      BY <1>14, <2>1, ProductMonotone
    <2> QED BY <1>14, <2>1, <2>2, ProductTurned
  <1> DEFINE a == Unit * D
             b == Unit * E
  <1>18. a \in Int /\ b \in Int /\ b <= a
    BY <1>14, <1>17, UnitTyped, ProductInt
  <1> HIDE DEF a, b, d
  <1>19. b + T <= (a + S) + d
    BY <1>14, <1>15, <1>16, <1>18
  <1> QED BY <1>3, <1>5, <1>9, <1>19 DEF Worth, a, b, d, p, q, D, E, S, T, v, price, current

-----------------------------------------------------------------------------
(* The vaults cover what the positions are worth. *)

\* The tokens in a vault that are not the protocol's.
Reserve(k) == vault[k] - pool.protocol_fee_owed[k]

\* As the pool is on chain, and as a swap s in progress sees it.
WorthNow(k) ==
    Worth(positions, pool.sqrt_price, pool.tick_current_index, ticks, pool.growth, k)

WorthIn(s, k) == Worth(positions, s.sqrt_price, s.tick, s.ticks, s.growth, k)

SolvencyInv ==
    /\ \A k \in Tokens : WorthNow(k) <= Scale * Reserve(k)
    /\ swap # NoSwap =>
           \A k \in Tokens : WorthIn(swap, k) <= Scale * (Reserve(k) + Moved(swap, k))

LEMMA PriceWide ==
    ASSUME NEW price \in Int, NEW tick, PriceInTick(price, tick)
    PROVE  price \in 1..U128MAX
  <1>1. MIN_TICK_INDEX \in MIN_TICK_INDEX..MAX_TICK_INDEX
        /\ MAX_TICK_INDEX \in MIN_TICK_INDEX..MAX_TICK_INDEX
    BY TickIndexAssumption
  <1>2. MIN_SQRT_PRICE_X64 \in 1..U128MAX /\ MAX_SQRT_PRICE_X64 \in 1..U128MAX
    BY <1>1, TickPrices DEF MIN_SQRT_PRICE_X64, MAX_SQRT_PRICE_X64
  <1>3. price \in MIN_SQRT_PRICE_X64..MAX_SQRT_PRICE_X64
    BY DEF PriceInTick
  <1> QED BY <1>2, <1>3, Widths

SolventTypes == \A k \in Tokens : WorthNow(k) \in Int /\ Reserve(k) \in Int /\ k \in Kinds

LEMMA SolventNow == PoolInv /\ LiquidityInv => SolventTypes
  <1> SUFFICES ASSUME PoolInv, LiquidityInv, NEW k \in Tokens
               PROVE  WorthNow(k) \in Int /\ Reserve(k) \in Int /\ k \in Kinds
    BY DEF SolventTypes
  <1>1. /\ pool \in PoolRecords /\ ticks \in [Usable -> TickRecords] /\ positions \in Accounts
        /\ Ordered(positions) /\ vault \in [Kinds -> 0..Supply]
        /\ PriceInTick(pool.sqrt_price, pool.tick_current_index)
    BY DEF PoolInv, TypeOK, Accounts, LiquidityInv
  <1>2. /\ pool.growth \in [Kinds -> U128] /\ pool.sqrt_price \in U128
        /\ pool.protocol_fee_owed[k] \in U64 /\ k \in Kinds
    BY <1>1, KindSets DEF PoolRecords
  <1>3. pool.sqrt_price \in 1..U128MAX
    BY <1>1, <1>2, Unsigned, PriceWide
  <1>4. WorthNow(k) \in Int
    BY <1>1, <1>2, <1>3, WorthTyped DEF WorthNow
  <1>5. Reserve(k) \in Int
    <2>1. vault[k] \in 0..Supply
      BY <1>1, <1>2
    <2>2. vault[k] \in Int /\ pool.protocol_fee_owed[k] \in Int
      BY <1>2, <2>1, Unsigned, PoolAssumption
    <2> QED BY <2>2 DEF Reserve
  <1> QED BY <1>2, <1>4, <1>5

LEMMA SolventNext == PoolInv' /\ LiquidityInv' => SolventTypes'
  BY SolventNow, PTL

\* Covered before, covered after.
LEMMA StaysCovered ==
    ASSUME NEW w \in Int, NEW v \in Int, NEW n \in Int, NEW m \in Int,
           w <= Scale * n, v <= w + Scale * (m - n)
    PROVE  v <= Scale * m
  <1>1. Scale \in Int
    BY UnitTyped
  <1>2. \A a, b, c \in Int : a * (c - b) = a * c - a * b
    OBVIOUS
  <1>3. Scale * (m - n) = Scale * m - Scale * n
    BY <1>1, <1>2
  <1> DEFINE x == Scale * m
             y == Scale * n
  <1>4. x \in Int /\ y \in Int /\ w <= y /\ v <= w + (x - y)
    BY <1>1, <1>3, ProductInt
  <1> HIDE DEF x, y
  <1>5. v <= x
    BY <1>4
  <1> QED BY <1>5 DEF x

\* An instruction outside a swap puts in what makes the positions worth more,
\* and takes out no more than makes them worth less.
LEMMA SolventCarried ==
    ASSUME PoolInv, PoolInv', LiquidityInv, LiquidityInv', SolvencyInv, swap' = NoSwap,
           \A k \in Tokens : WorthNow(k)' <= WorthNow(k) + Scale * (Reserve(k)' - Reserve(k))
    PROVE  SolvencyInv'
  <1>1. ASSUME NEW k \in Tokens PROVE WorthNow(k)' <= Scale * Reserve(k)'
    <2>1. WorthNow(k) \in Int /\ Reserve(k) \in Int
      BY SolventNow DEF SolventTypes
    <2>2. WorthNow(k)' \in Int /\ Reserve(k)' \in Int
      BY SolventNext DEF SolventTypes
    <2>3. WorthNow(k) <= Scale * Reserve(k)
      BY DEF SolvencyInv
    <2>4. WorthNow(k)' <= WorthNow(k) + Scale * (Reserve(k)' - Reserve(k))
      OBVIOUS
    <2> DEFINE w == WorthNow(k)
               v == WorthNow(k)'
               n == Reserve(k)
               m == Reserve(k)'
    <2>5. w \in Int /\ v \in Int /\ n \in Int /\ m \in Int /\ w <= Scale * n /\ v <= w + Scale * (m - n)
      BY <2>1, <2>2, <2>3, <2>4
    <2> HIDE DEF w, v, n, m
    <2>6. v <= Scale * m
      BY <2>5, StaysCovered
    <2> QED BY <2>6 DEF v, m
  <1> QED BY <1>1 DEF SolvencyInv

\* Nothing that the books are about changes, and no token leaves.
LEMMA QuietSolvent ==
    ASSUME PoolInv, PoolInv', LiquidityInv, LiquidityInv', SolvencyInv, swap' = NoSwap,
           UNCHANGED <<ticks, positions>>, pool'.sqrt_price = pool.sqrt_price,
           pool'.tick_current_index = pool.tick_current_index, pool'.growth = pool.growth,
           \A k \in Tokens : Reserve(k)' >= Reserve(k)
    PROVE  SolvencyInv'
  <1>1. ASSUME NEW k \in Tokens PROVE WorthNow(k)' <= WorthNow(k) + Scale * (Reserve(k)' - Reserve(k))
    <2>1. WorthNow(k)' = WorthNow(k)
      BY DEF WorthNow
    <2>2. WorthNow(k) \in Int /\ Reserve(k) \in Int
      BY SolventNow DEF SolventTypes
    <2>3. Reserve(k)' \in Int /\ Reserve(k)' >= Reserve(k)
      BY SolventNext DEF SolventTypes
    <2> DEFINE d == Reserve(k)' - Reserve(k)
    <2>4. d \in Nat
      BY <2>2, <2>3
    <2> HIDE DEF d
    <2>5. Scale * d \in Nat
      BY <2>4, UnitTyped, ProductNat
    <2>6. WorthNow(k) <= WorthNow(k) + Scale * d
      BY <2>2, <2>5
    <2> QED BY <2>1, <2>6 DEF d
  <1> QED BY <1>1, SolventCarried

\* The instructions that settle a position and move the tokens for its liquidity.
LEMMA ModifySolvent ==
    ASSUME PoolInv, PoolInv', LiquidityInv, LiquidityInv', SolvencyInv, swap' = NoSwap,
           NEW id \in Open, NEW delta \in Int, ModifyLiquidity(id, delta),
           Dormant(ticks, pool.growth, Active(pool)),
           \A k \in Tokens :
               delta * Rate(k, positions[id], pool.sqrt_price) <= Scale * (vault'[k] - vault[k])
    PROVE  SolvencyInv'
  <1>1. ASSUME NEW k \in Tokens PROVE WorthNow(k)' <= WorthNow(k) + Scale * (Reserve(k)' - Reserve(k))
    <2> DEFINE v == Rate(k, positions[id], pool.sqrt_price)
               d == delta * v
               e == Scale * (vault'[k] - vault[k])
    <2>1. v \in Nat /\ WorthNow(k)' <= WorthNow(k) + d
      BY ModifyWorth DEF WorthNow
    <2>2. d <= e
      OBVIOUS
    <2>3. /\ pool \in PoolRecords /\ vault \in [Kinds -> 0..Supply]
          /\ vault' \in [Kinds -> 0..Supply]
      BY DEF PoolInv, TypeOK
    <2>4. pool'.protocol_fee_owed = pool.protocol_fee_owed /\ pool.protocol_fee_owed[k] \in U64
      BY <2>3 DEF ModifyLiquidity, PoolRecords
    <2>5. vault[k] \in Int /\ vault'[k] \in Int /\ pool.protocol_fee_owed[k] \in Int
      <3>1. k \in Kinds
        BY KindSets
      <3>2. vault[k] \in 0..Supply /\ vault'[k] \in 0..Supply
        BY <2>3, <3>1
      <3> QED BY <2>4, <3>2, Unsigned
    <2>6. Reserve(k)' - Reserve(k) = vault'[k] - vault[k]
      BY <2>4, <2>5 DEF Reserve
    <2>7. WorthNow(k) \in Int /\ WorthNow(k)' \in Int
      BY SolventNow, SolventNext DEF SolventTypes
    <2>8. d \in Int /\ e \in Int
      <3>1. vault'[k] - vault[k] \in Int /\ Scale \in Int
        BY <2>5, UnitTyped
      <3> QED BY <2>1, <3>1, ProductInt
    <2> HIDE DEF d, e, v
    <2>9. WorthNow(k)' <= WorthNow(k) + e
      BY <2>1, <2>2, <2>7, <2>8
    <2> QED BY <2>6, <2>9 DEF e
  <1> QED BY <1>1, SolventCarried

LEMMA SameAdded == \A w, x, y, z \in Int : (w = x /\ y + x = z + w) => y = z
  OBVIOUS

\* An account's owed amounts change, as much as leaves the vault.
LEMMA OwedSolvent ==
    ASSUME PoolInv, PoolInv', LiquidityInv, LiquidityInv', SolvencyInv, swap' = NoSwap,
           UNCHANGED <<pool, ticks>>, NEW id \in Open, NEW owed \in [Kinds -> U64],
           positions' = [positions EXCEPT ![id].owed = owed],
           \A k \in Tokens : owed[k] <= positions[id].owed[k]
                             /\ vault'[k] = vault[k] - (positions[id].owed[k] - owed[k])
    PROVE  SolvencyInv'
  <1> DEFINE p == positions
             q == positions'
             price == pool.sqrt_price
             tick == pool.tick_current_index
  <1>1. /\ pool \in PoolRecords /\ ticks \in [Usable -> TickRecords] /\ p \in Accounts
        /\ q \in Accounts /\ Ordered(p) /\ Ordered(q) /\ vault \in [Kinds -> 0..Supply]
        /\ PriceInTick(price, tick)
    BY DEF PoolInv, TypeOK, Accounts, LiquidityInv
  <1>2. pool.growth \in [Kinds -> U128] /\ price \in 1..U128MAX
    <2>1. pool.growth \in [Kinds -> U128] /\ price \in U128
      BY <1>1 DEF PoolRecords
    <2> QED BY <1>1, <2>1, Unsigned, PriceWide
  <1>3. id \in Held(p) /\ id \in PositionIds /\ p[id] \in PositionRecords
    BY OpenTyped DEF Open, Held
  <1>4. /\ \A x \in PositionIds : x # id => q[x] = p[x]
        /\ q[id] = [p[id] EXCEPT !.owed = owed]
    BY <1>1, <1>3 DEF Accounts
  <1>5. /\ q[id].liquidity = p[id].liquidity /\ q[id] \in PositionRecords
        /\ q[id].tick_lower_index = p[id].tick_lower_index
        /\ q[id].tick_upper_index = p[id].tick_upper_index
    BY <1>3, <1>4 DEF PositionRecords
  <1>6. id \in Held(q)
    BY <1>3, <1>5, PositionAssumption DEF Held
  <1>7. ASSUME NEW k \in Tokens PROVE WorthNow(k)' <= WorthNow(k) + Scale * (Reserve(k)' - Reserve(k))
    <2> DEFINE D == Dues(p, tick, ticks, pool.growth, k)
               E == Dues(q, tick, ticks, pool.growth, k)
               S == Stakes(p, price, k)
               T == Stakes(q, price, k)
               e == p[id].owed[k] - owed[k]
    <2>1. k \in Kinds /\ vault[k] \in Int /\ pool.protocol_fee_owed[k] \in Int
      <3>1. k \in Kinds /\ pool.protocol_fee_owed[k] \in U64
        BY <1>1, KindSets DEF PoolRecords
      <3>2. vault[k] \in 0..Supply
        BY <1>1, <3>1
      <3> QED BY <3>1, <3>2, KindSets, Unsigned
    <2>2. e \in Nat /\ owed[k] + e = p[id].owed[k]
      <3>1. p[id].owed[k] \in U64 /\ owed[k] \in U64 /\ owed[k] <= p[id].owed[k]
        BY <1>3, <2>1 DEF PositionRecords
      <3>2. p[id].owed[k] \in Int /\ owed[k] \in Int
        BY <3>1, Unsigned
      <3> QED BY <3>1, <3>2
    <2>3. Reserve(k)' - Reserve(k) = -e
      <3>1. vault'[k] = vault[k] - e
        OBVIOUS
      <3> HIDE DEF e
      <3> QED BY <2>1, <2>2, <3>1 DEF Reserve
    <2> HIDE DEF e
    <2>4. E + WORD * e <= D
      <3> HIDE DEF p, tick
      <3> QED BY <1>1, <1>2, <1>3, <2>1, <2>2, OwedDue DEF p, q
    <2>5. T = S
      <3>1. Rate(k, q[id], price) = Rate(k, p[id], price)
        BY <1>5 DEF Rate, LowPrice, HighPrice
      <3>2. Stake(q, price, k, id) = Stake(p, price, k, id)
        BY <1>3, <1>5, <1>6, <3>1 DEF Stake
      <3> HIDE DEF p, q, price
      <3>3. T + Stake(p, price, k, id) = S + Stake(q, price, k, id)
        BY <1>1, <1>2, <1>3, <1>4, AccountStakes
      <3>4. Stake(p, price, k, id) \in Int /\ T \in Int /\ S \in Int
        <4>1. T \in Nat /\ S \in Nat
          BY <1>1, <1>2, StakesTyped
        <4> HIDE DEF S, T
        <4> QED BY <1>1, <1>2, <1>3, <4>1, StakeTyped
      <3> HIDE DEF S, T
      <3> DEFINE f == Stake(p, price, k, id)
                 g == Stake(q, price, k, id)
      <3>5. f \in Int /\ g = f /\ T + f = S + g /\ T \in Int /\ S \in Int
        BY <3>2, <3>3, <3>4
      <3> HIDE DEF f, g, S, T
      <3> QED BY <3>5, SameAdded, Zenon
    <2>6. D \in Nat /\ E \in Nat /\ S \in Nat
      <3> HIDE DEF p, q, price, tick
      <3> QED BY <1>1, <1>2, WorthTyped
    <2>7. Unit \in Nat /\ WORD \in Nat /\ Scale = WORD * Unit
      BY UnitTyped, Widths DEF Scale
    <2>8. WorthNow(k) = Unit * D + S /\ WorthNow(k)' = Unit * E + T
      BY DEF WorthNow, Worth
    <2> HIDE DEF D, E, S, T
    <2>9. Unit * E + Scale * e <= Unit * D
      <3> DEFINE w == WORD * e
      <3>1. w \in Nat
        BY <2>2, <2>7, ProductNat
      <3>2. E + w <= D
        BY <2>4
      <3> HIDE DEF w
      <3>3. (E + w) * Unit <= D * Unit
        BY <2>6, <2>7, <3>1, <3>2, ProductMonotone
      <3>4. (E + w) * Unit = Unit * E + Unit * w /\ D * Unit = Unit * D
        BY <2>6, <2>7, <3>1
      <3>5. Unit * w = Scale * e
        <4>1. \A f, g, h \in Int : f * (g * h) = (g * f) * h
          OBVIOUS
        <4> QED BY <2>2, <2>7, <4>1 DEF w
      <3> QED BY <3>3, <3>4, <3>5
    <2>10. Scale * (-e) = -(Scale * e) /\ Scale \in Int
      BY <2>2, UnitTyped
    <2> DEFINE a == Unit * D
               b == Unit * E
               c == Scale * e
    <2>11. a \in Int /\ b \in Int /\ c \in Int /\ b + c <= a
      BY <2>2, <2>6, <2>7, <2>9, <2>10, ProductInt
    <2>12. WorthNow(k) = a + S /\ WorthNow(k)' = b + S /\ Scale * (Reserve(k)' - Reserve(k)) = -c
      BY <2>3, <2>5, <2>8, <2>10
    <2> HIDE DEF a, b, c
    <2> QED BY <2>6, <2>11, <2>12
  <1> QED BY <1>7, SolventCarried

\* An account is opened or closed: it is worth nothing before or after.
LEMMA EmptySolvent ==
    ASSUME PoolInv, PoolInv', LiquidityInv, LiquidityInv', SolvencyInv, swap' = NoSwap,
           UNCHANGED <<pool, ticks, vault>>, NEW id \in PositionIds,
           \A x \in PositionIds : x # id => positions'[x] = positions[x],
           id \in Held(positions') => /\ positions'[id].liquidity = 0
                                      /\ \A k \in Tokens : positions'[id].owed[k] = 0
    PROVE  SolvencyInv'
  <1> DEFINE p == positions
             q == positions'
             price == pool.sqrt_price
             tick == pool.tick_current_index
  <1>1. /\ pool \in PoolRecords /\ ticks \in [Usable -> TickRecords] /\ p \in Accounts
        /\ q \in Accounts /\ Ordered(p) /\ Ordered(q) /\ PriceInTick(price, tick)
    BY DEF PoolInv, TypeOK, Accounts, LiquidityInv
  <1>2. pool.growth \in [Kinds -> U128] /\ price \in 1..U128MAX
    <2>1. pool.growth \in [Kinds -> U128] /\ price \in U128
      BY <1>1 DEF PoolRecords
    <2> QED BY <1>1, <2>1, Unsigned, PriceWide
  <1>3. ASSUME NEW k \in Tokens PROVE WorthNow(k)' <= WorthNow(k) + Scale * (Reserve(k)' - Reserve(k))
    <2> DEFINE D == Dues(p, tick, ticks, pool.growth, k)
               E == Dues(q, tick, ticks, pool.growth, k)
               S == Stakes(p, price, k)
               T == Stakes(q, price, k)
               x == Due(q, tick, ticks, pool.growth, k, id)
               y == Due(p, tick, ticks, pool.growth, k, id)
    <2>1. k \in Kinds /\ y \in Nat
      <3>1. k \in Kinds
        BY KindSets
      <3> QED BY <1>1, <1>2, <3>1, DueTyped
    <2>2. x = 0
      <3>1. CASE id \in Held(q)
        <4> DEFINE since == Since(q[id], tick, ticks, pool.growth, k)
        <4>1. x = WORD * q[id].owed[k] + q[id].liquidity * since
          BY <3>1 DEF Due
        <4>2. q[id].owed[k] = 0 /\ q[id].liquidity = 0
          BY <3>1
        <4>3. since \in Nat
          <5>1. q[id] \in PositionRecords
            BY <1>1, <3>1 DEF Held, Accounts
          <5> QED BY <1>1, <1>2, <2>1, <5>1, SinceTyped
        <4> HIDE DEF since, x
        <4>4. x = WORD * 0 + 0 * since
          BY <4>1, <4>2
        <4>5. WORD * 0 = 0 /\ 0 * since = 0
          BY <4>3, Widths
        <4> QED BY <4>4, <4>5
      <3>2. CASE id \notin Held(q)
        BY <3>2 DEF Due
      <3> QED BY <3>1, <3>2
    <2>3. E + 0 <= D
      <3>1. x + 0 <= y /\ 0 \in Int
        BY <2>1, <2>2
      <3> HIDE DEF p, q, tick
      <3> QED BY <1>1, <1>2, <2>1, <3>1, AccountDues DEF p, q
    <2> DEFINE g == Stake(q, price, k, id)
               f == Stake(p, price, k, id)
    <2>4. g = 0
      <3>1. CASE id \in Held(q)
        <4> DEFINE v == Rate(k, q[id], price)
        <4>1. g = q[id].liquidity * v /\ q[id].liquidity = 0
          BY <3>1 DEF Stake
        <4>2. v \in Nat
          <5>1. q[id] \in PositionRecords /\ q[id].tick_lower_index < q[id].tick_upper_index
            BY <1>1, <3>1 DEF Held, Accounts, Ordered
          <5> HIDE DEF q, price
          <5> QED BY <1>2, <5>1, RateTyped
        <4> HIDE DEF v, g
        <4>3. 0 * v = 0
          BY <4>2
        <4> QED BY <4>1, <4>3
      <3>2. CASE id \notin Held(q)
        BY <3>2 DEF Stake
      <3> QED BY <3>1, <3>2
    <2>5. T + f = S + g /\ f \in Nat /\ S \in Nat /\ T \in Nat /\ D \in Nat /\ E \in Nat
      <3> HIDE DEF p, q, price, tick
      <3>1. T + f = S + g
        BY <1>1, <1>2, AccountStakes DEF p, q
      <3>2. f \in Nat
        BY <1>1, <1>2, StakeTyped
      <3> QED BY <1>1, <1>2, <3>1, <3>2, WorthTyped
    <2>6. WorthNow(k) = Unit * D + S /\ WorthNow(k)' = Unit * E + T
      BY DEF WorthNow, Worth
    <2>7. Scale * (Reserve(k)' - Reserve(k)) = 0
      <3> DEFINE r == Reserve(k)
      <3>1. r \in Int /\ Reserve(k)' = r /\ Scale \in Int
        BY SolventNow, UnitTyped DEF SolventTypes, Reserve
      <3> HIDE DEF r
      <3>2. r - r = 0 /\ Scale * 0 = 0
        BY <3>1
      <3> QED BY <3>1, <3>2 DEF r
    <2> HIDE DEF D, E, S, T, f, g
    <2> DEFINE a == Unit * D
               b == Unit * E
    <2>8. a \in Nat /\ b \in Nat /\ b <= a
      <3>1. Unit \in Nat /\ E <= D
        BY <2>3, <2>5, UnitTyped
      <3>2. E * Unit <= D * Unit
        BY <2>5, <3>1, ProductMonotone
      <3>3. E * Unit = Unit * E /\ D * Unit = Unit * D
        BY <2>5, <3>1, ProductTurned
      <3>4. a \in Nat /\ b \in Nat
        BY <2>5, <3>1, ProductNat
      <3> QED BY <3>2, <3>3, <3>4
    <2> HIDE DEF a, b
    <2>9. WorthNow(k) = a + S /\ WorthNow(k)' = b + T
      BY <2>6 DEF a, b
    <2> QED BY <2>4, <2>5, <2>7, <2>8, <2>9
  <1> QED BY <1>3, SolventCarried

\* What goes into the vaults for liquidity is rounded up, and what comes out down.
LEMMA LiquiditySolvent ==
    ASSUME PoolInv, PoolInv', LiquidityInv, LiquidityInv', SolvencyInv, swap' = NoSwap,
           NEW id \in Open, NEW delta \in Int, ModifyLiquidity(id, delta),
           Dormant(ticks, pool.growth, Active(pool)),
           NEW d, d = calculate_liquidity_token_deltas(pool, positions[id], delta),
           \A k \in Tokens : d[k] # Err,
           \/ delta > 0 /\ transfer_from_owner_to_vault(d)
           \/ ~(delta > 0) /\ transfer_from_vault_to_owner(d)
    PROVE  SolvencyInv'
  <1>1. /\ pool \in PoolRecords /\ positions[id] \in PositionRecords /\ vault \in [Kinds -> 0..Supply]
        /\ PriceInTick(pool.sqrt_price, pool.tick_current_index)
        /\ positions[id].tick_lower_index < positions[id].tick_upper_index
    <2>1. id \in Held(positions)
      BY DEF Open, Held
    <2> QED BY <2>1, OpenTyped DEF PoolInv, TypeOK, LiquidityInv, Ordered
  <1>2. pool.sqrt_price \in 1..U128MAX
    <2>1. pool.sqrt_price \in U128
      BY <1>1 DEF PoolRecords
    <2> QED BY <1>1, <2>1, Unsigned, PriceWide
  <1>3. DOMAIN d = Tokens
    BY <1>1, DeltasTyped
  <1>4. ASSUME NEW k \in Tokens
        PROVE  delta * Rate(k, positions[id], pool.sqrt_price) <= Scale * (vault'[k] - vault[k])
    <2> DEFINE v == Rate(k, positions[id], pool.sqrt_price)
               n == d[k]
    <2>1. /\ n \in Nat /\ v \in Nat
          /\ delta > 0 => delta * v <= n * Scale
          /\ ~(delta > 0) => n * Scale <= (-delta) * v
      BY <1>1, <1>2, DeltasWorth
    <2>2. k \in Kinds /\ vault[k] \in Int
      <3>1. k \in Kinds /\ Supply \in Nat
        BY KindSets
      <3> QED BY <1>1, <3>1
    <2>3. Scale \in Int /\ n \in Int /\ v \in Int
      BY <2>1, UnitTyped
    <2>4. n * Scale = Scale * n
      BY <2>3, ProductTurned
    <2>5. CASE delta > 0 /\ transfer_from_owner_to_vault(d)
      <3>1. vault'[k] = vault[k] + n
        BY <1>3, <2>2, <2>5 DEF transfer_from_owner_to_vault
      <3> HIDE DEF n, v
      <3>2. vault'[k] - vault[k] = n
        BY <2>2, <2>3, <3>1
      <3> QED BY <2>1, <2>4, <2>5, <3>2 DEF v
    <2>6. CASE ~(delta > 0) /\ transfer_from_vault_to_owner(d)
      <3>1. vault'[k] = vault[k] - n
        BY <1>3, <2>2, <2>6 DEF transfer_from_vault_to_owner
      <3> HIDE DEF n, v
      <3>2. vault'[k] - vault[k] = -n
        BY <2>2, <2>3, <3>1
      <3> DEFINE x == n * Scale
                 y == (-delta) * v
      <3>3. x <= y
        BY <2>1, <2>6
      <3>4. delta * v = -y /\ Scale * (-n) = -x
        <4>1. \A e, f \in Int : e * f = -((-e) * f) /\ e * (-f) = -(f * e)
          OBVIOUS
        <4> QED BY <2>3, <4>1
      <3>5. x \in Int /\ y \in Int
        BY <2>3, ProductInt
      <3> HIDE DEF x, y
      <3>6. -y <= -x
        BY <3>3, <3>5
      <3> QED BY <3>2, <3>4, <3>6 DEF v
    <2> QED BY <2>5, <2>6
  <1> QED BY <1>4, ModifySolvent

\* The instructions on positions leave the vaults covering what they are worth.
LEMMA PositionSolvent ==
    ASSUME PoolInv, PoolInv', LiquidityInv, LiquidityInv', SolvencyInv, PositionNext,
           swap = NoSwap => Dormant(ticks, pool.growth, Active(pool))
    PROVE  SolvencyInv'
  <1>1. PICK id \in PositionIds :
            \/ \E range \in RangeInputs : OpenPosition(id, range[1], range[2])
            \/ ClosePosition(id)
            \/ \E amount \in LiquidityInputs, limits \in [Tokens -> TokenLimits] :
                  \/ IncreaseLiquidity(id, amount, limits)
                  \/ DecreaseLiquidity(id, amount, limits)
            \/ UpdateFeesAndRewards(id)
            \/ CollectFees(id)
            \/ \E r \in Rewards : CollectReward(id, r)
    BY DEF PositionNext
  <1>2. /\ positions \in Accounts /\ Tokens \subseteq Kinds /\ Rewards \cap Tokens = {}
        /\ vault \in [Kinds -> 0..Supply] /\ Supply \in Nat
    BY KindSets, PoolAssumption DEF PoolInv, TypeOK, Accounts
  <1>3. ASSUME NEW lower, NEW upper, OpenPosition(id, lower, upper) PROVE SolvencyInv'
    <2>1. /\ swap' = NoSwap /\ UNCHANGED <<pool, ticks, vault>>
          /\ positions' = [positions EXCEPT ![id] = DefaultPosition(lower, upper)]
      BY <1>3 DEF OpenPosition
    <2>2. /\ positions'[id] = DefaultPosition(lower, upper)
          /\ \A x \in PositionIds : x # id => positions'[x] = positions[x]
      BY <1>2, <2>1 DEF Accounts
    <2>3. positions'[id].liquidity = 0 /\ \A k \in Tokens : positions'[id].owed[k] = 0
      BY <1>2, <2>2 DEF DefaultPosition, Zero
    <2> QED BY <2>1, <2>2, <2>3, EmptySolvent
  <1>4. CASE ClosePosition(id)
    <2>1. /\ swap' = NoSwap /\ UNCHANGED <<pool, ticks, vault>>
          /\ positions' = [positions EXCEPT ![id] = NoPosition]
      BY <1>4 DEF ClosePosition
    <2>2. /\ positions'[id] = NoPosition
          /\ \A x \in PositionIds : x # id => positions'[x] = positions[x]
      BY <1>2, <2>1 DEF Accounts
    <2>3. id \notin Held(positions')
      BY <2>2 DEF Held
    <2> QED BY <2>1, <2>2, <2>3, EmptySolvent
  \* The instructions that settle and change liquidity.
  <1>5. ASSUME NEW amount \in LiquidityInputs, NEW limits,
               IncreaseLiquidity(id, amount, limits) \/ DecreaseLiquidity(id, amount, limits)
        PROVE  SolvencyInv'
    <2> DEFINE d(positive) == convert_to_liquidity_delta(amount, positive)
               t(positive) == calculate_liquidity_token_deltas(pool, positions[id], d(positive))
    <2>1. amount \in Nat /\ (amount # 0 => d(TRUE) > 0) /\ ~(d(FALSE) > 0)
          /\ d(TRUE) \in Int /\ d(FALSE) \in Int
      <3>1. amount \in Nat
        BY InputAssumption, Unsigned
      <3> QED BY <3>1 DEF convert_to_liquidity_delta
    <2>2. PICK positive \in BOOLEAN :
            /\ swap = NoSwap /\ swap' = swap /\ id \in Open /\ amount # 0
            /\ ModifyLiquidity(id, d(positive)) /\ \A k \in Tokens : t(positive)[k] # Err
            /\ \/ positive /\ transfer_from_owner_to_vault(t(positive))
               \/ ~positive /\ transfer_from_vault_to_owner(t(positive))
      BY <1>5 DEF IncreaseLiquidity, DecreaseLiquidity
    <2> DEFINE e == d(positive)
               f == t(positive)
    <2>3. e \in Int /\ f = calculate_liquidity_token_deltas(pool, positions[id], e)
      BY <2>1
    <2>4. \/ e > 0 /\ transfer_from_owner_to_vault(f)
          \/ ~(e > 0) /\ transfer_from_vault_to_owner(f)
      BY <2>1, <2>2
    <2>5. ModifyLiquidity(id, e) /\ \A k \in Tokens : f[k] # Err
      BY <2>2
    <2> HIDE DEF d, t, e, f
    <2> QED BY <2>2, <2>3, <2>4, <2>5, LiquiditySolvent
  <1>6. CASE UpdateFeesAndRewards(id)
    <2>1. /\ swap = NoSwap /\ swap' = swap /\ vault' = vault /\ id \in Open
          /\ ModifyLiquidity(id, 0)
      BY <1>6 DEF UpdateFeesAndRewards
    <2>2. Dormant(ticks, pool.growth, Active(pool))
      BY <2>1
    <2>3. ASSUME NEW k \in Tokens
          PROVE  0 * Rate(k, positions[id], pool.sqrt_price) <= Scale * (vault'[k] - vault[k])
      <3> DEFINE v == Rate(k, positions[id], pool.sqrt_price)
                 n == vault[k]
      <3>1. v \in Nat
        BY <2>1, <2>2, ModifyWorth
      <3>2. n \in Int
        BY <1>2
      <3> HIDE DEF v, n
      <3>3. 0 * v = 0 /\ n - n = 0 /\ Scale * 0 = 0
        BY <3>1, <3>2, UnitTyped
      <3> QED BY <2>1, <3>3 DEF v, n
    <2> QED BY <2>1, <2>2, <2>3, ModifySolvent
  \* The instructions that only change what is owed.
  <1>7. CASE CollectFees(id)
    <2> DEFINE owed == [k \in Kinds |-> IF k \in Tokens THEN 0 ELSE positions[id].owed[k]]
               out == [k \in Tokens |-> positions[id].owed[k]]
    <2>1. /\ swap' = NoSwap /\ id \in Open /\ UNCHANGED <<pool, ticks>>
          /\ positions' = [positions EXCEPT ![id].owed = owed]
          /\ transfer_from_vault_to_owner(out)
      BY <1>7 DEF CollectFees
    <2>2. positions[id].owed \in [Kinds -> U64]
      BY <2>1, OpenTyped DEF PositionRecords
    <2>3. owed \in [Kinds -> U64]
      BY <2>2, Unsigned
    <2>4. ASSUME NEW k \in Tokens
          PROVE  owed[k] <= positions[id].owed[k]
                 /\ vault'[k] = vault[k] - (positions[id].owed[k] - owed[k])
      <3>1. k \in Kinds /\ positions[id].owed[k] \in Nat
        BY <1>2, <2>2, Unsigned
      <3>2. owed[k] = 0
        BY <3>1
      <3>3. vault'[k] = vault[k] - positions[id].owed[k]
        <4>1. vault' = [x \in Kinds |-> IF x \in Tokens THEN vault[x] - out[x] ELSE vault[x]]
          BY <2>1 DEF transfer_from_vault_to_owner
        <4> QED BY <3>1, <4>1
      <3> HIDE DEF owed
      <3> QED BY <3>1, <3>2, <3>3
    <2> HIDE DEF owed
    <2> QED BY <2>1, <2>3, <2>4, OwedSolvent
  <1>8. ASSUME NEW r \in Rewards, CollectReward(id, r) PROVE SolvencyInv'
    <2> DEFINE c == calculate_collect_reward(positions[id].owed[r], vault[r])
               owed == [positions[id].owed EXCEPT ![r] = c.owed]
               out == [k \in {r} |-> c.transfer]
    <2>1. /\ swap' = NoSwap /\ id \in Open /\ UNCHANGED <<pool, ticks>>
          /\ positions' = [positions EXCEPT ![id].owed = owed]
          /\ transfer_from_vault_to_owner(out)
      BY <1>8 DEF CollectReward
    <2>2. positions[id].owed \in [Kinds -> U64] /\ r \in Kinds
      BY <2>1, OpenTyped, KindSets DEF PositionRecords
    <2>3. c.owed \in U64
      <3>1. positions[id].owed[r] \in U64 /\ vault[r] \in 0..Supply
        BY <1>2, <2>2
      <3> QED BY <3>1, RewardCollected
    <2>4. \A k \in Kinds : k # r => vault'[k] = vault[k]
      <3> HIDE DEF c
      <3>1. vault' = [k \in Kinds |-> IF k \in DOMAIN out THEN vault[k] - out[k] ELSE vault[k]]
        BY <2>1, Zenon DEF transfer_from_vault_to_owner
      <3> QED BY <3>1
    <2> HIDE DEF c
    <2>5. owed \in [Kinds -> U64]
      BY <2>2, <2>3
    <2>6. ASSUME NEW k \in Tokens
          PROVE  owed[k] <= positions[id].owed[k]
                 /\ vault'[k] = vault[k] - (positions[id].owed[k] - owed[k])
      <3>1. k \in Kinds /\ k # r
        BY <1>2
      <3>2. positions[id].owed[k] \in Int /\ vault[k] \in Int
        BY <1>2, <2>2, <3>1, Unsigned
      <3>3. owed[k] = positions[id].owed[k] /\ vault'[k] = vault[k]
        BY <2>2, <2>4, <3>1
      <3> HIDE DEF owed
      <3> QED BY <3>2, <3>3
    <2> HIDE DEF owed
    <2> QED BY <2>1, <2>5, <2>6, OwedSolvent
  <1> QED BY <1>1, <1>3, <1>4, <1>5, <1>6, <1>7, <1>8

\* So do the authorities' instructions: they take the protocol's share only.
LEMMA AuthoritySolvent ==
    ASSUME PoolInv, PoolInv', LiquidityInv, LiquidityInv', SolvencyInv, AuthorityNext
    PROVE  SolvencyInv'
  <1>1. pool \in PoolRecords /\ SolventTypes /\ SolventTypes'
    BY SolventNow, SolventNext DEF PoolInv, TypeOK
  <1>2. \A k \in Tokens : Reserve(k) \in Int
    BY <1>1 DEF SolventTypes
  <1>3. ASSUME NEW r, NEW emissions, SetRewardEmissions(r, emissions) PROVE SolvencyInv'
    <2> DEFINE growth == next_whirlpool_reward_infos(pool, clock)
    <2>1. /\ swap' = NoSwap /\ UNCHANGED <<ticks, positions, vault>>
          /\ ~InvalidTimestamp(pool, clock) /\ pool'.growth = growth
          /\ pool'.sqrt_price = pool.sqrt_price
          /\ pool'.tick_current_index = pool.tick_current_index
          /\ pool'.protocol_fee_owed = pool.protocol_fee_owed
      BY <1>1, <1>3 DEF SetRewardEmissions, update_emissions, PoolRecords
    <2>2. growth \in [Kinds -> U128] /\ pool.growth \in [Kinds -> U128]
          /\ positions \in Accounts /\ ticks \in [Usable -> TickRecords]
      BY <1>1, <2>1, GrowthTyped DEF PoolInv, TypeOK, Accounts, PoolRecords
    <2>3. ASSUME NEW k \in Tokens
          PROVE  WorthNow(k)' <= WorthNow(k) + Scale * (Reserve(k)' - Reserve(k))
      <3>1. growth[k] = pool.growth[k] /\ k \in Kinds
        BY <1>1, TokenGrowth, KindSets
      <3> HIDE DEF growth
      <3>2. Dues(positions, pool.tick_current_index, ticks, growth, k)
              = Dues(positions, pool.tick_current_index, ticks, pool.growth, k)
        BY <2>2, <3>1, SettledDues
      <3>3. WorthNow(k)' = WorthNow(k)
        BY <2>1, <3>2 DEF WorthNow, Worth
      <3> DEFINE n == Reserve(k)
                 w == WorthNow(k)
      <3>4. Reserve(k)' = n /\ n \in Int /\ w \in Int /\ Scale \in Int
        BY <1>1, <2>1, UnitTyped DEF SolventTypes, Reserve
      <3> HIDE DEF n, w
      <3>5. n - n = 0 /\ Scale * 0 = 0 /\ w <= w + 0
        BY <3>4
      <3> QED BY <3>3, <3>4, <3>5 DEF n, w
    <2> QED BY <2>1, <2>3, SolventCarried
  <1>4. CASE CollectProtocolFees
    <2>1. /\ swap' = NoSwap /\ UNCHANGED <<ticks, positions>>
          /\ transfer_from_vault_to_owner(pool.protocol_fee_owed)
          /\ pool' = [pool EXCEPT !.protocol_fee_owed = [k \in Tokens |-> 0]]
      BY <1>4 DEF CollectProtocolFees
    <2>2. DOMAIN pool.protocol_fee_owed = Tokens /\ Tokens \subseteq Kinds
      BY <1>1, KindSets DEF PoolRecords
    <2>3. ASSUME NEW k \in Tokens PROVE Reserve(k)' >= Reserve(k)
      <3>1. vault'[k] = vault[k] - pool.protocol_fee_owed[k]
        BY <2>1, <2>2 DEF transfer_from_vault_to_owner
      <3>2. pool'.protocol_fee_owed[k] = 0
        BY <1>1, <2>1 DEF PoolRecords
      <3>3. Reserve(k)' = vault'[k] - 0 /\ Reserve(k) = vault'[k]
        BY <3>1, <3>2 DEF Reserve
      <3> QED BY <1>2, <3>3
    <2>4. /\ pool'.tick_current_index = pool.tick_current_index /\ pool'.growth = pool.growth
          /\ pool'.sqrt_price = pool.sqrt_price
      BY <1>1, <2>1 DEF PoolRecords
    <2> QED BY <2>1, <2>3, <2>4, QuietSolvent
  <1>5. CASE \/ \E rate \in FeeRates : SetFeeRate(rate)
             \/ \E rate \in ProtocolFeeRates : SetProtocolFeeRate(rate)
             \/ \E i \in 1..Len(RewardNames) : InitializeReward(i)
    <2>1. /\ swap' = NoSwap /\ UNCHANGED <<ticks, positions, vault>>
          /\ pool'.tick_current_index = pool.tick_current_index /\ pool'.growth = pool.growth
          /\ pool'.sqrt_price = pool.sqrt_price /\ pool'.protocol_fee_owed = pool.protocol_fee_owed
      BY <1>1, <1>5 DEF SetFeeRate, SetProtocolFeeRate, InitializeReward, PoolRecords
    <2>2. \A k \in Tokens : Reserve(k)' >= Reserve(k)
      BY <1>2, <2>1 DEF Reserve
    <2> QED BY <2>1, <2>2, QuietSolvent
  <1> QED BY <1>3, <1>4, <1>5 DEF AuthorityNext

\* What n tokens cover, more tokens cover.
LEMMA CoveredByMore ==
    ASSUME NEW w \in Int, NEW n \in Int, NEW m \in Int, w <= Scale * n, n <= m
    PROVE  w <= Scale * m
  <1> DEFINE d == m - n
             e == Scale * d
  <1>1. d \in Nat
    OBVIOUS
  <1>2. e \in Nat
    <2> HIDE DEF d
    <2> QED BY <1>1, UnitTyped, ProductNat
  <1> HIDE DEF e
  <1>3. w <= w + e
    BY <1>2
  <1> QED BY <1>3, StaysCovered DEF e

\* So does a swap that begins: it settles rewards, which are in other vaults.
LEMMA BeginSolvent ==
    ASSUME PoolInv, PoolInv', LiquidityInv, SolvencyInv, NEW amount \in SwapAmounts, NEW threshold,
           NEW limit, NEW is_input, NEW a_to_b, NEW arrays,
           BeginSwap(amount, threshold, limit, is_input, a_to_b, arrays)
    PROVE  SolvencyInv'
  <1> DEFINE growth == next_whirlpool_reward_infos(pool, clock)
  <1>1. /\ ~InvalidTimestamp(pool, clock) /\ UNCHANGED <<pool, ticks, positions, vault>>
        /\ swap' = [amount |-> amount, threshold |-> threshold, limit |-> limit,
                    is_input |-> is_input, a_to_b |-> a_to_b, arrays |-> arrays,
                    remaining |-> amount, calculated |-> 0,
                    sqrt_price |-> pool.sqrt_price, tick |-> pool.tick_current_index,
                    liquidity |-> pool.liquidity, protocol_fee |-> 0, array_index |-> 1,
                    growth |-> growth, ticks |-> ticks]
    BY DEF BeginSwap
  <1>2. amount \in Int
    BY InputAssumption, Unsigned
  <1>3. /\ growth \in [Kinds -> U128] /\ pool.growth \in [Kinds -> U128]
        /\ positions \in Accounts /\ ticks \in [Usable -> TickRecords] /\ pool \in PoolRecords
    BY <1>1, GrowthTyped DEF PoolInv, TypeOK, Accounts, PoolRecords
  <1>4. ASSUME NEW k \in Tokens
        PROVE  /\ WorthNow(k)' = WorthNow(k) /\ Reserve(k)' = Reserve(k)
               /\ WorthIn(swap, k)' = WorthNow(k) /\ Moved(swap', k) = 0
    <2>1. growth[k] = pool.growth[k] /\ k \in Kinds
      BY <1>3, TokenGrowth, KindSets
    <2> HIDE DEF growth
    <2>2. Dues(positions, pool.tick_current_index, ticks, growth, k)
            = Dues(positions, pool.tick_current_index, ticks, pool.growth, k)
      BY <1>3, <2>1, SettledDues
    <2>3. /\ swap'.sqrt_price = pool.sqrt_price /\ swap'.tick = pool.tick_current_index
          /\ swap'.growth = growth /\ swap'.ticks = ticks
      BY <1>1
    <2>4. WorthIn(swap, k)' = WorthNow(k)
      BY <1>1, <2>2, <2>3 DEF WorthNow, WorthIn, Worth
    <2>5. AmountIn(swap') = 0 /\ AmountOut(swap') = 0 /\ swap'.protocol_fee = 0
      <3>1. amount - amount = 0
        BY <1>2
      <3> QED BY <1>1, <3>1 DEF AmountIn, AmountOut
    <2>6. Moved(swap', k) = 0
      <3>1. 0 - 0 = 0 /\ -0 = 0
        <4>1. 0 \in Int /\ 0 - 0 = 0
          OBVIOUS
        <4>2. \A n \in Int : -n = 0 - n
          OBVIOUS
        <4> QED BY <4>1, <4>2, Zenon
      <3>2. Moved(swap', k) = IF k = InputToken(swap') THEN 0 - 0 ELSE -0
        BY <2>5, Zenon DEF Moved
      <3> QED BY <3>1, <3>2, Zenon
    <2> QED BY <1>1, <2>4, <2>6 DEF WorthNow, Reserve
  <1>5. ASSUME NEW k \in Tokens
        PROVE  /\ WorthNow(k)' <= Scale * Reserve(k)'
               /\ WorthIn(swap, k)' <= Scale * (Reserve(k)' + Moved(swap', k))
    <2> DEFINE n == Reserve(k)
    <2>1. n \in Int /\ WorthNow(k) <= Scale * n
      BY SolventNow DEF SolventTypes, SolvencyInv
    <2>2. n + 0 = n
      BY <2>1
    <2> HIDE DEF n
    <2> QED BY <1>4, <2>1, <2>2 DEF n
  <1> QED BY <1>5 DEF SolvencyInv

\* So does a swap: what it takes in and gives out is what its iterations moved.
LEMMA SwapSolvent ==
    ASSUME PoolInv, PoolInv', LiquidityInv, LiquidityInv', RewardInv, SolvencyInv, SwapNext
    PROVE  SolvencyInv'
  <1>1. /\ positions \in Accounts /\ Ordered(positions) /\ SolventTypes
        /\ vault \in [Kinds -> 0..Supply] /\ pool \in PoolRecords
    BY SolventNow DEF PoolInv, TypeOK, Accounts, LiquidityInv
  <1>2. \A k \in Tokens : Reserve(k) \in Int
    BY <1>1 DEF SolventTypes
  \* The swap in progress is thrown away.
  <1>3. ASSUME swap' = NoSwap, UNCHANGED <<pool, tick_arrays, ticks, positions, vault, clock>>
        PROVE  SolvencyInv'
    <2>1. \A k \in Tokens : Reserve(k)' >= Reserve(k)
      BY <1>2, <1>3 DEF Reserve
    <2> QED BY <1>3, <2>1, QuietSolvent
  <1>4. CASE swap # NoSwap /\ SwapSearches(NextTick(swap))
    <2> DEFINE found == NextTick(swap)
               c == Computation(swap, found)
               after == Iteration(swap, found, c)
    <2>1. SwapIterates(found, c) \/ SwapFails(found, c)
      BY <1>4, Zenon DEF SwapSearches, SwapLoops
    <2>2. CASE SwapIterates(found, c)
      <3>1. /\ Looping(swap) /\ IterationSucceeds(swap, found, c) /\ swap' = after
            /\ UNCHANGED <<pool, ticks, positions, vault, clock>>
        BY <2>2 DEF SwapIterates
      <3>2. /\ swap \in SwapRecords /\ pool \in PoolRecords /\ SwapRuns(swap, pool.sqrt_price)
            /\ pool.sqrt_price \in Nat
        BY <1>4, SwapTyped
      <3>3. /\ Books(positions, swap.tick, swap.liquidity, swap.ticks)
            /\ Dormant(swap.ticks, swap.growth, Active(pool))
        BY <1>4 DEF LiquidityInv, RewardInv
      <3> HIDE DEF found, c, after
      <3>4. ASSUME NEW k \in Tokens
            PROVE  WorthIn(after, k) <= Scale * (Reserve(k) + Moved(after, k))
        <4> DEFINE w == WorthIn(swap, k)
                   v == WorthIn(after, k)
                   x == Moved(swap, k)
                   y == Moved(after, k)
                   r == Reserve(k)
        <4>1. v <= w + Scale * (y - x)
          BY <1>1, <3>1, <3>2, <3>3, IterationWorth DEF found, c, after, WorthIn
        <4>2. after \in SwapRecords
          BY <3>1, <3>2, IterationTyped DEF found, c, after
        <4>3. x \in Int /\ y \in Int /\ r \in Int
          BY <1>2, <3>2, <4>2, MovedTyped
        <4>4. w <= Scale * (r + x)
          BY <1>4 DEF SolvencyInv
        <4>5. ASSUME NEW s \in SwapRecords, PriceInTick(s.sqrt_price, s.tick) PROVE WorthIn(s, k) \in Int
          <5>1. /\ s.sqrt_price \in U128 /\ s.growth \in [Kinds -> U128]
                /\ s.ticks \in [Usable -> TickRecords]
            BY DEF SwapRecords
          <5>2. s.sqrt_price \in 1..U128MAX
            BY <4>5, <5>1, Unsigned, PriceWide
          <5> QED BY <1>1, <5>1, <5>2, WorthTyped DEF WorthIn
        <4>6. w \in Int
          BY <3>2, <4>5 DEF SwapRuns
        <4>7. v \in Int
          <5>1. PriceInTick(after.sqrt_price, after.tick)
            BY <3>1, <3>2, IterationMoves DEF found, c, after
          <5> QED BY <4>2, <4>5, <5>1
        <4> HIDE DEF v, w, x, y, r
        <4>8. r + x \in Int /\ r + y \in Int /\ (r + y) - (r + x) = y - x
          BY <4>3
        <4>9. v <= Scale * (r + y)
          BY <4>1, <4>4, <4>6, <4>7, <4>8, StaysCovered
        <4> QED BY <4>9 DEF v, r, y
      <3>5. \A k \in Tokens : WorthNow(k)' <= Scale * Reserve(k)'
        BY <3>1 DEF SolvencyInv, WorthNow, Reserve
      <3>6. \A k \in Tokens : WorthIn(swap, k)' <= Scale * (Reserve(k)' + Moved(swap', k))
        BY <3>1, <3>4 DEF WorthIn, Reserve
      <3> QED BY <3>5, <3>6 DEF SolvencyInv
    <2>3. CASE SwapFails(found, c)
      BY <1>3, <2>3 DEF SwapFails
    <2> QED BY <2>1, <2>2, <2>3
  <1>5. CASE SwapCommits
    <2> DEFINE in == InputToken(swap)
               out == OutputToken(swap)
               ain == AmountIn(swap)
               aout == AmountOut(swap)
               f == swap.protocol_fee
               fee == WrapU64(pool.protocol_fee_owed[in] + f)
    <2>1. /\ swap # NoSwap /\ swap' = NoSwap /\ ticks' = swap.ticks /\ UNCHANGED <<positions, clock>>
          /\ pool' = [pool EXCEPT
                        !.sqrt_price = swap.sqrt_price,
                        !.tick_current_index = swap.tick,
                        !.liquidity = swap.liquidity,
                        !.growth = swap.growth,
                        !.reward_last_updated_timestamp = clock,
                        !.protocol_fee_owed[in] = fee]
          /\ vault' = [vault EXCEPT ![in] = @ + ain, ![out] = @ - aout]
      BY <1>5 DEF SwapCommits
    <2>2. /\ swap \in SwapRecords /\ SwapRuns(swap, pool.sqrt_price)
      BY <2>1, SwapTyped
    <2>3. /\ ain \in Nat /\ aout \in Nat /\ in \in Tokens /\ out \in Kinds /\ in \in Kinds /\ in # out
          /\ \A k \in Tokens : k = in \/ k = out
      <3>1. \A k \in Tokens : k = in \/ k = out
        BY DEF Tokens, InputToken, OutputToken
      <3> QED BY <2>2, <3>1, AmountsOfSwap DEF SwapRuns
    <2>4. /\ pool.protocol_fee_owed \in [Tokens -> U64] /\ f \in Nat
      <3>1. f \in U64
        BY <2>2 DEF SwapRecords
      <3> QED BY <1>1, <3>1, Unsigned DEF PoolRecords
    <2> HIDE DEF in, out, ain, aout, f, fee
    <2>5. /\ pool'.tick_current_index = swap.tick /\ pool'.growth = swap.growth
          /\ pool'.sqrt_price = swap.sqrt_price
          /\ pool'.protocol_fee_owed = [pool.protocol_fee_owed EXCEPT ![in] = fee]
      BY <1>1, <2>1 DEF PoolRecords
    <2>6. ASSUME NEW k \in Tokens PROVE WorthNow(k)' = WorthIn(swap, k)
      BY <2>1, <2>5 DEF WorthNow, WorthIn
    <2>7. ASSUME NEW k \in Tokens PROVE Reserve(k) + Moved(swap, k) <= Reserve(k)'
      <3> DEFINE n == pool.protocol_fee_owed[k]
                 v == vault[k]
      <3>1. n \in Nat /\ v \in Int
        <4>1. k \in Kinds /\ Supply \in Nat
          BY KindSets
        <4> QED BY <1>1, <2>4, <4>1, Unsigned
      <3>2. CASE k = in
        <4>1. vault'[k] = v + ain
          BY <1>1, <2>1, <2>3, <3>2
        <4>2. pool'.protocol_fee_owed[k] = fee
          BY <2>4, <2>5, <3>2
        <4>3. fee \in Nat /\ fee <= n + f
          <5>1. n + f \in Nat /\ fee = WrapU64(n + f)
            BY <2>4, <3>1, <3>2 DEF fee
          <5> HIDE DEF n
          <5> QED BY <5>1, WrapBelow
        <4>4. Moved(swap, k) = ain - f
          BY <3>2 DEF Moved, in, ain, f
        <4>5. Reserve(k) = v - n /\ Reserve(k)' = (v + ain) - fee
          BY <4>1, <4>2 DEF Reserve
        <4> HIDE DEF n, v
        <4> QED BY <2>3, <2>4, <3>1, <4>3, <4>4, <4>5
      <3>3. CASE k = out
        <4>1. vault'[k] = v - aout
          BY <1>1, <2>1, <2>3, <3>3
        <4>2. pool'.protocol_fee_owed[k] = n
          BY <2>3, <2>4, <2>5, <3>3
        <4>3. Moved(swap, k) = -aout
          BY <2>3, <3>3 DEF Moved, in, aout
        <4>4. Reserve(k) = v - n /\ Reserve(k)' = (v - aout) - n
          BY <4>1, <4>2 DEF Reserve
        <4> HIDE DEF n, v
        <4> QED BY <2>3, <3>1, <4>3, <4>4
      <3> QED BY <2>3, <3>2, <3>3
    <2>8. ASSUME NEW k \in Tokens PROVE WorthNow(k)' <= Scale * Reserve(k)'
      <3> DEFINE w == WorthNow(k)'
                 n == Reserve(k) + Moved(swap, k)
                 m == Reserve(k)'
      <3>1. Moved(swap, k) \in Int
        BY <2>2, MovedTyped
      <3>2. w \in Int /\ m \in Int
        BY SolventNext DEF SolventTypes
      <3>3. w <= Scale * n
        BY <2>1, <2>6 DEF SolvencyInv
      <3>4. n \in Int /\ n <= m
        BY <1>2, <2>7, <3>1
      <3> HIDE DEF w, n, m
      <3>5. w <= Scale * m
        BY <3>2, <3>3, <3>4, CoveredByMore
      <3> QED BY <3>5 DEF w, m
    <2> QED BY <2>1, <2>8 DEF SolvencyInv
  <1>6. CASE SwapRefused
    BY <1>3, <1>6 DEF SwapRefused
  <1> QED BY <1>4, <1>5, <1>6 DEF SwapNext

\* An empty pool is worth nothing.
LEMMA SolvencyCreated == BoundedInit => SolvencyInv
  <1> SUFFICES ASSUME BoundedInit PROVE SolvencyInv
    OBVIOUS
  <1>1. /\ swap = NoSwap /\ vault = Zero /\ positions = [id \in PositionIds |-> NoPosition]
        /\ pool.protocol_fee_owed = [k \in Tokens |-> 0]
    BY DEF BoundedInit, InitializePool
  <1>2. ASSUME NEW k \in Tokens PROVE WorthNow(k) <= Scale * Reserve(k)
    <2> DEFINE f == DueTo(positions, pool.tick_current_index, ticks, pool.growth, k)
               g == StakeOf(positions, pool.sqrt_price, k)
    <2>1. ASSUME NEW h, \A x \in PositionIds : h[x] = 0 PROVE Total(h, PositionIds) = 0
      <3>1. {} \in SUBSET PositionIds /\ \A x \in PositionIds : h[x] \in Int
        BY <2>1
      <3>2. \A x \in PositionIds \ {} : h[x] = 0
        BY <2>1
      <3> QED BY <3>1, <3>2, PositionAssumption, TotalPart, TotalEmpty
    <2>2. \A x \in PositionIds : f[x] = 0 /\ g[x] = 0
      BY <1>1 DEF DueTo, Due, StakeOf, Stake, Held
    <2> HIDE DEF f, g
    <2>3. Total(f, PositionIds) = 0 /\ Total(g, PositionIds) = 0
      BY <2>1, <2>2
    <2>4. WorthNow(k) = Unit * 0 + 0
      BY <2>3 DEF WorthNow, Worth, Dues, Stakes, f, g
    <2>5. Reserve(k) = 0 - 0
      BY <1>1, KindSets DEF Reserve, Zero
    <2>6. Unit * 0 + 0 = 0 /\ Scale * (0 - 0) = 0
      BY UnitTyped
    <2> QED BY <2>4, <2>5, <2>6
  <1> QED BY <1>1, <1>2 DEF SolvencyInv

\* So does every step.
LEMMA SolvencyStep ==
    PoolInv /\ PoolInv' /\ LiquidityInv /\ LiquidityInv' /\ RewardInv /\ SolvencyInv
        /\ [BoundedNext]_boundedVars => SolvencyInv'
  <1> SUFFICES ASSUME PoolInv, PoolInv', LiquidityInv, LiquidityInv', RewardInv, SolvencyInv,
                      [BoundedNext]_boundedVars
               PROVE  SolvencyInv'
    OBVIOUS
  <1>1. CASE UNCHANGED boundedVars
    <2>1. UNCHANGED <<pool, ticks, positions, vault, swap>>
      BY <1>1 DEF boundedVars, vars
    <2> QED BY <2>1 DEF SolvencyInv, WorthNow, WorthIn, Reserve
  <1> SUFFICES ASSUME Next PROVE SolvencyInv'
    BY <1>1, BoundedTakes
  <1>2. CASE PositionNext
    BY <1>2, PositionSolvent DEF RewardInv
  <1>3. CASE AuthorityNext
    BY <1>3, AuthoritySolvent
  <1>4. CASE SwapNext
    BY <1>4, SwapSolvent
  <1>5. \A k \in Tokens : Reserve(k) \in Int
    BY SolventNow DEF SolventTypes
  <1>6. ASSUME NEW start, InitializeTickArray(start) PROVE SolvencyInv'
    <2>1. swap' = NoSwap /\ UNCHANGED <<pool, ticks, positions, vault>>
      BY <1>6 DEF InitializeTickArray
    <2>2. \A k \in Tokens : Reserve(k)' >= Reserve(k)
      BY <1>5, <2>1 DEF Reserve
    <2> QED BY <2>1, <2>2, QuietSolvent
  <1>7. ASSUME NEW r \in Rewards, NEW amount, FundReward(r, amount) PROVE SolvencyInv'
    <2>1. /\ swap' = NoSwap /\ UNCHANGED <<pool, ticks, positions>>
          /\ vault' = [k \in Kinds |-> IF k \in {r} THEN vault[k] + amount ELSE vault[k]]
      BY <1>7 DEF FundReward, transfer_from_owner_to_vault
    <2>2. \A k \in Tokens : vault'[k] = vault[k]
      BY <2>1, PoolAssumption, KindSets
    <2>3. \A k \in Tokens : Reserve(k)' >= Reserve(k)
      BY <1>5, <2>1, <2>2 DEF Reserve
    <2> QED BY <2>1, <2>3, QuietSolvent
  <1>8. ASSUME NEW now, ClockMoves(now) PROVE SolvencyInv'
    <2>1. swap' = NoSwap /\ UNCHANGED <<pool, ticks, positions, vault>>
      BY <1>8 DEF ClockMoves
    <2>2. \A k \in Tokens : Reserve(k)' >= Reserve(k)
      BY <1>5, <2>1 DEF Reserve
    <2> QED BY <2>1, <2>2, QuietSolvent
  <1>9. ASSUME NEW amount \in SwapAmounts, NEW threshold, NEW limit, NEW is_input, NEW a_to_b,
               NEW arrays, BeginSwap(amount, threshold, limit, is_input, a_to_b, arrays)
        PROVE  SolvencyInv'
    BY <1>9, BeginSolvent
  <1> QED BY <1>2, <1>3, <1>4, <1>6, <1>7, <1>8, <1>9 DEF Next

\* The vaults cover what the positions are worth, always.
LEMMA SolvencyAlways == BoundedSpec => [](PoolInv /\ LiquidityInv /\ RewardInv /\ SolvencyInv)
  <1>1. BoundedSpec => []LiquidityInv
    BY RewardAlways, PTL
  <1> QED BY <1>1, RewardAlways, SolvencyCreated, SolvencyStep, PTL DEF BoundedSpec

\* The partial sums that the fold over the claims to a token builds.
TokenClaims(k, ids, h) ==
    h = [s \in SUBSET ids |-> IF s = {} THEN 0
                              ELSE LET x == CHOOSE x \in s : TRUE
                                   IN  Claim(x, k) + h[s \ {x}]]

\* The sum of the claims, as the property folds it, is a total.
LEMMA TokenClaimsTotal ==
    ASSUME NEW k, NEW ids, IsFiniteSet(ids), NEW f, \A x \in ids : f[x] = Claim(x, k)
    PROVE  MapThenSumSet(LAMBDA id : Claim(id, k), ids) = Total(f, ids)
  <1> DEFINE n == CHOOSE n : TokenClaims(k, ids, n)
  <1>1. ASSUME NEW s \in SUBSET ids, s # {} PROVE f[First(s)] = Claim(First(s), k)
    BY <1>1, FirstIn
  <1>2. ASSUME NEW h PROVE TokenClaims(k, ids, h) <=> Adds(f, ids, h)
    <2> DEFINE F == [s \in SUBSET ids |-> IF s = {} THEN 0
                                          ELSE Claim(First(s), k) + h[s \ {First(s)}]]
               G == [s \in SUBSET ids |-> IF s = {} THEN 0 ELSE f[First(s)] + h[s \ {First(s)}]]
    <2>1. F = G
      BY <1>1
    <2>2. TokenClaims(k, ids, h) <=> h = F
      BY DEF TokenClaims, First
    <2>3. Adds(f, ids, h) <=> h = G
      BY DEF Adds
    <2> QED BY <2>1, <2>2, <2>3, Zenon
  <1>3. \E h : TokenClaims(k, ids, h)
    BY <1>2, SumsExist
  <1>4. TokenClaims(k, ids, n)
    BY <1>3
  <1>5. MapThenSumSet(LAMBDA id : Claim(id, k), ids) = n[ids]
    BY DEF MapThenSumSet, MapThenFoldSet, TokenClaims, n
  <1> HIDE DEF n
  <1>6. Adds(f, ids, n)
    BY <1>2, <1>4
  <1>7. Adds(f, ids, CHOOSE h : Adds(f, ids, h))
    BY SumsChosen
  <1> QED BY <1>5, <1>6, <1>7, SumsAgree DEF Total

\* What one position's claim is worth at most.
LEMMA ClaimWorth ==
    ASSUME PoolInv, LiquidityInv, RewardInv, NEW id \in Open, NEW k \in Tokens
    PROVE  LET due == Due(positions, pool.tick_current_index, ticks, pool.growth, k, id)
               stake == Stake(positions, pool.sqrt_price, k, id)
           IN  /\ Claim(id, k) \in Int /\ due \in Nat /\ stake \in Nat
               /\ Claim(id, k) * Scale <= Unit * due + stake
  <1> DEFINE p == positions
             current == pool.tick_current_index
             l == p[id].liquidity
             since == Since(p[id], current, ticks, pool.growth, k)
             o == p[id].owed[k]
             inside == InsideOf(Committed, id)
             e == Earned(p[id], inside, k)
             withdrawn == calculate_liquidity_token_deltas(pool, p[id], -l)
             n == IF l > 0 THEN withdrawn[k] ELSE 0
             due == Due(p, current, ticks, pool.growth, k, id)
             stake == Stake(p, pool.sqrt_price, k, id)
  <1>1. /\ pool \in PoolRecords /\ ticks \in [Usable -> TickRecords] /\ p \in Accounts /\ Ordered(p)
        /\ Dormant(ticks, pool.growth, Active(pool)) /\ PriceInTick(pool.sqrt_price, current)
        /\ \A u \in Usable : TickBook(ticks[u], p, u)
    BY DEF PoolInv, TypeOK, Accounts, LiquidityInv, Books, RewardInv
  <1>2. /\ pool.growth \in [Kinds -> U128] /\ current \in Int /\ k \in Kinds /\ WORD \in Nat
        /\ pool.sqrt_price \in U128
    BY <1>1, TickIndexAssumption, KindSets, Widths DEF PoolRecords
  <1>3. pool.sqrt_price \in 1..U128MAX
    BY <1>1, <1>2, Unsigned, PriceWide
  <1>4. id \in Held(p) /\ id \in PositionIds /\ p[id] \in PositionRecords
        /\ p[id].tick_lower_index < p[id].tick_upper_index
    <2>1. id \in Held(p) /\ id \in PositionIds /\ p[id] \in PositionRecords
      BY OpenTyped DEF Open, Held
    <2> QED BY <1>1, <2>1 DEF Ordered
  <1>5. e \in Nat /\ WORD * e <= l * since
    <2>1. inside
            = next_growths_inside(current, ticks, p[id].tick_lower_index,
                                  p[id].tick_upper_index, pool.growth, Active(pool))
      BY DEF InsideOf, Committed
    <2> HIDE DEF inside
    <2>2. /\ Earned(p[id], inside, k) \in Nat
          /\ WORD * Earned(p[id], inside, k)
               <= p[id].liquidity * Since(p[id], current, ticks, pool.growth, k)
      <3> HIDE DEF p, current
      <3> QED BY <1>1, <1>2, <1>4, <2>1, EarnedAtMost
    <2> QED BY <2>2
  <1>6. o \in Nat /\ l \in Nat /\ since \in Nat
    <2>1. o \in U64
      BY <1>2, <1>4 DEF PositionRecords
    <2> QED BY <1>1, <1>2, <1>4, <2>1, HeldTyped, SinceTyped, Unsigned
  <1>7. due = WORD * o + l * since
    BY <1>4 DEF Due
  <1>8. n \in Int /\ n * Scale <= stake /\ stake \in Nat
    <2> DEFINE v == Rate(k, p[id], pool.sqrt_price)
    <2>1. v \in Nat /\ stake = l * v
      BY <1>3, <1>4, RateTyped DEF Stake
    <2>2. l * v \in Nat /\ Scale \in Nat
      BY <1>6, <2>1, ProductNat, UnitTyped
    <2> DEFINE x == l * v
    <2>3. CASE l > 0 /\ withdrawn[k] # Err
      <3>1. -l \in Int /\ ~(-l > 0) /\ -(-l) = l
        BY <1>6
      <3>2. withdrawn[k] \in Nat /\ withdrawn[k] * Scale <= (-(-l)) * v
        <4> HIDE DEF l
        <4> QED BY <1>1, <1>3, <1>4, <2>3, <3>1, DeltasWorth
      <3>3. n = withdrawn[k]
        BY <2>3
      <3> HIDE DEF n, v, withdrawn, l
      <3>4. n * Scale <= l * v /\ n \in Nat
        BY <3>1, <3>2, <3>3
      <3> QED BY <2>1, <2>2, <3>4
    <2>4. CASE l > 0 /\ withdrawn[k] = Err
      <3>1. n = -1
        BY <2>4 DEF Err
      <3> HIDE DEF n, v, x
      <3>2. (-1) * Scale <= 0
        BY <2>2
      <3>3. 0 <= x
        BY <2>2 DEF x
      <3>4. (-1) * Scale \in Int /\ x \in Int
        BY <2>2 DEF x
      <3>5. (-1) * Scale <= x
        BY <3>2, <3>3, <3>4
      <3> QED BY <2>1, <2>2, <3>1, <3>5 DEF x
    <2>5. CASE ~(l > 0)
      <3>1. n = 0
        BY <2>5
      <3> HIDE DEF n, v
      <3>2. 0 * Scale = 0
        BY <2>2
      <3> QED BY <2>1, <2>2, <3>1, <3>2
    <2> QED BY <2>3, <2>4, <2>5
  <1>9. Claim(id, k) = o + e + n
    BY DEF Claim
  <1> HIDE DEF l, since, o, e, n, due, stake
  <1> DEFINE x == o + e
             y == x * Scale
             z == n * Scale
             w == Unit * due
  <1>10. due \in Nat /\ y <= w /\ y \in Int /\ w \in Int
    <2> DEFINE a == WORD * o
               b == WORD * e
               c == l * since
    <2>1. a \in Nat /\ b \in Nat /\ c \in Nat
      BY <1>2, <1>5, <1>6, ProductNat
    <2>2. x * WORD = a + b
      <3>1. (o + e) * WORD = o * WORD + e * WORD
        BY <1>2, <1>5, <1>6, Distributes
      <3>2. o * WORD = WORD * o /\ e * WORD = WORD * e
        BY <1>2, <1>5, <1>6, ProductTurned
      <3> QED BY <3>1, <3>2
    <2>3. due = a + c /\ b <= c
      BY <1>5, <1>7
    <2> HIDE DEF a, b, c
    <2>4. a + b <= due /\ due \in Nat /\ a + b \in Nat
      BY <2>1, <2>3
    <2>5. Unit \in Nat
      BY UnitTyped
    <2>6. (a + b) * Unit <= due * Unit
      BY <2>4, <2>5, ProductMonotone
    <2>7. due * Unit = w /\ w \in Int
      BY <2>4, <2>5, ProductTurned, ProductInt
    <2>8. (a + b) * Unit = y
      <3>1. x \in Int
        BY <1>5, <1>6
      <3> HIDE DEF x
      <3>2. \A f, g, h \in Int : (f * g) * h = f * (g * h)
        OBVIOUS
      <3>3. (x * WORD) * Unit = x * (WORD * Unit)
        BY <1>2, <2>5, <3>1, <3>2
      <3> QED BY <2>2, <3>3 DEF Scale
    <2>9. y \in Int
      <3>1. x \in Int /\ Scale \in Int
        BY <1>5, <1>6, UnitTyped
      <3> HIDE DEF x
      <3> QED BY <3>1, ProductInt
    <2> HIDE DEF x, y, w
    <2> QED BY <2>4, <2>6, <2>7, <2>8, <2>9
  <1>11. Claim(id, k) * Scale = y + z /\ z \in Int
    <2>1. x \in Int /\ Scale \in Int /\ n \in Int
      BY <1>5, <1>6, <1>8, UnitTyped
    <2> HIDE DEF x
    <2>2. (x + n) * Scale = x * Scale + n * Scale
      BY <2>1, Distributes
    <2>3. Claim(id, k) = x + n
      BY <1>9 DEF x
    <2> QED BY <2>1, <2>2, <2>3, ProductInt
  <1>12. Claim(id, k) \in Int
    BY <1>5, <1>6, <1>8, <1>9
  <1> HIDE DEF x, y, w, z
  <1>13. y + z <= w + stake
    BY <1>8, <1>10, <1>11 DEF z
  <1>14. Claim(id, k) * Scale <= w + stake
    BY <1>11, <1>13
  <1> QED BY <1>8, <1>10, <1>12, <1>14 DEF w, due, stake

\* All that the positions can take away is there, beside the protocol's share.
LEMMA VaultsCover ==
    ASSUME PoolInv, LiquidityInv, RewardInv, SolvencyInv, NEW k \in Tokens
    PROVE  /\ pool.protocol_fee_owed[k] + MapThenSumSet(LAMBDA id : Claim(id, k), Open) <= vault[k]
           /\ Stakes(positions, pool.sqrt_price, k) <= Scale * Supply
           /\ pool.protocol_fee_owed[k] \in Nat
  <1> DEFINE p == positions
             current == pool.tick_current_index
             d == DueTo(p, current, ticks, pool.growth, k)
             s == StakeOf(p, pool.sqrt_price, k)
             f == [id \in PositionIds |-> IF id \in Open THEN Claim(id, k) ELSE 0]
             g == [id \in PositionIds |-> f[id] * Scale]
             u == [id \in PositionIds |-> d[id] * Unit]
             h == [id \in PositionIds |-> u[id] + s[id]]
             sum == MapThenSumSet(LAMBDA id : Claim(id, k), Open)
  <1>1. /\ pool \in PoolRecords /\ ticks \in [Usable -> TickRecords] /\ p \in Accounts /\ Ordered(p)
        /\ PriceInTick(pool.sqrt_price, current) /\ vault \in [Kinds -> 0..Supply]
    BY DEF PoolInv, TypeOK, Accounts, LiquidityInv
  <1>2. /\ pool.growth \in [Kinds -> U128] /\ k \in Kinds
        /\ pool.sqrt_price \in U128 /\ pool.protocol_fee_owed[k] \in U64
    BY <1>1, KindSets DEF PoolRecords
  <1>3. pool.sqrt_price \in 1..U128MAX
    BY <1>1, <1>2, Unsigned, PriceWide
  <1>4. Unit \in Nat /\ Scale \in Nat \ {0} /\ Unit \in Int /\ Scale \in Int
    BY UnitTyped
  <1>5. ASSUME NEW id \in PositionIds
        PROVE  /\ f[id] \in Int /\ g[id] \in Int /\ d[id] \in Nat /\ s[id] \in Nat
               /\ u[id] \in Nat /\ h[id] \in Int /\ h[id] = u[id] + s[id] /\ g[id] <= h[id]
    <2>1. d[id] \in Nat /\ d[id] = Due(p, current, ticks, pool.growth, k, id)
      BY <1>1, <1>2, DueTyped DEF DueTo
    <2>2. s[id] \in Nat /\ s[id] = Stake(p, pool.sqrt_price, k, id)
      <3> HIDE DEF s
      <3>1. /\ Stake(p, pool.sqrt_price, k, id) \in Nat
            /\ StakeOf(p, pool.sqrt_price, k)[id] = Stake(p, pool.sqrt_price, k, id)
        <4> HIDE DEF p
        <4> QED BY <1>1, <1>3, StakeTyped
      <3> QED BY <3>1 DEF s
    <2> DEFINE e == d[id] * Unit
    <2>3. u[id] = e /\ h[id] = u[id] + s[id] /\ g[id] = f[id] * Scale
      OBVIOUS
    <2>4. e \in Nat /\ e = Unit * d[id]
      <3> HIDE DEF d
      <3> QED BY <1>4, <2>1, ProductNat, ProductTurned
    <2>5. f[id] \in Int /\ g[id] \in Int /\ g[id] <= e + s[id]
      <3>1. CASE id \in Open
        <4>1. f[id] = Claim(id, k)
          BY <3>1
        <4>2. Claim(id, k) \in Int /\ Claim(id, k) * Scale <= Unit * d[id] + s[id]
          <5> HIDE DEF d, s
          <5> QED BY <2>1, <2>2, <3>1, ClaimWorth DEF p, current
        <4> HIDE DEF d, s, f, g, e
        <4>3. Claim(id, k) * Scale \in Int
          BY <1>4, <4>2, ProductInt
        <4> QED BY <2>3, <2>4, <4>1, <4>2, <4>3
      <3>2. CASE id \notin Open
        <4>1. f[id] = 0
          BY <3>2
        <4>2. 0 * Scale = 0
          BY <1>4
        <4>3. g[id] = 0
          BY <2>3, <4>1, <4>2
        <4> HIDE DEF d, s, f, g, e
        <4> QED BY <2>2, <2>4, <4>1, <4>3
      <3> QED BY <3>1, <3>2
    <2> HIDE DEF d, s, f, g, e, u, h
    <2> QED BY <2>1, <2>2, <2>3, <2>4, <2>5
  <1>6. Open \in SUBSET PositionIds /\ IsFiniteSet(Open)
    BY PositionAssumption, FS_Subset DEF Open
  <1>7. sum = Total(f, Open)
    <2>1. \A x \in Open : f[x] = Claim(x, k)
      BY <1>6
    <2> HIDE DEF f
    <2> QED BY <1>6, <2>1, TokenClaimsTotal
  <1>8. /\ \A x \in PositionIds \ Open : f[x] = 0
        /\ \A x \in PositionIds : g[x] = f[x] * Scale /\ u[x] = d[x] * Unit
    OBVIOUS
  <1>9. /\ WorthNow(k) = Unit * Total(d, PositionIds) + Total(s, PositionIds)
        /\ Total(s, PositionIds) = Stakes(p, pool.sqrt_price, k)
    BY DEF WorthNow, Worth, Dues, Stakes
  <1> HIDE DEF f, g, d, s, u, h, sum
  <1>10. Total(f, PositionIds) = sum /\ Total(f, PositionIds) \in Int
    BY <1>5, <1>6, <1>7, <1>8, PositionAssumption, TotalPart, TotalTyped
  <1>11. Total(g, PositionIds) = Total(f, PositionIds) * Scale
    BY <1>4, <1>5, <1>8, PositionAssumption, TotalScales
  <1>12. Total(u, PositionIds) = Total(d, PositionIds) * Unit
    <2>1. \A x \in PositionIds : d[x] \in Int /\ u[x] = d[x] * Unit
      BY <1>5, <1>8
    <2> QED BY <1>4, <2>1, PositionAssumption, TotalScales
  <1>13. Total(h, PositionIds) = Total(u, PositionIds) + Total(s, PositionIds)
    <2>1. \A x \in PositionIds : u[x] \in Int /\ s[x] \in Int /\ h[x] = u[x] + s[x]
      BY <1>5
    <2> QED BY <2>1, PositionAssumption, TotalAdds
  <1>14. Total(g, PositionIds) <= Total(h, PositionIds)
    BY <1>5, PositionAssumption, TotalBelow
  <1>15. /\ Total(d, PositionIds) \in Nat /\ Total(s, PositionIds) \in Nat
         /\ Total(u, PositionIds) \in Nat
    BY <1>5, PositionAssumption, TotalNat
  <1> DEFINE a == Total(d, PositionIds)
             b == Total(s, PositionIds)
             c == Total(u, PositionIds)
             w == WorthNow(k)
             r == Reserve(k)
             y == sum * Scale
             z == r * Scale
  <1>16. w = c + b /\ y <= w /\ y \in Int /\ w \in Int /\ z \in Int /\ w <= z /\ r \in Int
    <2>1. a * Unit = Unit * a
      BY <1>4, <1>15, ProductTurned
    <2>2. w = c + b
      BY <1>9, <1>12, <2>1
    <2>3. r \in Int /\ w <= Scale * r
      BY SolventNow DEF SolventTypes, SolvencyInv
    <2> HIDE DEF a, b, c, w, r, y
    <2>4. z \in Int /\ Scale * r = z /\ y \in Int
      BY <1>4, <1>10, <2>3, ProductInt, ProductTurned DEF y
    <2>5. y <= w
      BY <1>10, <1>11, <1>13, <1>14, <2>2 DEF y, b, c
    <2> QED BY <1>15, <2>2, <2>3, <2>4, <2>5 DEF b, c
  <1>17. sum <= r
    <2> HIDE DEF w, r, y, z
    <2>1. y <= z
      BY <1>16
    <2>2. sum * Scale <= r * Scale
      BY <2>1 DEF y, z
    <2> QED BY <1>4, <1>10, <1>16, <2>2, ProductOrder
  <1>18. pool.protocol_fee_owed[k] \in Nat /\ vault[k] \in Nat /\ vault[k] <= Supply /\ Supply \in Nat
    <2>1. vault[k] \in 0..Supply /\ Supply \in Nat
      BY <1>1, <1>2, KindSets
    <2> QED BY <1>2, <2>1, Unsigned
  <1>19. pool.protocol_fee_owed[k] + sum <= vault[k]
    BY <1>10, <1>17, <1>18 DEF Reserve
  <1>20. b <= Scale * Supply
    <2>1. b <= w
      <3> HIDE DEF a, b, c, w, r, y, z
      <3>1. c \in Nat /\ b \in Nat
        BY <1>15 DEF b, c
      <3> QED BY <1>16, <3>1
    <2>2. r <= Supply
      BY <1>18 DEF Reserve
    <2>3. r * Scale <= Supply * Scale
      <3> HIDE DEF r
      <3> QED BY <1>4, <1>16, <1>18, <2>2, ProductMonotone
    <2>4. Supply * Scale = Scale * Supply /\ Supply * Scale \in Int /\ b \in Int
      BY <1>4, <1>15, <1>18, ProductTurned, ProductInt
    <2> DEFINE v == Supply * Scale
    <2> HIDE DEF a, b, c, w, r, y, z, v
    <2>5. z <= v /\ v \in Int
      BY <2>3, <2>4 DEF z, v
    <2>6. b <= v
      BY <1>16, <2>1, <2>4, <2>5
    <2> QED BY <2>4, <2>6 DEF v
  <1> QED BY <1>9, <1>18, <1>19, <1>20 DEF sum

-----------------------------------------------------------------------------
(* Liquidity that the supply of a token can pay for. *)

\* L units of liquidity that are worth at most n tokens.
LEMMA Unscaled ==
    ASSUME NEW S \in Nat \ {0}, NEW g \in Int, NEW h \in Int, NEW d \in Nat, NEW L \in Nat,
           NEW n \in Int, h * d = S * g, L * h <= S * n
    PROVE  L * g <= n * d
  <1>1. (L * h) * d = (L * g) * S
    <2>1. \A a, b, c \in Int : (a * b) * c = a * (b * c)
      OBVIOUS
    <2>2. (L * h) * d = L * (S * g)
      BY <2>1
    <2>3. \A a, b, c \in Int : a * (b * c) = (a * c) * b
      OBVIOUS
    <2> QED BY <2>2, <2>3
  <1>2. (S * n) * d = (n * d) * S
    <2>1. \A a, b, c \in Int : (a * b) * c = (b * c) * a
      OBVIOUS
    <2> QED BY <2>1
  <1> DEFINE x == L * h
             y == S * n
             v == L * g
             w == n * d
  <1>3. x \in Int /\ y \in Int /\ v \in Int /\ w \in Int /\ x <= y
    BY ProductInt
  <1> HIDE DEF x, y, v, w
  <1>4. x * d <= y * d
    BY <1>3, ProductMonotone
  <1>5. x * d = v * S /\ y * d = w * S
    BY <1>1, <1>2 DEF x, y, v, w
  <1>6. v * S <= w * S
    BY <1>4, <1>5
  <1>7. v <= w
    BY <1>3, <1>6, ProductOrder
  <1> QED BY <1>7 DEF v, w

\* A range that holds tick t is worth no less than the prices from t to t + 1.
LEMMA RangeWorth ==
    ASSUME NEW position \in PositionRecords, NEW t \in MIN_TICK_INDEX..MAX_TICK_INDEX - 1,
           position.tick_lower_index <= t, t < position.tick_upper_index,
           NEW price \in 1..U128MAX,
           NEW c, c = Clamp(price, SqrtPrice[t], SqrtPrice[t + 1])
    PROVE  /\ Value("a", c) - Value("a", SqrtPrice[t + 1]) <= Rate("a", position, price)
           /\ Value("b", c) - Value("b", SqrtPrice[t]) <= Rate("b", position, price)
  <1> DEFINE lo == SqrtPrice[t]
             hi == SqrtPrice[t + 1]
             L == LowPrice(position)
             H == HighPrice(position)
             e == Clamp(price, L, H)
  <1>1. t \in MIN_TICK_INDEX..MAX_TICK_INDEX /\ t + 1 \in MIN_TICK_INDEX..MAX_TICK_INDEX /\ t < t + 1
        /\ t \in Int
    BY TickIndexAssumption
  <1>2. /\ position.tick_lower_index \in MIN_TICK_INDEX..MAX_TICK_INDEX
        /\ position.tick_upper_index \in MIN_TICK_INDEX..MAX_TICK_INDEX
        /\ L \in 1..U128MAX /\ H \in 1..U128MAX
    BY RangePrices
  <1>3. t + 1 <= position.tick_upper_index
    BY <1>1, <1>2, TickIndexAssumption
  <1>4. lo \in 1..U128MAX /\ hi \in 1..U128MAX /\ lo < hi
    BY <1>1, TickPrices, TickPriceAssumption
  <1>5. L <= lo
    <2>1. CASE position.tick_lower_index = t
      BY <1>4, <2>1 DEF LowPrice
    <2>2. CASE position.tick_lower_index < t
      BY <1>1, <1>2, <1>4, <2>2, TickPriceAssumption DEF LowPrice
    <2> QED BY <1>1, <1>2, <2>1, <2>2, TickIndexAssumption
  <1>6. hi <= H
    <2>1. CASE position.tick_upper_index = t + 1
      BY <1>4, <2>1 DEF HighPrice
    <2>2. CASE t + 1 < position.tick_upper_index
      BY <1>1, <1>2, <1>4, <2>2, TickPriceAssumption DEF HighPrice
    <2> QED BY <1>1, <1>2, <1>3, <2>1, <2>2, TickIndexAssumption
  <1>7. /\ Rate("a", position, price) = Value("a", e) - Value("a", H)
        /\ Rate("b", position, price) = Value("b", e) - Value("b", L)
    BY DEF Rate
  <1> HIDE DEF lo, hi, L, H, e
  <1>8. c \in 1..U128MAX /\ e \in 1..U128MAX /\ lo <= c /\ c <= hi /\ L <= e /\ e <= H
    <2>1. c = Clamp(price, lo, hi) /\ e = Clamp(price, L, H)
      BY DEF lo, hi, e
    <2> QED BY <1>2, <1>4, <1>5, <1>6, <2>1 DEF Clamp
  <1>9. \A x \in {c, e, lo, hi, L, H} : x \in 1..U128MAX /\ Value("a", x) \in Int /\ Value("b", x) \in Int
    <2>1. \A x \in 1..U128MAX : Value("a", x) \in Int /\ Value("b", x) \in Int
      BY ValueTyped
    <2> QED BY <1>2, <1>4, <1>8, <2>1
  <1>10. \A x, y \in {c, e, lo, hi, L, H} :
             x <= y => Value("b", x) <= Value("b", y) /\ Value("a", y) <= Value("a", x)
    BY <1>9, ValueOrder
  <1>11. Value("a", c) - Value("a", hi) <= Value("a", e) - Value("a", H)
    <2>1. CASE e <= c
      <3>1. Value("a", c) <= Value("a", e) /\ Value("a", H) <= Value("a", hi)
        BY <1>6, <1>10, <2>1
      <3> QED BY <1>9, <3>1
    <2>2. CASE c < e
      <3>1. c = hi
        <4>1. c = Clamp(price, lo, hi) /\ e = Clamp(price, L, H)
          BY DEF lo, hi, e
        <4> QED BY <1>2, <1>4, <1>5, <1>6, <2>2, <4>1 DEF Clamp
      <3>2. Value("a", H) <= Value("a", e)
        BY <1>8, <1>10
      <3> QED BY <1>9, <3>1, <3>2
    <2> QED BY <1>8, <2>1, <2>2
  <1>12. Value("b", c) - Value("b", lo) <= Value("b", e) - Value("b", L)
    <2>1. CASE c <= e
      <3>1. Value("b", c) <= Value("b", e) /\ Value("b", L) <= Value("b", lo)
        BY <1>5, <1>10, <2>1
      <3> QED BY <1>9, <3>1
    <2>2. CASE e < c
      <3>1. c = lo
        <4>1. c = Clamp(price, lo, hi) /\ e = Clamp(price, L, H)
          BY DEF lo, hi, e
        <4> QED BY <1>2, <1>4, <1>5, <1>6, <2>2, <4>1 DEF Clamp
      <3>2. Value("b", L) <= Value("b", e)
        BY <1>8, <1>10
      <3> QED BY <1>9, <3>1, <3>2
    <2> QED BY <1>8, <2>1, <2>2
  <1> QED BY <1>7, <1>11, <1>12 DEF lo, hi

\* What a unit of liquidity is worth in all positions that hold tick t.
LEMMA RangesWorth ==
    ASSUME NEW p \in Accounts, Ordered(p), NEW price \in 1..U128MAX, NEW k \in Tokens, NEW r \in Int,
           NEW A \in SUBSET Held(p), \A id \in A : r <= Rate(k, p[id], price)
    PROVE  LiquidityIn(p, A) \in Nat /\ LiquidityIn(p, A) * r <= Stakes(p, price, k)
  <1> DEFINE f == Shares(p, A)
             g == [id \in PositionIds |-> f[id] * r]
             s == StakeOf(p, price, k)
  <1>1. ASSUME NEW id \in PositionIds
        PROVE  f[id] \in Nat /\ f[id] \in Int /\ s[id] \in Int /\ g[id] \in Int /\ g[id] = f[id] * r
               /\ g[id] <= s[id]
    <2>1. f[id] = Share(p, A, id) /\ g[id] = f[id] * r
      BY DEF Shares
    <2>2. s[id] = Stake(p, price, k, id) /\ s[id] \in Nat
      BY StakeTyped
    <2> HIDE DEF f, g, s
    <2>3. CASE id \in A
      <3> DEFINE l == p[id].liquidity
                 v == Rate(k, p[id], price)
      <3>1. l \in Nat /\ p[id] \in PositionRecords /\ id \in Held(p)
        BY <2>3, HeldTyped DEF Held, Accounts
      <3>2. v \in Nat /\ r <= v
        <4>1. p[id].tick_lower_index < p[id].tick_upper_index
          BY <3>1 DEF Ordered
        <4> QED BY <2>3, <3>1, <4>1, RateTyped
      <3>3. f[id] = l /\ s[id] = l * v
        BY <2>1, <2>2, <2>3, <3>1 DEF Share, Stake
      <3> HIDE DEF l, v
      <3>4. l * r <= l * v /\ l * r \in Int
        <4>1. r * l <= v * l
          BY <3>1, <3>2, ProductMonotone
        <4>2. r * l = l * r /\ v * l = l * v
          BY <3>1, <3>2, ProductTurned
        <4> QED BY <3>1, <4>1, <4>2, ProductInt
      <3> QED BY <2>1, <2>2, <3>1, <3>3, <3>4
    <2>4. CASE id \notin A
      <3>1. f[id] = 0
        BY <2>1, <2>4 DEF Share
      <3>2. 0 * r = 0
        OBVIOUS
      <3> QED BY <2>1, <2>2, <3>1, <3>2
    <2> QED BY <2>3, <2>4
  <1>2. LiquidityIn(p, A) = Total(f, PositionIds)
    BY LiquidityTotal
  <1> HIDE DEF f, g, s
  <1>3. Total(f, PositionIds) \in Nat
    BY <1>1, PositionAssumption, TotalNat
  <1>4. Total(g, PositionIds) = Total(f, PositionIds) * r
    BY <1>1, PositionAssumption, TotalScales
  <1>5. Total(g, PositionIds) <= Total(s, PositionIds)
    BY <1>1, PositionAssumption, TotalBelow
  <1> QED BY <1>2, <1>3, <1>4, <1>5 DEF Stakes, s

\* Liquidity that may be within one tick is an i128.
LEMMA NarrowLiquidity ==
    ASSUME NEW p \in Accounts, Ordered(p), NEW price \in 1..U128MAX,
           \A k \in Tokens : Stakes(p, price, k) <= Scale * Supply,
           NEW t \in MIN_TICK_INDEX..MAX_TICK_INDEX - 1,
           NEW A \in SUBSET Held(p), A \subseteq InRange(p, t)
    PROVE  LiquidityIn(p, A) \in Nat /\ LiquidityIn(p, A) <= I128MAX
  <1> DEFINE lo == SqrtPrice[t]
             hi == SqrtPrice[t + 1]
             c == Clamp(price, lo, hi)
             T == LiquidityIn(p, A)
             r(k) == Value(k, c) - Value(k, IF k = "a" THEN hi ELSE lo)
  <1>1. t \in MIN_TICK_INDEX..MAX_TICK_INDEX /\ t + 1 \in MIN_TICK_INDEX..MAX_TICK_INDEX /\ t < t + 1
    BY TickIndexAssumption
  <1>2. lo \in 1..U128MAX /\ hi \in 1..U128MAX /\ lo < hi
    BY <1>1, TickPrices, TickPriceAssumption
  <1>3. c \in 1..U128MAX /\ c \in lo..hi
    <2> HIDE DEF lo, hi
    <2> QED BY <1>2 DEF Clamp
  <1>4. ASSUME NEW k \in Tokens, NEW id \in A PROVE r(k) <= Rate(k, p[id], price)
    <2>1. /\ p[id] \in PositionRecords /\ p[id].tick_lower_index <= t
          /\ t < p[id].tick_upper_index
      BY DEF InRange, Held, Accounts
    <2>2. /\ r("a") <= Rate("a", p[id], price) /\ r("b") <= Rate("b", p[id], price)
      BY <2>1, RangeWorth
    <2> QED BY <2>2 DEF Tokens
  <1>5. ASSUME NEW k \in Tokens PROVE r(k) \in Int
    <2> HIDE DEF lo, hi, c
    <2>1. \A x \in {lo, hi, c} : Value(k, x) \in Nat
      BY <1>2, <1>3, ValueTyped
    <2> QED BY <2>1
  <1>6. ASSUME NEW k \in Tokens PROVE T \in Nat /\ T * r(k) <= Scale * Supply
    <2> DEFINE x == r(k)
               y == Stakes(p, price, k)
               z == T * x
               w == Scale * Supply
    <2>1. x \in Int /\ \A id \in A : x <= Rate(k, p[id], price)
      BY <1>4, <1>5
    <2> HIDE DEF x
    <2>2. T \in Nat /\ z <= y /\ y <= w
      BY <2>1, RangesWorth
    <2>3. y \in Nat /\ z \in Int /\ w \in Int
      <3>1. Scale \in Int /\ Supply \in Int
        BY UnitTyped, PoolAssumption, Unsigned
      <3> QED BY <2>1, <2>2, <3>1, StakesTyped, ProductInt
    <2> HIDE DEF y, z, w
    <2>4. z <= w
      BY <2>2, <2>3
    <2> QED BY <2>2, <2>4 DEF x, z, w
  <1>7. /\ WORD \in Nat \ {0} /\ Scale \in Nat \ {0} /\ Supply \in Nat /\ I128MAX \in Nat
        /\ c \in Nat \ {0} /\ hi \in Nat \ {0} /\ lo \in Nat /\ T \in Nat
    <2>1. "a" \in Tokens
      BY DEF Tokens
    <2> HIDE DEF T, c, lo, hi
    <2>2. T \in Nat
      BY <1>6, <2>1
    <2>3. \A x \in 1..U128MAX : x \in Nat \ {0}
      BY Widths
    <2> QED BY <1>2, <1>3, <2>2, <2>3, UnitTyped, PoolAssumption, Unsigned, Widths
  <1>8. T * (c - lo) <= Supply * WORD
    <2>1. r("b") * WORD = Scale * (c - lo)
      BY <1>2, <1>3, ValueOfB
    <2>2. T * r("b") <= Scale * Supply /\ r("b") \in Int
      BY <1>5, <1>6 DEF Tokens
    <2> DEFINE h == r("b")
               g == c - lo
    <2>3. h * WORD = Scale * g /\ T * h <= Scale * Supply /\ h \in Int
      BY <2>1, <2>2
    <2> HIDE DEF c, lo, T, h
    <2>4. g \in Int
      BY <1>7
    <2> HIDE DEF g
    <2>5. T * g <= Supply * WORD
      BY <1>7, <2>3, <2>4, Unscaled
    <2> QED BY <2>5 DEF g
  <1>9. T * ((hi - c) * WORD) <= Supply * (c * hi)
    <2>1. r("a") * (c * hi) = Scale * ((hi - c) * WORD)
      BY <1>2, <1>3, ValueOfA
    <2>2. T * r("a") <= Scale * Supply /\ r("a") \in Int
      BY <1>5, <1>6 DEF Tokens
    <2> DEFINE h == r("a")
               g == (hi - c) * WORD
               d == c * hi
    <2>3. h * d = Scale * g /\ T * h <= Scale * Supply /\ h \in Int
      BY <2>1, <2>2
    <2> HIDE DEF c, hi, T, h
    <2>4. g \in Int /\ d \in Nat
      BY <1>7, ProductInt, ProductNat
    <2> HIDE DEF g, d
    <2>5. T * g <= Supply * d
      BY <1>7, <2>3, <2>4, Unscaled
    <2> QED BY <2>5 DEF g, d
  <1>10. \/ (I128MAX + 1) * (c - lo) > Supply * WORD
         \/ (I128MAX + 1) * ((hi - c) * WORD) > Supply * (c * hi)
    BY <1>3, SupplyAssumption
  <1>11. c - lo \in Nat /\ (hi - c) * WORD \in Nat
    <2> HIDE DEF c, lo, hi
    <2>1. c - lo \in Nat /\ hi - c \in Nat
      BY <1>3, <1>7
    <2> QED BY <1>7, <2>1, ProductNat
  <1>12. ~(I128MAX + 1 <= T)
    <2> SUFFICES ASSUME I128MAX + 1 <= T PROVE FALSE
      OBVIOUS
    <2> DEFINE n == I128MAX + 1
               g == c - lo
               e == (hi - c) * WORD
               x == Supply * WORD
               y == Supply * (c * hi)
    <2>1. n \in Nat /\ T \in Nat /\ n <= T
      <3> HIDE DEF T
      <3> QED BY <1>7
    <2>2. g \in Nat /\ e \in Nat
      BY <1>11
    <2>3. x \in Int /\ y \in Int
      <3> HIDE DEF c, hi
      <3>1. c * hi \in Int
        BY <1>7, ProductInt
      <3> QED BY <1>7, <3>1, ProductInt
    <2>4. T * g <= x /\ T * e <= y /\ (n * g > x \/ n * e > y)
      BY <1>8, <1>9, <1>10
    <2> HIDE DEF T, n, g, e, x, y
    <2>5. n * g <= T * g /\ n * e <= T * e
      BY <2>1, <2>2, ProductMonotone
    <2>6. n * g \in Int /\ n * e \in Int /\ T * g \in Int /\ T * e \in Int
      BY <2>1, <2>2, ProductInt
    <2> DEFINE ng == n * g
               ne == n * e
               tg == T * g
               te == T * e
    <2>7. /\ ng \in Int /\ ne \in Int /\ tg \in Int /\ te \in Int
          /\ ng <= tg /\ ne <= te /\ tg <= x /\ te <= y /\ (ng > x \/ ne > y)
      BY <2>4, <2>5, <2>6
    <2> HIDE DEF ng, ne, tg, te
    <2> QED BY <2>3, <2>7
  <1> HIDE DEF T
  <1>13. T <= I128MAX
    BY <1>7, <1>12
  <1> QED BY <1>7, <1>13 DEF T

\* A numerator of get_amount_delta_a within the supply fits its width.
LEMMA SupplyWide ==
    ASSUME NEW d \in Nat, d <= MAX_SQRT_PRICE_X64 * MAX_SQRT_PRICE_X64
    PROVE  Supply * d <= U256MAX /\ Supply * WORD <= U128MAX
  <1> DEFINE w == WORD
             c == w * w * w
             s == Supply
  <1>1. w \in Nat \ {0} /\ s \in Nat /\ s <= w - 1 /\ U128MAX = w * w - 1
    BY PoolAssumption, Unsigned, Widths DEF U64MAX, U128MAX
  <1>2. c \in Nat \ {0} /\ w * w \in Nat
    BY <1>1, ProductPositive, ProductNat
  <1>3. d <= c
    <2>1. MAX_SQRT_PRICE_X64 \in Int
      BY TickIndexAssumption, TickPrices DEF MAX_SQRT_PRICE_X64
    <2> DEFINE m == MAX_SQRT_PRICE_X64 * MAX_SQRT_PRICE_X64
    <2>2. m \in Int /\ m <= c /\ d <= m
      BY <2>1, PriceWidthAssumption, ProductInt DEF MAX_SQRT_PRICE_X64
    <2> HIDE DEF m, c
    <2> QED BY <1>2, <2>2
  <1>4. U256MAX = c * w - 1
    BY DEF U256MAX
  <1> HIDE DEF w, c, s
  <1>5. s * d <= U256MAX
    <2>1. s * d <= s * c /\ s * c <= (w - 1) * c
      <3>1. d * s <= c * s
        BY <1>1, <1>2, <1>3, ProductMonotone
      <3>2. d * s = s * d /\ c * s = s * c
        BY <1>1, <1>2, ProductTurned
      <3>3. w - 1 \in Int
        BY <1>1
      <3>4. s * c <= (w - 1) * c
        BY <1>1, <1>2, <3>3, ProductMonotone
      <3> QED BY <3>1, <3>2, <3>4
    <2>2. (w - 1) * c = c * w - c
      BY <1>1, <1>2
    <2> DEFINE x == s * d
               y == s * c
               z == c * w
    <2>3. x \in Int /\ y \in Int /\ z \in Int
      BY <1>1, <1>2, ProductInt
    <2>4. x <= y /\ y <= z - c /\ U256MAX = z - 1
      BY <1>4, <2>1, <2>2
    <2> HIDE DEF x, y, z
    <2>5. x <= U256MAX
      BY <1>2, <2>3, <2>4
    <2> QED BY <2>5 DEF x
  <1>6. s * w <= U128MAX
    <2>1. s * w <= (w - 1) * w
      <3>1. w - 1 \in Int
        BY <1>1
      <3> QED BY <1>1, <3>1, ProductMonotone
    <2>2. (w - 1) * w = w * w - w
      BY <1>1
    <2> DEFINE x == s * w
               z == w * w
    <2>3. x \in Int /\ z \in Int /\ x <= z - w /\ U128MAX = z - 1
      BY <1>1, <2>1, <2>2, ProductInt
    <2> HIDE DEF x, z
    <2>4. x <= U128MAX
      BY <1>1, <2>3
    <2> QED BY <2>4 DEF x
  <1> QED BY <1>5, <1>6 DEF s, w

\* A quotient that is at most the supply is a u64.
LEMMA SupplyNarrow ==
    ASSUME NEW n \in Nat, NEW d \in Nat \ {0}, n <= Supply * d
    PROVE  Checked(DivRound(n, d, FALSE), U64MAX) # Err
  <1> DEFINE x == DivRound(n, d, FALSE)
             s == Supply
  <1>1. s \in Nat /\ s \in Int /\ s <= U64MAX /\ U64MAX \in Nat /\ n <= s * d
    BY PoolAssumption, Unsigned, Widths
  <1> HIDE DEF s, x
  <1>2. x \in Nat /\ x <= s
    BY <1>1, Rounding DEF x
  <1>3. Checked(x, U64MAX) # Err
    BY <1>1, <1>2 DEF Checked, Err
  <1> QED BY <1>3 DEF x

\* Nothing overflows in what is paid out for liquidity that the supply covers.
LEMMA AmountSucceeds ==
    ASSUME NEW p \in 1..U128MAX, NEW q \in 1..U128MAX, p <= q, q <= MAX_SQRT_PRICE_X64,
           NEW L \in Nat, NEW k \in Tokens,
           NEW v, v = IF k = "a" THEN Value(k, p) - Value(k, q) ELSE Value(k, q) - Value(k, p),
           L * v <= Scale * Supply
    PROVE  (IF k = "a" THEN get_amount_delta_a(p, q, L, FALSE)
                       ELSE get_amount_delta_b(p, q, L, FALSE)) # Err
  <1> DEFINE g == q - p
  <1>1. /\ p \in Nat \ {0} /\ q \in Nat \ {0} /\ g \in Nat /\ PriceGap(p, q) = g
        /\ WORD \in Nat \ {0} /\ Scale \in Nat \ {0} /\ Supply \in Nat /\ Supply <= U64MAX
        /\ U64MAX \in Nat
    BY Widths, UnitTyped, PoolAssumption, Unsigned DEF PriceGap
  <1>2. v \in Int
    <2>1. \A x \in {p, q} : Value(k, x) \in Nat
      BY ValueTyped
    <2> QED BY <2>1
  <1> HIDE DEF g
  <1>3. ASSUME NEW n \in Nat, NEW d \in Nat \ {0}, n <= Supply * d
        PROVE  Checked(DivRound(n, d, FALSE), U64MAX) # Err
    BY <1>3, SupplyNarrow
  <1>4. CASE k = "a"
    <2> DEFINE h == g * WORD
               d == p * q
               n == L * g * WORD
    <2>1. v * d = Scale * h
      BY <1>4, ValueOfA DEF g
    <2>2. h \in Int /\ d \in Nat \ {0} /\ n \in Nat
      <3>1. L * g \in Nat
        BY <1>1, ProductNat
      <3> QED BY <1>1, <3>1, ProductNat, ProductInt, ProductPositive
    <2>3. n = L * h
      BY <1>1
    <2>4. d <= MAX_SQRT_PRICE_X64 * MAX_SQRT_PRICE_X64
      <3> DEFINE m == MAX_SQRT_PRICE_X64
      <3>1. m \in Nat
        BY TickIndexAssumption, TickPrices DEF MAX_SQRT_PRICE_X64
      <3>2. p <= m
        BY <1>1, <3>1
      <3> HIDE DEF m
      <3>3. p * q <= m * q /\ q * m <= m * m /\ m * q = q * m
        BY <1>1, <3>1, <3>2, ProductMonotone, ProductTurned DEF m
      <3>4. m * q \in Int /\ q * m \in Int /\ m * m \in Int
        BY <1>1, <3>1, ProductInt
      <3> DEFINE x == m * q
                 y == m * m
      <3>5. d <= x /\ x <= y /\ x \in Int /\ y \in Int
        BY <3>3, <3>4
      <3> HIDE DEF x, y, d
      <3>6. d <= y
        BY <2>2, <3>5
      <3> QED BY <3>6 DEF y, m
    <2> DEFINE e == get_amount_delta_a(p, q, L, FALSE)
    <2>5. e = IF n > U256MAX \/ d = 0 THEN Err ELSE Checked(DivRound(n, d, FALSE), U64MAX)
      BY <1>1 DEF get_amount_delta_a
    <2> HIDE DEF h, d, n, e
    <2>6. n <= Supply * d
      BY <1>1, <1>2, <2>1, <2>2, <2>3, Unscaled
    <2>7. n <= U256MAX
      <3> DEFINE x == Supply * d
      <3>1. x \in Int /\ n <= x /\ x <= U256MAX
        BY <1>1, <2>2, <2>4, <2>6, SupplyWide, ProductInt
      <3>2. U256MAX \in Int
        BY Widths, ProductInt DEF U256MAX
      <3> HIDE DEF x
      <3> QED BY <2>2, <3>1, <3>2
    <2>8. ~(n > U256MAX) /\ d # 0
      <3>1. U256MAX \in Int
        BY Widths, ProductInt DEF U256MAX
      <3> QED BY <2>2, <2>7, <3>1
    <2>9. e # Err
      BY <1>3, <2>2, <2>5, <2>6, <2>8
    <2> QED BY <1>4, <2>9 DEF e
  <1>5. CASE k = "b"
    <2> DEFINE n == L * g
               e == get_amount_delta_b(p, q, L, FALSE)
    <2>1. v * WORD = Scale * g
      BY <1>5, ValueOfB DEF g
    <2>2. n \in Nat
      BY <1>1, ProductNat
    <2>3. e = IF n > U128MAX THEN Err ELSE Checked(DivRound(n, WORD, FALSE), U64MAX)
      BY <1>1 DEF get_amount_delta_b, checked_mul_shift_right_round_up_if
    <2>4. n <= Supply * WORD
      BY <1>1, <1>2, <2>1, Unscaled
    <2> HIDE DEF n, e
    <2>5. ~(n > U128MAX)
      <3> DEFINE x == Supply * WORD
      <3>1. x \in Int /\ n <= x /\ x <= U128MAX
        <4>1. MAX_SQRT_PRICE_X64 \in Nat
          BY TickIndexAssumption, TickPrices DEF MAX_SQRT_PRICE_X64
        <4>2. 0 \in Nat /\ 0 <= MAX_SQRT_PRICE_X64 * MAX_SQRT_PRICE_X64
          BY <4>1, ProductNat
        <4> QED BY <1>1, <2>4, <4>2, SupplyWide, ProductInt
      <3>2. U128MAX \in Int
        BY Widths
      <3> HIDE DEF x
      <3> QED BY <2>2, <3>1, <3>2
    <2>6. e # Err
      BY <1>1, <1>3, <2>2, <2>3, <2>4, <2>5
    <2> QED BY <1>5, <2>6 DEF e
  <1> QED BY <1>4, <1>5 DEF Tokens

\* The amounts for all of a position's liquidity.
LEMMA DeltasSucceed ==
    ASSUME NEW p \in PoolRecords, p.sqrt_price \in 1..U128MAX,
           PriceInTick(p.sqrt_price, p.tick_current_index),
           p.sqrt_price <= MAX_SQRT_PRICE_X64, NEW position \in PositionRecords,
           position.tick_lower_index < position.tick_upper_index,
           NEW d, d = calculate_liquidity_token_deltas(p, position, -position.liquidity),
           NEW k \in Tokens,
           position.liquidity * Rate(k, position, p.sqrt_price) <= Scale * Supply
    PROVE  d[k] # Err
  <1> DEFINE L == position.liquidity
             v == Rate(k, position, p.sqrt_price)
             n == d[k]
  <1>1. L \in Nat /\ -L \in Int
    <2>1. L \in Nat
      BY Unsigned DEF PositionRecords
    <2> HIDE DEF L
    <2> QED BY <2>1
  <1>2. L = (IF -L > 0 THEN -L ELSE -(-L)) /\ FALSE = (-L > 0)
    <2> HIDE DEF L
    <2> QED BY <1>1
  <1>3. \/ n = 0
        \/ \E x, y \in PricesOf(p, position) :
             x <= y /\ n = AmountOf(k, x, y, L, FALSE) /\ v = ValueOf(k, x, y)
    <2> DEFINE delta == -L
               up == delta > 0
    <2>1. /\ delta \in Int /\ L = (IF delta > 0 THEN delta ELSE -delta) /\ up = (delta > 0)
          /\ d = calculate_liquidity_token_deltas(p, position, delta) /\ up = FALSE
      BY <1>1, <1>2
    <2> HIDE DEF delta, L, up
    <2>2. \/ n = 0 /\ v = 0
          \/ \E x, y \in PricesOf(p, position) :
               x <= y /\ n = AmountOf(k, x, y, L, up) /\ v = ValueOf(k, x, y)
      BY <2>1, DeltasBetween
    <2> QED BY <2>1, <2>2
  <1>4. \A x \in PricesOf(p, position) : x \in 1..U128MAX /\ x <= MAX_SQRT_PRICE_X64
    <2>1. LowPrice(position) <= MAX_SQRT_PRICE_X64 /\ HighPrice(position) <= MAX_SQRT_PRICE_X64
      <3>1. /\ LowPrice(position) \in MIN_SQRT_PRICE_X64..MAX_SQRT_PRICE_X64
            /\ HighPrice(position) \in MIN_SQRT_PRICE_X64..MAX_SQRT_PRICE_X64
        BY RangePrices, TickPrices DEF LowPrice, HighPrice
      <3> QED BY <3>1
    <2> QED BY <2>1, RangePrices DEF PricesOf
  <1>5. L * v <= Scale * Supply
    OBVIOUS
  <1> HIDE DEF L, v, n
  <1>6. CASE n = 0
    BY <1>6 DEF Err, n
  <1>7. CASE \E x, y \in PricesOf(p, position) :
               x <= y /\ n = AmountOf(k, x, y, L, FALSE) /\ v = ValueOf(k, x, y)
    <2>1. PICK x \in PricesOf(p, position), y \in PricesOf(p, position) :
              x <= y /\ n = AmountOf(k, x, y, L, FALSE) /\ v = ValueOf(k, x, y)
      BY <1>7
    <2>2. n # Err
      BY <1>1, <1>4, <1>5, <2>1, AmountSucceeds DEF AmountOf, ValueOf
    <2> QED BY <2>2 DEF n
  <1> QED BY <1>3, <1>6, <1>7

-----------------------------------------------------------------------------
(* The ends of a range. *)

\* The liquidity that starts at a tick, and that which ends there, is an i128.
LEMMA EndsNarrow ==
    ASSUME NEW p \in Accounts, Ordered(p), NEW price \in 1..U128MAX,
           \A k \in Tokens : Stakes(p, price, k) <= Scale * Supply,
           NEW t \in MIN_TICK_INDEX..MAX_TICK_INDEX
    PROVE  /\ LiquidityIn(p, From(p, t)) \in 0..I128MAX
           /\ LiquidityIn(p, UpTo(p, t)) \in 0..I128MAX
  <1>1. I128MAX \in Nat /\ t \in Int
    BY Widths, TickIndexAssumption
  <1>2. ASSUME NEW id \in Held(p)
        PROVE  /\ p[id].tick_lower_index \in MIN_TICK_INDEX..MAX_TICK_INDEX
               /\ p[id].tick_upper_index \in MIN_TICK_INDEX..MAX_TICK_INDEX
               /\ p[id].tick_lower_index < p[id].tick_upper_index
    BY RangePrices DEF Held, Accounts, Ordered
  <1>3. ASSUME NEW A \in SUBSET Held(p),
               \E u \in MIN_TICK_INDEX..MAX_TICK_INDEX - 1 : A \subseteq InRange(p, u)
        PROVE  LiquidityIn(p, A) \in 0..I128MAX
    <2>1. PICK u \in MIN_TICK_INDEX..MAX_TICK_INDEX - 1 : A \subseteq InRange(p, u)
      BY <1>3
    <2>2. LiquidityIn(p, A) \in Nat /\ LiquidityIn(p, A) <= I128MAX
      BY <2>1, NarrowLiquidity
    <2> DEFINE T == LiquidityIn(p, A)
    <2> HIDE DEF T
    <2>3. T \in 0..I128MAX
      BY <1>1, <2>2 DEF T
    <2> QED BY <2>3 DEF T
  <1>4. \E u \in MIN_TICK_INDEX..MAX_TICK_INDEX - 1 : From(p, t) \subseteq InRange(p, u)
    <2>1. CASE t = MAX_TICK_INDEX
      <3>1. From(p, t) = {}
        BY <1>2, <2>1, TickIndexAssumption DEF From
      <3>2. MIN_TICK_INDEX \in MIN_TICK_INDEX..MAX_TICK_INDEX - 1
        BY TickIndexAssumption
      <3> QED BY <3>1, <3>2
    <2>2. CASE t # MAX_TICK_INDEX
      <3>1. t \in MIN_TICK_INDEX..MAX_TICK_INDEX - 1
        BY <2>2, TickIndexAssumption
      <3>2. From(p, t) \subseteq InRange(p, t)
        BY <1>1, <1>2 DEF From, InRange
      <3> QED BY <3>1, <3>2
    <2> QED BY <2>1, <2>2
  <1>5. \E u \in MIN_TICK_INDEX..MAX_TICK_INDEX - 1 : UpTo(p, t) \subseteq InRange(p, u)
    <2>1. CASE t = MIN_TICK_INDEX
      <3>1. UpTo(p, t) = {}
        BY <1>2, <2>1, TickIndexAssumption DEF UpTo
      <3>2. MIN_TICK_INDEX \in MIN_TICK_INDEX..MAX_TICK_INDEX - 1
        BY TickIndexAssumption
      <3> QED BY <3>1, <3>2
    <2>2. CASE t # MIN_TICK_INDEX
      <3>1. t - 1 \in MIN_TICK_INDEX..MAX_TICK_INDEX - 1
        BY <2>2, TickIndexAssumption
      <3>2. UpTo(p, t) \subseteq InRange(p, t - 1)
        <4> SUFFICES ASSUME NEW id \in UpTo(p, t) PROVE id \in InRange(p, t - 1)
          OBVIOUS
        <4>1. id \in Held(p) /\ p[id].tick_upper_index = t
          BY DEF UpTo
        <4>2. p[id].tick_lower_index \in Int /\ p[id].tick_lower_index < t
          BY <1>2, <4>1, TickIndexAssumption
        <4>3. p[id].tick_lower_index <= t - 1 /\ t - 1 < p[id].tick_upper_index
          BY <1>1, <4>1, <4>2
        <4> QED BY <4>1, <4>3 DEF InRange
      <3> QED BY <3>1, <3>2
    <2> QED BY <2>1, <2>2
  <1> QED BY <1>3, <1>4, <1>5, RangesHeld

\* Liquidity that is there can be taken off.
LEMMA LiquidityReduced ==
    ASSUME NEW x \in U128, NEW L \in Nat, L <= x
    PROVE  add_liquidity_delta(x, -L) = x - L /\ add_liquidity_delta(x, -L) # Err
  <1>1. x \in Nat /\ x <= U128MAX /\ U128MAX \in Nat
    BY Widths, Unsigned
  <1> QED BY <1>1 DEF add_liquidity_delta, Checked, Err

\* A tick of which no more liquidity is taken off than starts, or ends, there.
LEMMA TickReduced ==
    ASSUME NEW tick \in TickRecords, NEW lower \in 0..I128MAX, NEW upper \in 0..I128MAX,
           TickCounts(tick, lower, upper), NEW is_upper \in BOOLEAN, NEW L \in Nat,
           L <= IF is_upper THEN upper ELSE lower
    PROVE  ~TickUpdateFails(tick, -L, is_upper)
  <1>1. I128MAX \in Nat /\ lower \in Nat /\ upper \in Nat
    BY Widths
  <1>2. tick.liquidity_gross = lower + upper /\ tick.liquidity_net = lower - upper
        /\ tick.liquidity_gross \in U128
    BY DEF TickCounts, TickRecords
  <1>3. L <= tick.liquidity_gross
    BY <1>1, <1>2
  <1>4. add_liquidity_delta(tick.liquidity_gross, -L) # Err
    BY <1>2, <1>3, LiquidityReduced
  <1>5. NextNet(tick, -L, is_upper) \in -I128MAX - 1..I128MAX
    <2> DEFINE m == I128MAX
               n == NextNet(tick, -L, is_upper)
    <2>1. m \in Nat /\ lower <= m /\ upper <= m
      BY <1>1
    <2>2. CASE is_upper = TRUE
      <3>1. n = (lower - upper) - (-L) /\ L <= upper
        BY <1>2, <2>2 DEF NextNet
      <3> HIDE DEF m, n
      <3>2. n \in -m - 1..m
        BY <1>1, <2>1, <3>1, SMTT(60)
      <3> QED BY <3>2 DEF m, n
    <2>3. CASE is_upper = FALSE
      <3>1. n = (lower - upper) + (-L) /\ L <= lower
        BY <1>2, <2>3 DEF NextNet
      <3> HIDE DEF m, n
      <3>2. n \in -m - 1..m
        BY <1>1, <2>1, <3>1
      <3> QED BY <3>2 DEF m, n
    <2> QED BY <2>2, <2>3
  <1> QED BY <1>4, <1>5 DEF TickUpdateFails

-----------------------------------------------------------------------------
(* Positions with liquidity have their ends in arrays that are there.  *)

EndsIn(position, arrays) ==
    /\ \E start \in arrays : has_tick(start, position.tick_lower_index, TickSpacing)
    /\ \E start \in arrays : has_tick(start, position.tick_upper_index, TickSpacing)

EndsInArrays ==
    \A id \in Open : positions[id].liquidity > 0 => EndsIn(positions[id], tick_arrays)

\* An empty pool has no position with liquidity.
LEMMA EndsCreated == Created => EndsInArrays
  BY DEF Created, InitializePool, EndsInArrays, Open

\* Arrays are never closed.
LEMMA EndsKept ==
    ASSUME EndsInArrays, tick_arrays \subseteq tick_arrays', NEW id \in PositionIds,
           \A x \in PositionIds : x # id => positions'[x] = positions[x],
           (positions'[id] # NoPosition /\ positions'[id].liquidity > 0) =>
               \/ EndsIn(positions'[id], tick_arrays)
               \/ /\ id \in Open /\ positions'[id].liquidity = positions[id].liquidity
                  /\ positions'[id].tick_lower_index = positions[id].tick_lower_index
                  /\ positions'[id].tick_upper_index = positions[id].tick_upper_index
    PROVE  EndsInArrays'
  <1> SUFFICES ASSUME NEW x \in PositionIds, positions'[x] # NoPosition, positions'[x].liquidity > 0
               PROVE  EndsIn(positions'[x], tick_arrays')
    BY DEF EndsInArrays, Open
  <1>1. EndsIn(positions'[x], tick_arrays)
    <2>1. CASE x # id
      BY <2>1 DEF EndsInArrays, Open
    <2>2. CASE x = id
      BY <2>2, Zenon DEF EndsInArrays, EndsIn
    <2> QED BY <2>1, <2>2
  <1> QED BY <1>1 DEF EndsIn

\* Liquidity is added only through the arrays that hold the two ends.
LEMMA PositionEnds ==
    ASSUME PoolInv, EndsInArrays, PositionNext
    PROVE  EndsInArrays'
  <1>1. PICK id \in PositionIds :
            \/ \E range \in RangeInputs : OpenPosition(id, range[1], range[2])
            \/ ClosePosition(id)
            \/ \E amount \in LiquidityInputs, limits \in [Tokens -> TokenLimits] :
                  \/ IncreaseLiquidity(id, amount, limits)
                  \/ DecreaseLiquidity(id, amount, limits)
            \/ UpdateFeesAndRewards(id)
            \/ CollectFees(id)
            \/ \E r \in Rewards : CollectReward(id, r)
    BY DEF PositionNext
  <1>2. positions \in [PositionIds -> PositionRecords \cup {NoPosition}]
    BY DEF PoolInv, TypeOK
  <1>3. ASSUME NEW lower, NEW upper, OpenPosition(id, lower, upper) PROVE EndsInArrays'
    <2>1. /\ positions' = [positions EXCEPT ![id] = DefaultPosition(lower, upper)]
          /\ tick_arrays' = tick_arrays
      BY <1>3 DEF OpenPosition
    <2>2. /\ positions'[id] = DefaultPosition(lower, upper)
          /\ \A x \in PositionIds : x # id => positions'[x] = positions[x]
      BY <1>2, <2>1
    <2>3. ~(positions'[id].liquidity > 0)
      BY <2>2 DEF DefaultPosition
    <2> QED BY <2>1, <2>2, <2>3, EndsKept
  <1>4. CASE ClosePosition(id)
    <2>1. positions' = [positions EXCEPT ![id] = NoPosition] /\ tick_arrays' = tick_arrays
      BY <1>4 DEF ClosePosition
    <2>2. positions'[id] = NoPosition /\ \A x \in PositionIds : x # id => positions'[x] = positions[x]
      BY <1>2, <2>1
    <2> QED BY <2>1, <2>2, EndsKept
  <1>5. ASSUME NEW delta \in Int, id \in Open, tick_arrays' = tick_arrays,
               ModifyLiquidity(id, delta)
        PROVE  EndsInArrays'
    <2> DEFINE p == positions[id]
               inside == next_growths_inside(
                             pool.tick_current_index, ticks, p.tick_lower_index,
                             p.tick_upper_index, next_whirlpool_reward_infos(pool, clock),
                             Active(pool))
               q == next_position_modify_liquidity_update(p, delta, inside)
    <2>1. positions' = [positions EXCEPT ![id] = q] /\ ~ModifyFails(id, delta)
      BY <1>5, Zenon DEF ModifyLiquidity
    <2>2. InArrays(p.tick_lower_index) /\ InArrays(p.tick_upper_index)
      BY <2>1, Zenon DEF ModifyFails
    <2> HIDE DEF inside
    <2>3. p \in PositionRecords
      BY <1>2, <1>5 DEF Open
    <2>4. q.tick_lower_index = p.tick_lower_index /\ q.tick_upper_index = p.tick_upper_index
      BY <2>3 DEF next_position_modify_liquidity_update, PositionRecords
    <2> HIDE DEF p, q
    <2>5. EndsIn(q, tick_arrays)
      BY <2>2, <2>4 DEF EndsIn, InArrays
    <2>6. positions'[id] = q /\ \A x \in PositionIds : x # id => positions'[x] = positions[x]
      BY <1>2, <2>1
    <2> QED BY <1>5, <2>5, <2>6, EndsKept
  <1>6. ASSUME NEW amount \in LiquidityInputs, NEW limits,
               IncreaseLiquidity(id, amount, limits) \/ DecreaseLiquidity(id, amount, limits)
        PROVE  EndsInArrays'
    <2> DEFINE d(positive) == convert_to_liquidity_delta(amount, positive)
    <2>1. d(TRUE) \in Int /\ d(FALSE) \in Int
      BY InputAssumption, LiquidityDelta
    <2>2. /\ id \in Open /\ tick_arrays' = tick_arrays
          /\ ModifyLiquidity(id, d(TRUE)) \/ ModifyLiquidity(id, d(FALSE))
      BY <1>6 DEF IncreaseLiquidity, DecreaseLiquidity
    <2> HIDE DEF d
    <2> QED BY <1>5, <2>1, <2>2
  <1>7. CASE UpdateFeesAndRewards(id)
    <2>1. id \in Open /\ tick_arrays' = tick_arrays /\ ModifyLiquidity(id, 0)
      BY <1>7 DEF UpdateFeesAndRewards
    <2> QED BY <1>5, <2>1
  \* The instructions that only change what is owed.
  <1>8. ASSUME id \in Open, NEW owed, positions' = [positions EXCEPT ![id].owed = owed],
               tick_arrays' = tick_arrays
        PROVE  EndsInArrays'
    <2> DEFINE p == positions[id]
               q == [p EXCEPT !.owed = owed]
    <2>1. p \in PositionRecords
      BY <1>2, <1>8 DEF Open
    <2>2. /\ q.liquidity = p.liquidity
          /\ q.tick_lower_index = p.tick_lower_index /\ q.tick_upper_index = p.tick_upper_index
      BY <2>1 DEF PositionRecords
    <2>3. positions'[id] = q /\ \A x \in PositionIds : x # id => positions'[x] = positions[x]
      BY <1>2, <1>8
    <2> HIDE DEF q
    <2> QED BY <1>8, <2>2, <2>3, EndsKept
  <1>9. CASE CollectFees(id)
    BY <1>8, <1>9 DEF CollectFees
  <1>10. ASSUME NEW r \in Rewards, CollectReward(id, r) PROVE EndsInArrays'
    <2> DEFINE owed == [positions[id].owed EXCEPT
                          ![r] = calculate_collect_reward(positions[id].owed[r], vault[r]).owed]
    <2>1. /\ id \in Open /\ tick_arrays' = tick_arrays
          /\ positions' = [positions EXCEPT ![id].owed = owed]
      BY <1>10 DEF CollectReward
    <2> HIDE DEF owed
    <2> QED BY <1>8, <2>1
  <1> QED BY <1>1, <1>3, <1>4, <1>6, <1>7, <1>9, <1>10

\* Every step keeps the arrays under the positions with liquidity.
LEMMA EndsStep == PoolInv /\ EndsInArrays /\ [Next]_vars => EndsInArrays'
  <1> SUFFICES ASSUME PoolInv, EndsInArrays, [Next]_vars PROVE EndsInArrays'
    OBVIOUS
  <1>1. ASSUME tick_arrays \subseteq tick_arrays', positions' = positions PROVE EndsInArrays'
    BY <1>1 DEF EndsInArrays, Open, EndsIn
  <1>2. CASE UNCHANGED vars
    BY <1>1, <1>2 DEF vars
  <1>3. CASE PositionNext
    BY <1>3, PositionEnds
  <1>4. CASE AuthorityNext
    BY <1>1, <1>4 DEF AuthorityNext, CollectProtocolFees, SetFeeRate, SetProtocolFeeRate,
       InitializeReward, SetRewardEmissions
  <1>5. CASE SwapNext
    <2>1. ASSUME NEW found, NEW c, SwapIterates(found, c) \/ SwapFails(found, c)
          PROVE  tick_arrays' = tick_arrays /\ positions' = positions
      BY <2>1 DEF SwapIterates, SwapFails
    <2>2. tick_arrays' = tick_arrays /\ positions' = positions
      BY <1>5, <2>1, Zenon DEF SwapNext, SwapSearches, SwapLoops, SwapCommits, SwapRefused
    <2> QED BY <1>1, <2>2
  <1>6. CASE \/ \E start \in Starts : InitializeTickArray(start)
             \/ \E r \in Rewards, amount \in FundAmounts : FundReward(r, amount)
             \/ \E now \in Times : ClockMoves(now)
    BY <1>1, <1>6 DEF InitializeTickArray, FundReward, ClockMoves
  <1>7. ASSUME NEW amount, NEW threshold, NEW limit, NEW is_input, NEW a_to_b, NEW arrays,
               BeginSwap(amount, threshold, limit, is_input, a_to_b, arrays)
        PROVE  EndsInArrays'
    BY <1>1, <1>7 DEF BeginSwap
  <1> QED BY <1>2, <1>3, <1>4, <1>5, <1>6, <1>7 DEF Next

-----------------------------------------------------------------------------
(* Leaving. *)

\* No error can come of taking off all of a position's liquidity.
LEMMA RemovalSucceeds ==
    ASSUME PoolInv, LiquidityInv, EndsInArrays, NEW id \in Open,
           \A k \in Tokens : Stakes(positions, pool.sqrt_price, k) <= Scale * Supply,
           positions[id].liquidity > 0, ~InvalidTimestamp(pool, clock)
    PROVE  ~ModifyFails(id, -positions[id].liquidity)
  <1> DEFINE p == positions
             L == p[id].liquidity
             lower == p[id].tick_lower_index
             upper == p[id].tick_upper_index
             t == pool.tick_current_index
  <1>1. /\ pool \in PoolRecords /\ ticks \in [Usable -> TickRecords] /\ p \in Accounts /\ Ordered(p)
        /\ PriceInTick(pool.sqrt_price, t) /\ id \in Held(p)
        /\ Books(p, t, pool.liquidity, ticks)
    BY DEF PoolInv, TypeOK, Accounts, LiquidityInv, Open, Held
  <1>2. pool.sqrt_price \in 1..U128MAX /\ pool.liquidity \in U128
    <2>1. pool.sqrt_price \in U128 /\ pool.liquidity \in U128
      BY <1>1 DEF PoolRecords
    <2> QED BY <1>1, <2>1, Unsigned, PriceWide
  <1>3. /\ lower \in Usable /\ upper \in Usable /\ L \in U128 /\ L \in Nat \ {0}
        /\ lower \in MIN_TICK_INDEX..MAX_TICK_INDEX /\ upper \in MIN_TICK_INDEX..MAX_TICK_INDEX
        /\ lower \in Int /\ upper \in Int
    <2>1. p[id] \in PositionRecords
      BY <1>1 DEF Held, Accounts
    <2> QED BY <1>1, <2>1, HeldTyped, RangePrices
  <1>4. EndsIn(p[id], tick_arrays)
    BY DEF EndsInArrays
  <1>5. \A u \in MIN_TICK_INDEX..MAX_TICK_INDEX :
            /\ LiquidityIn(p, From(p, u)) \in 0..I128MAX
            /\ LiquidityIn(p, UpTo(p, u)) \in 0..I128MAX
    BY <1>1, <1>2, EndsNarrow
  <1>6. L <= LiquidityIn(p, From(p, lower)) /\ L <= LiquidityIn(p, UpTo(p, upper))
    <2>1. id \in From(p, lower) /\ id \in UpTo(p, upper)
      BY <1>1 DEF From, UpTo
    <2> QED BY <1>1, <2>1, RangesHeld, LiquidityNat
  <1>7. t < upper /\ t >= lower => L <= pool.liquidity
    <2> SUFFICES ASSUME t < upper, t >= lower PROVE L <= pool.liquidity
      OBVIOUS
    <2>1. t \in Int
      BY <1>1, TickIndexAssumption DEF PoolRecords
    <2>2. lower <= t
      BY <1>3, <2>1
    <2>3. id \in InRange(p, t)
      BY <1>1, <2>2 DEF InRange
    <2>4. pool.liquidity = LiquidityIn(p, InRange(p, t))
      BY <1>1 DEF Books
    <2> QED BY <1>1, <2>3, <2>4, RangesHeld, LiquidityNat
  <1>8. /\ TickCounts(ticks[lower], LiquidityIn(p, From(p, lower)), LiquidityIn(p, UpTo(p, lower)))
        /\ TickCounts(ticks[upper], LiquidityIn(p, From(p, upper)), LiquidityIn(p, UpTo(p, upper)))
        /\ ticks[lower] \in TickRecords /\ ticks[upper] \in TickRecords
    BY <1>1, <1>3 DEF Books, TickBook
  <1> HIDE DEF L, lower, upper, t
  <1>9. InArrays(lower) /\ InArrays(upper)
    BY <1>4 DEF EndsIn, InArrays, lower, upper
  <1>10. ~(-L = 0 /\ p[id].liquidity = 0)
    BY <1>3
  <1>11. next_whirlpool_liquidity(pool, lower, upper, -L) # Err
    <2>1. next_whirlpool_liquidity(pool, lower, upper, -L)
            = IF t < upper /\ t >= lower THEN add_liquidity_delta(pool.liquidity, -L)
                                         ELSE pool.liquidity
      BY DEF next_whirlpool_liquidity, t
    <2>2. CASE t < upper /\ t >= lower
      BY <1>2, <1>3, <1>7, <2>1, <2>2, LiquidityReduced
    <2>3. CASE ~(t < upper /\ t >= lower)
      BY <1>2, <2>1, <2>3, Unsigned
    <2> QED BY <2>2, <2>3
  <1>12. ~TickUpdateFails(ticks[lower], -L, FALSE)
    <2>1. L <= IF FALSE THEN LiquidityIn(p, UpTo(p, lower)) ELSE LiquidityIn(p, From(p, lower))
      BY <1>6
    <2> QED BY <1>3, <1>5, <1>8, <2>1, TickReduced
  <1>13. ~TickUpdateFails(ticks[upper], -L, TRUE)
    <2>1. L <= IF TRUE THEN LiquidityIn(p, UpTo(p, upper)) ELSE LiquidityIn(p, From(p, upper))
      BY <1>6
    <2> QED BY <1>3, <1>5, <1>8, <2>1, TickReduced
  <1>14. add_liquidity_delta(p[id].liquidity, -L) # Err
    <2>1. L <= L /\ p[id].liquidity = L
      BY <1>3 DEF L
    <2> QED BY <1>3, <2>1, LiquidityReduced
  <1> QED BY <1>9, <1>10, <1>11, <1>12, <1>13, <1>14, Zenon DEF ModifyFails, L, lower, upper

\* Nor of the amounts that are paid for it.
LEMMA AmountsSucceed ==
    ASSUME PoolInv, LiquidityInv, NEW id \in Open, NEW k \in Tokens,
           Stakes(positions, pool.sqrt_price, k) <= Scale * Supply
    PROVE  calculate_liquidity_token_deltas(pool, positions[id], -positions[id].liquidity)[k] # Err
  <1> DEFINE p == positions
             price == pool.sqrt_price
             s == StakeOf(p, price, k)
  <1>1. /\ pool \in PoolRecords /\ p \in Accounts /\ Ordered(p) /\ p[id] \in PositionRecords
        /\ PriceInTick(price, pool.tick_current_index) /\ id \in Held(p) /\ id \in PositionIds
    BY OpenTyped DEF PoolInv, TypeOK, Accounts, LiquidityInv, Open, Held
  <1>2. price \in 1..U128MAX /\ price <= MAX_SQRT_PRICE_X64
    <2>1. price \in U128 /\ price \in MIN_SQRT_PRICE_X64..MAX_SQRT_PRICE_X64
      BY <1>1 DEF PoolRecords, PriceInTick
    <2> QED BY <1>1, <2>1, Unsigned, PriceWide
  <1>3. p[id].tick_lower_index < p[id].tick_upper_index
    BY <1>1 DEF Ordered
  <1>4. \A x \in PositionIds : s[x] \in Nat
    BY <1>1, <1>2, StakeTyped
  <1>5. s[id] = p[id].liquidity * Rate(k, p[id], price)
    BY <1>1 DEF StakeOf, Stake
  <1>6. s[id] <= Scale * Supply
    <2> DEFINE w == Scale * Supply
               b == Stakes(p, price, k)
    <2>1. b = Total(s, PositionIds) /\ b <= w
      BY DEF Stakes
    <2>2. w \in Int
      BY UnitTyped, KindSets, ProductInt
    <2> HIDE DEF s, w, b
    <2>3. b \in Nat /\ s[id] <= b
      BY <1>1, <1>4, <2>1, PositionAssumption, TotalNat
    <2>4. s[id] <= w
      BY <1>1, <1>4, <2>1, <2>2, <2>3
    <2> QED BY <2>4 DEF w
  <1>7. p[id].liquidity * Rate(k, p[id], price) <= Scale * Supply
    BY <1>5, <1>6
  <1> QED BY <1>1, <1>2, <1>3, <1>7, DeltasSucceed

\* Everyone can leave, in every pool: whatever was rounded on the way, the vaults
\* hold what all positions can take away together with the protocol's share; and
\* no width overflows in any withdrawal of all of a position's liquidity.
THEOREM LeavingSucceeds == BoundedSpec => []EveryoneCanLeave
  <1>1. PoolInv /\ LiquidityInv /\ RewardInv /\ SolvencyInv /\ EndsInArrays => EveryoneCanLeave
    <2> SUFFICES ASSUME PoolInv, LiquidityInv, RewardInv, SolvencyInv, EndsInArrays
                 PROVE  EveryoneCanLeave
      OBVIOUS
    <2>1. ASSUME NEW k \in Tokens
          PROVE  pool.protocol_fee_owed[k] + MapThenSumSet(LAMBDA id : Claim(id, k), Open) <= vault[k]
      BY VaultsCover
    <2>2. \A k \in Tokens : Stakes(positions, pool.sqrt_price, k) <= Scale * Supply
      BY VaultsCover
    <2>3. ASSUME NEW id \in Open, positions[id].liquidity > 0, ~InvalidTimestamp(pool, clock)
          PROVE  /\ ~ModifyFails(id, -positions[id].liquidity)
                 /\ \A k \in Tokens :
                     calculate_liquidity_token_deltas(
                         pool, positions[id], -positions[id].liquidity)[k] # Err
      BY <2>2, <2>3, RemovalSucceeds, AmountsSucceed
    <2> QED BY <2>1, <2>3, Zenon DEF EveryoneCanLeave
  <1>2. BoundedInit => Created
    BY RewardCreated
  <1>3. [BoundedNext]_boundedVars => [Next]_vars
    BY BoundedTakes DEF boundedVars
  <1>4. BoundedSpec => []EndsInArrays
    BY <1>2, <1>3, EndsCreated, EndsStep, SolvencyAlways, PTL DEF BoundedSpec
  <1> QED BY <1>1, <1>4, SolvencyAlways, PTL

=============================================================================
