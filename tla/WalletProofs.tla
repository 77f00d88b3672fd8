---------------------------- MODULE WalletProofs ----------------------------
(***************************************************************************)
(* What the client's transactions do, for every wallet: any positions,     *)
(* mints, rewards, room in a transaction, and any number of calls.         *)
(***************************************************************************)
EXTENDS Wallet, FiniteSetTheorems, SequenceTheorems, NaturalsInduction, TLAPS

-----------------------------------------------------------------------------
(* Folds.  The loops are told apart by a name and what they are about, so   *)
(* that what is shown of one is shown of all.                               *)

Apply(loop, about, acc, x) ==
    CASE loop = "among"   -> IF x \in about THEN Append(acc, x) ELSE acc
      [] loop = "merge"   -> Merge(acc, x)
      [] loop = "execute" -> Step(acc, x)
      [] loop = "pack"    -> Pack(about[1], about[2], acc, x)
      [] loop = "close"   -> AddReward(acc, about[1], about[2], x)
      [] loop = "rewards" -> AddAsked(acc, about[1], about[2], x)

\* What the folds are defined by: a value for every set of indices.
Values(loop, about, base, seq, S, h) ==
    h = [s \in SUBSET S |->
            IF s = {} THEN base ELSE Apply(loop, about, h[s \ {Max(s)}], seq[Max(s)])]

\* The values that a loop goes through.
Loop(loop, about, base, seq, n, acc) ==
    /\ acc[0] = base
    /\ \A i \in 1..n : acc[i] = Apply(loop, about, acc[i - 1], seq[i])

\* A set that holds 0 and what follows each of its numbers holds all.
LEMMA Upward ==
    ASSUME NEW n \in Nat, NEW Q, 0 \in Q, \A i \in 0..n - 1 : i \in Q => i + 1 \in Q
    PROVE  \A i \in 0..n : i \in Q
  <1> DEFINE bad == (0..n) \ Q
  <1> SUFFICES ASSUME bad # {} PROVE FALSE
    OBVIOUS
  <1>1. IsWellFoundedOn(OpToRel(<, Nat), Nat)
    BY NatLessThanWellFounded
  <1>2. bad \subseteq Nat
    OBVIOUS
  <1>3. PICK m \in bad : \A k \in bad : ~ (<<k, m>> \in OpToRel(<, Nat))
    <2> HIDE DEF bad
    <2> QED BY <1>1, <1>2, WFMin
  <1>4. m # 0 /\ m \in 0..n
    OBVIOUS
  <1>5. m - 1 \in 0..n - 1 /\ <<m - 1, m>> \in OpToRel(<, Nat)
    BY <1>4 DEF OpToRel
  <1>6. m - 1 \in Q
    <2> SUFFICES ASSUME m - 1 \notin Q PROVE FALSE
      OBVIOUS
    <2>1. m - 1 \in 0..n
      BY <1>4
    <2>2. m - 1 \in bad
      BY <2>1
    <2> QED BY <1>3, <1>5, <2>2
  <1>7. m - 1 + 1 \in Q
    BY <1>5, <1>6
  <1> QED BY <1>4, <1>7

\* The greatest of a set of numbers that has one.
LEMMA MaxIs ==
    ASSUME NEW n \in Nat, NEW s \in SUBSET (1..n + 1), n + 1 \in s
    PROVE  Max(s) = n + 1
  <1>1. \A y \in s : n + 1 >= y
    OBVIOUS
  <1>2. Max(s) \in s /\ \A y \in s : Max(s) >= y
    BY <1>1 DEF Max
  <1>3. Max(s) >= n + 1 /\ n + 1 >= Max(s)
    BY <1>1, <1>2
  <1>4. Max(s) \in 1..n + 1
    BY <1>2
  <1> QED BY <1>3, <1>4

LEMMA ValuesExist ==
    ASSUME NEW loop, NEW about, NEW base, NEW seq, NEW n \in Nat
    PROVE  \E h : Values(loop, about, base, seq, 1..n, h)
  <1> DEFINE F(h, s) == IF s = {} THEN base
                        ELSE Apply(loop, about, h[s \ {Max(s)}], seq[Max(s)])
             Q == {i \in 0..n : \E h : h = [s \in SUBSET (1..i) |-> F(h, s)]}
  <1>1. 0 \in Q
    <2> DEFINE h == [s \in SUBSET (1..0) |-> base]
    <2>1. \A s \in SUBSET (1..0) : s = {}
      OBVIOUS
    <2>2. h = [s \in SUBSET (1..0) |-> F(h, s)]
      BY <2>1
    <2> QED BY <2>2
  <1>2. ASSUME NEW i \in 0..n - 1, NEW h, h = [s \in SUBSET (1..i) |-> F(h, s)]
        PROVE  \E g : g = [s \in SUBSET (1..i + 1) |-> F(g, s)]
    <2> DEFINE g == [s \in SUBSET (1..i + 1) |->
                        IF i + 1 \in s THEN Apply(loop, about, h[s \ {i + 1}], seq[i + 1]) ELSE h[s]]
    <2>1. ASSUME NEW s \in SUBSET (1..i + 1) PROVE g[s] = F(g, s)
      <3>1. CASE i + 1 \in s
        <4>1. Max(s) = i + 1
          BY <1>2, <3>1, MaxIs
        <4>2. s \ {i + 1} \in SUBSET (1..i + 1) /\ i + 1 \notin s \ {i + 1}
          OBVIOUS
        <4>3. g[s \ {i + 1}] = h[s \ {i + 1}]
          BY <4>2
        <4> QED BY <3>1, <4>1, <4>3
      <3>2. CASE i + 1 \notin s
        <4>1. s \in SUBSET (1..i)
          BY <3>2
        <4>2. g[s] = h[s] /\ h[s] = F(h, s)
          BY <1>2, <3>2, <4>1
        <4>3. s \ {Max(s)} \in SUBSET (1..i + 1) /\ i + 1 \notin s \ {Max(s)}
          BY <3>2
        <4>4. g[s \ {Max(s)}] = h[s \ {Max(s)}]
          BY <4>3
        <4> QED BY <4>2, <4>4
      <3> QED BY <3>1, <3>2
    <2>2. g = [s \in SUBSET (1..i + 1) |-> g[s]]
      OBVIOUS
    <2> HIDE DEF g
    <2>3. [s \in SUBSET (1..i + 1) |-> g[s]] = [s \in SUBSET (1..i + 1) |-> F(g, s)]
      BY <2>1
    <2> QED BY <2>2, <2>3
  <1>3. ASSUME NEW i \in 0..n - 1, i \in Q PROVE i + 1 \in Q
    <2>1. PICK h : h = [s \in SUBSET (1..i) |-> F(h, s)]
      BY <1>3
    <2>2. PICK g : g = [s \in SUBSET (1..i + 1) |-> F(g, s)]
      BY <1>2, <2>1
    <2>3. i + 1 \in 0..n
      OBVIOUS
    <2> QED BY <2>2, <2>3
  <1> HIDE DEF Q
  <1>4. n \in Q
    BY <1>1, <1>3, Upward
  <1> QED BY <1>4 DEF Q, Values

\* A fold is where its loop ends.
LEMMA Folded ==
    ASSUME NEW loop, NEW about, NEW base, NEW seq, NEW n \in Nat,
           NEW h, Values(loop, about, base, seq, 1..n, h)
    PROVE  \E acc : Loop(loop, about, base, seq, n, acc) /\ h[1..n] = acc[n]
  <1> DEFINE acc == [i \in 0..n |-> h[1..i]]
  <1>1. acc[0] = base
    <2>1. 1..0 = {} /\ {} \in SUBSET (1..n)
      OBVIOUS
    <2> QED BY <2>1 DEF Values
  <1>2. ASSUME NEW i \in 1..n PROVE acc[i] = Apply(loop, about, acc[i - 1], seq[i])
    <2>1. Max(1..i) = i
      <3>1. i - 1 \in Nat /\ i - 1 + 1 = i /\ i \in 1..i
        OBVIOUS
      <3> QED BY <3>1, MaxIs
    <2>2. 1..i \in SUBSET (1..n) /\ 1..i # {} /\ (1..i) \ {i} = 1..i - 1
      OBVIOUS
    <2>3. h[1..i] = Apply(loop, about, h[1..i - 1], seq[i])
      BY <2>1, <2>2 DEF Values
    <2> QED BY <2>3
  <1>3. Loop(loop, about, base, seq, n, acc)
    BY <1>1, <1>2 DEF Loop
  <1> QED BY <1>3

\* The elements of s in a set, and what is merged.
LEMMA AmongLoop ==
    ASSUME NEW s, NEW set, NEW n \in Nat, DOMAIN s = 1..n
    PROVE  \E acc : Loop("among", set, <<>>, s, n, acc) /\ Among(s, set) = acc[n]
  <1> DEFINE G(h) == [u \in SUBSET (1..n) |->
                         IF u = {} THEN <<>>
                         ELSE IF s[Max(u)] \in set THEN Append(h[u \ {Max(u)}], s[Max(u)])
                              ELSE h[u \ {Max(u)}]]
             k == CHOOSE h : h = G(h)
  <1>1. ASSUME NEW h PROVE Values("among", set, <<>>, s, 1..n, h) <=> h = G(h)
    BY DEF Values, Apply
  <1>2. \E h : h = G(h)
    BY <1>1, ValuesExist
  <1>3. Values("among", set, <<>>, s, 1..n, k)
    BY <1>1, <1>2
  <1>4. Among(s, set) = k[1..n]
    BY DEF Among, FoldLeft, MapThenFoldSet
  <1> HIDE DEF k
  <1> QED BY <1>3, <1>4, Folded

LEMMA MergeLoop ==
    ASSUME NEW txs, NEW n \in Nat, DOMAIN txs = 1..n
    PROVE  \E acc : Loop("merge", <<>>, EmptyTx, txs, n, acc) /\ MergeAll(txs) = acc[n]
  <1> DEFINE G(h) == [u \in SUBSET (1..n) |->
                         IF u = {} THEN EmptyTx ELSE Merge(h[u \ {Max(u)}], txs[Max(u)])]
             k == CHOOSE h : h = G(h)
  <1>1. ASSUME NEW h PROVE Values("merge", <<>>, EmptyTx, txs, 1..n, h) <=> h = G(h)
    BY DEF Values, Apply
  <1>2. \E h : h = G(h)
    BY <1>1, ValuesExist
  <1>3. Values("merge", <<>>, EmptyTx, txs, 1..n, k)
    BY <1>1, <1>2
  <1>4. MergeAll(txs) = k[1..n]
    BY DEF MergeAll, FoldLeft, MapThenFoldSet
  <1> HIDE DEF k
  <1> QED BY <1>3, <1>4, Folded

LEMMA ExecuteLoop ==
    ASSUME NEW s, NEW tx, NEW n \in Nat, DOMAIN (tx.body \o tx.cleanup) = 1..n
    PROVE  \E acc : Loop("execute", <<>>, [ok |-> TRUE, chain |-> s], (tx.body \o tx.cleanup), n, acc) /\ Execute(s, tx) = acc[n]
  <1> DEFINE G(h) == [u \in SUBSET (1..n) |->
                         IF u = {} THEN [ok |-> TRUE, chain |-> s] ELSE Step(h[u \ {Max(u)}], (tx.body \o tx.cleanup)[Max(u)])]
             k == CHOOSE h : h = G(h)
  <1>1. ASSUME NEW h PROVE Values("execute", <<>>, [ok |-> TRUE, chain |-> s], (tx.body \o tx.cleanup), 1..n, h) <=> h = G(h)
    BY DEF Values, Apply
  <1>2. \E h : h = G(h)
    BY <1>1, ValuesExist
  <1>3. Values("execute", <<>>, [ok |-> TRUE, chain |-> s], (tx.body \o tx.cleanup), 1..n, k)
    BY <1>1, <1>2
  <1>4. Execute(s, tx) = k[1..n]
    BY DEF Execute, FoldLeft, MapThenFoldSet
  <1> HIDE DEF k
  <1> QED BY <1>3, <1>4, Folded

LEMMA PackLoop ==
    ASSUME NEW s, NEW cache, NEW tasks, NEW n \in Nat, DOMAIN tasks = 1..n
    PROVE  \E acc : Loop("pack", <<s, cache>>, NoTx, tasks, n, acc) /\ PackAll(s, cache, tasks) = acc[n]
  <1> DEFINE G(h) == [u \in SUBSET (1..n) |->
                         IF u = {} THEN NoTx ELSE Pack(s, cache, h[u \ {Max(u)}], tasks[Max(u)])]
             k == CHOOSE h : h = G(h)
  <1>1. ASSUME NEW h PROVE Values("pack", <<s, cache>>, NoTx, tasks, 1..n, h) <=> h = G(h)
    BY DEF Values, Apply
  <1>2. \E h : h = G(h)
    BY <1>1, ValuesExist
  <1>3. Values("pack", <<s, cache>>, NoTx, tasks, 1..n, k)
    BY <1>1, <1>2
  <1>4. PackAll(s, cache, tasks) = k[1..n]
    BY DEF PackAll, FoldLeft, MapThenFoldSet
  <1> HIDE DEF k
  <1> QED BY <1>3, <1>4, Folded

LEMMA CloseLoop ==
    ASSUME NEW s, NEW p, NEW f, NEW n \in Nat, DOMAIN rewardsToCollect(s, p) = 1..n
    PROVE  \E acc : Loop("close", <<s, p>>, f, [i \in 1..n |-> i], n, acc) /\ AddRewards(f, s, p) = acc[n]
  <1> DEFINE G(h) == [u \in SUBSET (1..n) |->
                         IF u = {} THEN f ELSE AddReward(h[u \ {Max(u)}], s, p, [i \in 1..n |-> i][Max(u)])]
             k == CHOOSE h : h = G(h)
  <1>1. ASSUME NEW h PROVE Values("close", <<s, p>>, f, [i \in 1..n |-> i], 1..n, h) <=> h = G(h)
    BY DEF Values, Apply
  <1>2. \E h : h = G(h)
    BY <1>1, ValuesExist
  <1>3. Values("close", <<s, p>>, f, [i \in 1..n |-> i], 1..n, k)
    BY <1>1, <1>2
  <1>4. AddRewards(f, s, p) = k[1..n]
    BY DEF AddRewards, FoldLeft, MapThenFoldSet
  <1> HIDE DEF k
  <1> QED BY <1>3, <1>4, Folded

LEMMA RewardsLoop ==
    ASSUME NEW s, NEW p, NEW f, NEW is, NEW n \in Nat, DOMAIN is = 1..n
    PROVE  \E acc : Loop("rewards", <<s, p>>, f, is, n, acc) /\ AddAllAsked(f, s, p, is) = acc[n]
  <1> DEFINE G(h) == [u \in SUBSET (1..n) |->
                         IF u = {} THEN f ELSE AddAsked(h[u \ {Max(u)}], s, p, is[Max(u)])]
             k == CHOOSE h : h = G(h)
  <1>1. ASSUME NEW h PROVE Values("rewards", <<s, p>>, f, is, 1..n, h) <=> h = G(h)
    BY DEF Values, Apply
  <1>2. \E h : h = G(h)
    BY <1>1, ValuesExist
  <1>3. Values("rewards", <<s, p>>, f, is, 1..n, k)
    BY <1>1, <1>2
  <1>4. AddAllAsked(f, s, p, is) = k[1..n]
    BY DEF AddAllAsked, FoldLeft, MapThenFoldSet
  <1> HIDE DEF k
  <1> QED BY <1>3, <1>4, Folded

-----------------------------------------------------------------------------
(* Sequences of whatever they hold. *)

IsSeq(s) == s \in Seq(ToSet(s))

LEMMA SeqFacts ==
    ASSUME NEW s, IsSeq(s)
    PROVE  /\ Len(s) \in Nat /\ DOMAIN s = 1..Len(s)
           /\ \A i \in 1..Len(s) : s[i] \in ToSet(s)
           /\ \A x \in ToSet(s) : \E i \in 1..Len(s) : s[i] = x
  <1>1. Len(s) \in Nat /\ DOMAIN s = 1..Len(s)
    BY LenProperties DEF IsSeq
  <1> QED BY <1>1 DEF ToSet

LEMMA OfSeq ==
    ASSUME NEW S, NEW s \in Seq(S)
    PROVE  IsSeq(s) /\ ToSet(s) \subseteq S
  <1>1. Len(s) \in Nat /\ s \in [1..Len(s) -> S] /\ DOMAIN s = 1..Len(s)
    BY LenProperties
  <1>2. s \in [1..Len(s) -> ToSet(s)]
    BY <1>1 DEF ToSet
  <1>3. s \in Seq(ToSet(s))
    BY <1>1, <1>2, SeqDef
  <1> QED BY <1>1, <1>3 DEF IsSeq, ToSet

LEMMA EmptyIsSeq == IsSeq(<<>>) /\ ToSet(<<>>) = {} /\ Len(<<>>) = 0
  BY EmptySeq DEF IsSeq, ToSet

LEMMA Listed ==
    ASSUME NEW n \in Nat, NEW s, s = [i \in 1..n |-> s[i]]
    PROVE  IsSeq(s) /\ Len(s) = n
  <1>1. DOMAIN s = 1..n /\ s \in [1..n -> ToSet(s)]
    BY DEF ToSet
  <1>2. s \in Seq(ToSet(s))
    BY <1>1, SeqDef
  <1>3. Len(s) = n
    BY <1>1, <1>2, LenProperties
  <1> QED BY <1>2, <1>3 DEF IsSeq

LEMMA Single_ ==
    ASSUME NEW x
    PROVE  IsSeq(<<x>>) /\ ToSet(<<x>>) = {x} /\ Len(<<x>>) = 1 /\ <<x>>[1] = x
  BY DEF IsSeq, ToSet

LEMMA Joined ==
    ASSUME NEW s, NEW t, IsSeq(s), IsSeq(t)
    PROVE  /\ IsSeq(s \o t) /\ ToSet(s \o t) = ToSet(s) \cup ToSet(t)
           /\ Len(s \o t) = Len(s) + Len(t)
           /\ \A i \in 1..Len(s) : (s \o t)[i] = s[i]
           /\ \A i \in 1..Len(t) : (s \o t)[Len(s) + i] = t[i]
  <1> DEFINE S == ToSet(s) \cup ToSet(t)
  <1>1. s \in Seq(S) /\ t \in Seq(S)
    BY SeqMonotonic DEF IsSeq
  <1>2. Len(s) \in Nat /\ Len(t) \in Nat
    BY SeqFacts
  <1> HIDE DEF S
  <1>3. /\ s \o t \in Seq(S) /\ Len(s \o t) = Len(s) + Len(t)
        /\ \A i \in 1..Len(s) + Len(t) : (s \o t)[i] = IF i <= Len(s) THEN s[i] ELSE t[i - Len(s)]
    BY <1>1, ConcatProperties
  <1>4. IsSeq(s \o t) /\ ToSet(s \o t) \subseteq S
    BY <1>3, OfSeq
  <1>5. \A i \in 1..Len(s) : (s \o t)[i] = s[i]
    BY <1>2, <1>3
  <1>6. ASSUME NEW i \in 1..Len(t) PROVE (s \o t)[Len(s) + i] = t[i]
    <2>1. Len(s) + i \in 1..Len(s) + Len(t) /\ ~(Len(s) + i <= Len(s)) /\ Len(s) + i - Len(s) = i
      BY <1>2
    <2> QED BY <1>3, <2>1
  <1>7. ASSUME NEW x \in ToSet(s) PROVE x \in ToSet(s \o t)
    <2>1. PICK i \in 1..Len(s) : s[i] = x
      BY SeqFacts
    <2>2. i \in 1..Len(s \o t)
      BY <1>2, <1>3
    <2> QED BY <1>4, <1>5, <2>1, <2>2, SeqFacts
  <1>8. ASSUME NEW x \in ToSet(t) PROVE x \in ToSet(s \o t)
    <2>1. PICK i \in 1..Len(t) : t[i] = x
      BY SeqFacts
    <2>2. Len(s) + i \in 1..Len(s \o t)
      BY <1>2, <1>3
    <2> QED BY <1>4, <1>6, <2>1, <2>2, SeqFacts
  <1> QED BY <1>3, <1>4, <1>5, <1>6, <1>7, <1>8 DEF S

LEMMA Appended ==
    ASSUME NEW s, NEW x, IsSeq(s)
    PROVE  /\ Append(s, x) = s \o <<x>>
           /\ IsSeq(Append(s, x)) /\ ToSet(Append(s, x)) = ToSet(s) \cup {x}
           /\ Len(Append(s, x)) = Len(s) + 1 /\ Append(s, x)[Len(s) + 1] = x
           /\ \A i \in 1..Len(s) : Append(s, x)[i] = s[i]
  <1> DEFINE S == ToSet(s) \cup {x}
  <1>1. s \in Seq(S) /\ x \in S
    BY SeqMonotonic DEF IsSeq
  <1>2. Append(s, x) = s \o <<x>>
    BY <1>1, AppendIsConcat
  <1>3. 1 \in 1..1
    OBVIOUS
  <1> QED BY <1>2, <1>3, Single_, Joined

LEMMA Removed ==
    ASSUME NEW s, IsSeq(s), NEW i \in DOMAIN s
    PROVE  IsSeq(RemoveAt(s, i)) /\ ToSet(RemoveAt(s, i)) \subseteq ToSet(s)
  <1> DEFINE before == SubSeq(s, 1, i - 1)
             after == SubSeq(s, i + 1, Len(s))
  <1>1. Len(s) \in Nat /\ i \in 1..Len(s) /\ \A j \in 1..Len(s) : s[j] \in ToSet(s)
    BY SeqFacts
  <1>2. before \in Seq(ToSet(s))
    BY <1>1, SubSeqProperties
  <1>3. after \in Seq(ToSet(s))
    BY <1>1, SubSeqProperties
  <1> HIDE DEF before, after
  <1>4. before \o after \in Seq(ToSet(s))
    BY <1>2, <1>3, ConcatProperties
  <1>5. RemoveAt(s, i) = before \o after
    BY DEF RemoveAt, before, after
  <1> QED BY <1>4, <1>5, OfSeq

\* What is kept of a sequence is a sequence of its elements.
LEMMA AmongKeeps ==
    ASSUME NEW s, NEW set, IsSeq(s)
    PROVE  IsSeq(Among(s, set)) /\ ToSet(Among(s, set)) \subseteq ToSet(s) \cap set
  <1> DEFINE n == Len(s)
             T == ToSet(s) \cap set
  <1>1. n \in Nat /\ DOMAIN s = 1..n /\ \A i \in 1..n : s[i] \in ToSet(s)
    BY SeqFacts
  <1> HIDE DEF n, T
  <1>2. PICK acc : Loop("among", set, <<>>, s, n, acc) /\ Among(s, set) = acc[n]
    BY <1>1, AmongLoop
  <1> DEFINE Q == {i \in 0..n : acc[i] \in Seq(T)}
  <1>3. 0 \in Q
    <2>1. acc[0] = <<>> /\ 0 \in 0..n
      BY <1>1, <1>2 DEF Loop
    <2>2. <<>> \in Seq(T)
      BY EmptySeq
    <2> QED BY <2>1, <2>2
  <1>4. ASSUME NEW i \in 0..n - 1, i \in Q PROVE i + 1 \in Q
    <2>1. i + 1 \in 1..n /\ i + 1 - 1 = i /\ i + 1 \in 0..n
      BY <1>1
    <2>2. acc[i + 1] = IF s[i + 1] \in set THEN Append(acc[i], s[i + 1]) ELSE acc[i]
      BY <1>2, <2>1 DEF Loop, Apply
    <2>3. s[i + 1] \in set => Append(acc[i], s[i + 1]) \in Seq(T)
      BY <1>1, <1>4, <2>1, AppendProperties DEF T
    <2> QED BY <1>4, <2>1, <2>2, <2>3
  <1> HIDE DEF Q
  <1>5. n \in Q
    <2>1. \A i \in 0..n : i \in Q
      BY <1>1, <1>3, <1>4, Upward
    <2> QED BY <1>1, <2>1
  <1>6. Among(s, set) \in Seq(T)
    BY <1>2, <1>5 DEF Q
  <1> QED BY <1>6, OfSeq DEF T

-----------------------------------------------------------------------------
(* What transactions are made of: a temporary account is closed by the      *)
(* transaction that creates it.                                             *)

Ops == {"create", "closeAcct", "open", "update", "increase", "decrease", "fees", "reward", "close"}

Proper(ix) ==
    /\ ix.op \in Ops
    /\ ix.op = "open" => ix.pos \in Positions
    /\ ix.op = "increase" => ix.amount \in Nat

ClosedLater(ix, cleanup) ==
    ix.op = "create" => ix.acct[2] = 0 \/ \E c \in ToSet(cleanup) : c.acct = ix.acct

Balanced(tx) ==
    /\ IsSeq(tx.body) /\ IsSeq(tx.cleanup)
    /\ \A ix \in ToSet(tx.body) : Proper(ix) /\ ClosedLater(ix, tx.cleanup)
    /\ \A c \in ToSet(tx.cleanup) : c.op = "closeAcct"

Transactions(txs) == IsSeq(txs) /\ \A tx \in ToSet(txs) : Balanced(tx)

LEMMA EmptyBalanced == Balanced(EmptyTx)
  BY EmptyIsSeq DEF Balanced, EmptyTx

LEMMA SingleBalanced ==
    ASSUME NEW ix, Proper(ix), ix.op = "create" => ix.acct[2] = 0
    PROVE  Balanced(Single(ix))
  BY EmptyIsSeq, Single_ DEF Balanced, Single, ClosedLater

LEMMA MergeBalanced ==
    ASSUME NEW t, NEW u, Balanced(t), Balanced(u)
    PROVE  Balanced(Merge(t, u))
  <1>1. /\ IsSeq(t.body \o u.body) /\ ToSet(t.body \o u.body) = ToSet(t.body) \cup ToSet(u.body)
        /\ IsSeq(u.cleanup \o t.cleanup)
        /\ ToSet(u.cleanup \o t.cleanup) = ToSet(u.cleanup) \cup ToSet(t.cleanup)
    BY Joined DEF Balanced
  <1>2. Merge(t, u).body = t.body \o u.body /\ Merge(t, u).cleanup = u.cleanup \o t.cleanup
    BY DEF Merge
  <1> QED BY <1>1, <1>2 DEF Balanced, ClosedLater

LEMMA MergeIs == ASSUME NEW t, NEW u PROVE Merge(t, u).body = t.body \o u.body
  BY DEF Merge

LEMMA MergeAllBalanced ==
    ASSUME NEW txs, NEW n \in Nat, DOMAIN txs = 1..n, \A i \in 1..n : Balanced(txs[i])
    PROVE  Balanced(MergeAll(txs))
  <1>1. PICK acc : Loop("merge", <<>>, EmptyTx, txs, n, acc) /\ MergeAll(txs) = acc[n]
    BY MergeLoop
  <1> DEFINE Q == {i \in 0..n : Balanced(acc[i])}
  <1>2. 0 \in Q
    <2>1. acc[0] = EmptyTx /\ 0 \in 0..n
      BY <1>1 DEF Loop
    <2> QED BY <2>1, EmptyBalanced
  <1>3. ASSUME NEW i \in 0..n - 1, i \in Q PROVE i + 1 \in Q
    <2>1. i + 1 \in 1..n /\ i + 1 - 1 = i /\ i + 1 \in 0..n
      OBVIOUS
    <2>2. acc[i + 1] = Merge(acc[i], txs[i + 1])
      BY <1>1, <2>1 DEF Loop, Apply
    <2> QED BY <1>3, <2>1, <2>2, MergeBalanced
  <1> HIDE DEF Q
  <1>4. n \in Q
    <2>1. \A i \in 0..n : i \in Q
      BY <1>2, <1>3, Upward
    <2> QED BY <2>1
  <1> QED BY <1>1, <1>4 DEF Q

LEMMA ResolveBalanced ==
    ASSUME NEW s, NEW mint, NEW k, NEW idempotent
    PROVE  Balanced(resolveOrCreateATA(s, mint, k, idempotent))
  <1> DEFINE create == [op |-> "create", acct |-> <<Native, k>>, idempotent |-> FALSE]
             closing == [op |-> "closeAcct", acct |-> <<Native, k>>]
  <1>1. Balanced(createWrappedNativeAccountInstruction(k))
    <2>1. /\ createWrappedNativeAccountInstruction(k).body = <<create>>
          /\ createWrappedNativeAccountInstruction(k).cleanup = <<closing>>
      BY DEF createWrappedNativeAccountInstruction
    <2>2. Proper(create) /\ create.acct = closing.acct /\ closing.op = "closeAcct"
      BY DEF Proper, Ops
    <2> HIDE DEF create, closing
    <2>3. IsSeq(<<create>>) /\ ToSet(<<create>>) = {create}
      BY Single_
    <2>4. IsSeq(<<closing>>) /\ ToSet(<<closing>>) = {closing}
      BY Single_
    <2> QED BY <2>1, <2>2, <2>3, <2>4 DEF Balanced, ClosedLater
  <1>2. Balanced(Single([op |-> "create", acct |-> ATA(mint), idempotent |-> idempotent]))
    <2> DEFINE ix == [op |-> "create", acct |-> ATA(mint), idempotent |-> idempotent]
    <2>1. Proper(ix) /\ ix.acct[2] = 0
      BY DEF Proper, Ops, ATA
    <2> HIDE DEF ix
    <2>2. Balanced(Single(ix))
      BY <2>1, SingleBalanced
    <2> QED BY <2>2 DEF ix
  <1> QED BY <1>1, <1>2, EmptyBalanced DEF resolveOrCreateATA

LEMMA ResolveAllBalanced ==
    ASSUME NEW s, NEW mints, NEW k, NEW idempotent, NEW n \in Nat, DOMAIN mints = 1..n
    PROVE  Balanced(resolveOrCreateATAs(s, mints, k, idempotent))
  <1> DEFINE txs == [i \in DOMAIN mints |-> resolveOrCreateATA(s, mints[i], k, idempotent)]
  <1>1. DOMAIN txs = 1..n /\ \A i \in 1..n : Balanced(txs[i])
    BY ResolveBalanced
  <1>2. resolveOrCreateATAs(s, mints, k, idempotent) = MergeAll(txs)
    BY DEF resolveOrCreateATAs
  <1> HIDE DEF txs
  <1> QED BY <1>1, <1>2, MergeAllBalanced

LEMMA WithAccountsBalanced ==
    ASSUME NEW s, NEW touched, NEW mints, NEW ixs, NEW k, IsSeq(mints), Balanced(ixs)
    PROVE  Balanced(WithAccounts(s, touched, mints, ixs, k))
  <1> DEFINE missing == Among(mints, ToSet(mints) \ touched)
  <1>1. IsSeq(missing)
    BY AmongKeeps
  <1>2. Len(missing) \in Nat /\ DOMAIN missing = 1..Len(missing)
    BY <1>1, SeqFacts
  <1> HIDE DEF missing
  <1>3. Balanced(resolveOrCreateATAs(s, missing, k, TRUE))
    BY <1>2, ResolveAllBalanced
  <1> QED BY <1>3, MergeBalanced DEF WithAccounts, missing

\* The factory that fills transactions.
Factory(f) ==
    /\ DOMAIN f = {"done", "pending", "touched", "known", "thrown"}
    /\ Transactions(f.done) /\ Balanced(f.pending)

LEMMA TransactionsAppend ==
    ASSUME NEW txs, NEW tx, Transactions(txs), Balanced(tx)
    PROVE  Transactions(Append(txs, tx))
  <1>1. IsSeq(Append(txs, tx)) /\ ToSet(Append(txs, tx)) = ToSet(txs) \cup {tx}
    BY Appended DEF Transactions
  <1> QED BY <1>1 DEF Transactions

LEMMA FactoryStarts == ASSUME NEW known PROVE Factory(NewFactory(known))
  BY EmptyBalanced, EmptyIsSeq DEF Factory, NewFactory, Transactions

LEMMA FactoryAdds ==
    ASSUME NEW f, NEW s, NEW mints, NEW ixs, Factory(f), IsSeq(mints), \A k \in Nat : Balanced(ixs[k])
    PROVE  Factory(addInstructions(f, s, mints, ixs))
  <1> DEFINE k    == Len(f.done) + 1
             here == Merge(f.pending, WithAccounts(s, f.touched, mints, ixs[k], k))
             next == WithAccounts(s, {}, mints, ixs[k + 1], k + 1)
  <1>1. k \in Nat /\ k + 1 \in Nat
    BY SeqFacts DEF Factory, Transactions
  <1>2. Balanced(here) /\ Balanced(next)
    BY <1>1, WithAccountsBalanced, MergeBalanced DEF Factory
  <1>3. Transactions(Append(f.done, f.pending))
    BY TransactionsAppend DEF Factory
  <1>4. \/ addInstructions(f, s, mints, ixs) = [f EXCEPT !.thrown = TRUE]
        \/ addInstructions(f, s, mints, ixs) = [f EXCEPT !.pending = here, !.touched = @ \cup ToSet(mints)]
        \/ addInstructions(f, s, mints, ixs) =
              [f EXCEPT !.done = Append(@, f.pending), !.pending = next, !.touched = ToSet(mints)]
    BY DEF addInstructions
  <1> HIDE DEF k, here, next
  <1> QED BY <1>2, <1>3, <1>4 DEF Factory

LEMMA FactoryBuilds == ASSUME NEW f, Factory(f) PROVE Transactions(build(f))
  BY TransactionsAppend DEF Factory, build

-----------------------------------------------------------------------------
(* What each call returns. *)

LEMMA Instructions ==
    ASSUME NEW p, NEW amount, NEW price, NEW accts, NEW index, NEW acct
    PROVE  /\ Proper(decreaseIx(p, amount, price, accts)) /\ decreaseIx(p, amount, price, accts).op = "decrease"
           /\ amount \in Nat => Proper(increaseIx(p, amount, price, accts))
           /\ increaseIx(p, amount, price, accts).op = "increase"
           /\ Proper(feesIx(p, accts)) /\ feesIx(p, accts).op = "fees" /\ feesIx(p, accts).pos = p
           /\ Proper(rewardIx(p, index, acct)) /\ rewardIx(p, index, acct).op = "reward"
           /\ rewardIx(p, index, acct).pos = p /\ rewardIx(p, index, acct).index = index
           /\ Proper(updateFeesAndRewardsIx(p)) /\ updateFeesAndRewardsIx(p).op = "update"
           /\ updateFeesAndRewardsIx(p).pos = p
           /\ Proper(closePositionIx(p)) /\ closePositionIx(p).op = "close"
           /\ p \in Positions => Proper(openPositionIx(p))
           /\ openPositionIx(p).op = "open"
  <1>1. Proper(decreaseIx(p, amount, price, accts)) /\ decreaseIx(p, amount, price, accts).op = "decrease"
    BY DEF Proper, Ops, decreaseIx, decreaseLiquidityIx, decreaseLiquidityV2Ix
  <1>2. /\ increaseIx(p, amount, price, accts).op = "increase"
        /\ increaseIx(p, amount, price, accts).amount = amount
    BY DEF increaseIx, increaseLiquidityIx, increaseLiquidityV2Ix
  <1>3. feesIx(p, accts).op = "fees" /\ feesIx(p, accts).pos = p
    BY DEF feesIx, collectFeesIx, collectFeesV2Ix
  <1>4. /\ rewardIx(p, index, acct).op = "reward" /\ rewardIx(p, index, acct).pos = p
        /\ rewardIx(p, index, acct).index = index
    BY DEF rewardIx, collectRewardIx, collectRewardV2Ix
  <1>5. updateFeesAndRewardsIx(p).op = "update" /\ updateFeesAndRewardsIx(p).pos = p
    BY DEF updateFeesAndRewardsIx
  <1>6. closePositionIx(p).op = "close"
    BY DEF closePositionIx
  <1>7. openPositionIx(p).op = "open" /\ openPositionIx(p).pos = p
    BY DEF openPositionIx
  <1> QED BY <1>1, <1>2, <1>3, <1>4, <1>5, <1>6, <1>7 DEF Proper, Ops

LEMMA InstructionsBalanced ==
    ASSUME NEW p, NEW amount, NEW price, NEW accts, NEW index, NEW acct
    PROVE  /\ Balanced(Single(decreaseIx(p, amount, price, accts)))
           /\ amount \in Nat => Balanced(Single(increaseIx(p, amount, price, accts)))
           /\ Balanced(Single(feesIx(p, accts)))
           /\ Balanced(Single(rewardIx(p, index, acct)))
           /\ Balanced(Single(updateFeesAndRewardsIx(p)))
           /\ Balanced(Single(closePositionIx(p)))
           /\ p \in Positions => Balanced(Single(openPositionIx(p)))
  BY Instructions, SingleBalanced

LEMMA Pairs ==
    ASSUME NEW p \in Positions
    PROVE  /\ IsSeq(PairOf[p]) /\ DOMAIN PairOf[p] = 1..2
           /\ PairOf[p] = <<PairOf[p][1], PairOf[p][2]>>
           /\ IsSeq(RewardsOf[p])
           /\ Len(RewardsOf[p]) \in Nat /\ DOMAIN RewardsOf[p] = 1..Len(RewardsOf[p])
  <1>1. PairOf[p] \in Mints \X Mints
    BY LedgerAssumption
  <1>2. PairOf[p] = <<PairOf[p][1], PairOf[p][2]>> /\ DOMAIN PairOf[p] = 1..2
    BY <1>1
  <1>3. PairOf[p] = [i \in 1..2 |-> PairOf[p][i]]
    BY <1>2
  <1>4. RewardsOf[p] \in Seq(Mints \cup {None})
    BY LedgerAssumption
  <1> QED BY <1>2, <1>3, <1>4, Listed, OfSeq, LenProperties

LEMMA Numbers ==
    ASSUME NEW p \in Positions, NEW set
    PROVE  IsSeq(Among([i \in DOMAIN RewardsOf[p] |-> i], set))
  <1> DEFINE s == [i \in DOMAIN RewardsOf[p] |-> i]
  <1>1. s = [i \in 1..Len(RewardsOf[p]) |-> s[i]] /\ Len(RewardsOf[p]) \in Nat
    BY Pairs
  <1> HIDE DEF s
  <1>2. IsSeq(s)
    BY <1>1, Listed
  <1>3. IsSeq(Among(s, set))
    BY <1>2, AmongKeeps
  <1> QED BY <1>3 DEF s

LEMMA CloseReturns ==
    ASSUME NEW s, NEW p \in Positions
    PROVE  Transactions(build(getClosePositionIx(s, p)))
  <1> DEFINE f0 == NewFactory(getTokenMints(p, mintType(s, p)))
             f1 == AddDecrease(f0, s, p)
             f2 == AddFees(f1, s, p)
             f3 == AddRewards(f2, s, p)
             n == Len(rewardsToCollect(s, p))
  <1>1. Factory(f1)
    BY FactoryStarts, FactoryAdds, InstructionsBalanced, Pairs DEF AddDecrease
  <1> HIDE DEF f1
  <1>2. Factory(f2)
    BY <1>1, FactoryAdds, InstructionsBalanced, Pairs DEF AddFees
  <1> HIDE DEF f2
  <1>3. n \in Nat /\ DOMAIN rewardsToCollect(s, p) = 1..n
    BY Numbers, SeqFacts DEF rewardsToCollect
  <1>4. PICK acc : /\ Loop("close", <<s, p>>, f2, [i \in 1..n |-> i], n, acc)
                   /\ f3 = acc[n]
    BY <1>3, CloseLoop, ZenonT(60)
  <1> HIDE DEF n
  <1> DEFINE Q == {i \in 0..n : Factory(acc[i])}
  <1>5. 0 \in Q
    BY <1>2, <1>3, <1>4 DEF Loop
  <1>6. ASSUME NEW i \in 0..n - 1, i \in Q PROVE i + 1 \in Q
    <2>1. i + 1 \in 1..n /\ i + 1 - 1 = i /\ i + 1 \in 0..n
      BY <1>3
    <2>2. acc[i + 1] = AddReward(acc[i], s, p, i + 1)
      BY <1>4, <2>1 DEF Loop, Apply
    <2>3. Factory(AddReward(acc[i], s, p, i + 1))
      BY <1>6, FactoryAdds, InstructionsBalanced, Single_ DEF AddReward
    <2> QED BY <2>1, <2>2, <2>3
  <1> HIDE DEF Q
  <1>7. n \in Q
    <2>1. \A i \in 0..n : i \in Q
      BY <1>3, <1>5, <1>6, Upward
    <2> QED BY <1>3, <2>1
  <1>8. Factory(f3)
    BY <1>4, <1>7 DEF Q
  <1> HIDE DEF f3
  <1>9. Factory(getClosePositionIx(s, p))
    BY <1>8, FactoryAdds, InstructionsBalanced, EmptyIsSeq DEF getClosePositionIx, f1, f2, f3
  <1> QED BY <1>9, FactoryBuilds

LEMMA FeesReturn ==
    ASSUME NEW s, NEW object, NEW p \in Positions, NEW map
    PROVE  Balanced(CollectFeesTx(s, object, p, map))
  <1> DEFINE pool  == Among(PairOf[p], Mints \ {Native})
             sol   == Among(PairOf[p], {Native})
             accts == IF map = None THEN AccountsOf(PairOf[p], 1) ELSE [n \in {1, 2} |-> ATA(PairOf[p][n])]
             first == IF map = None THEN resolveOrCreateATAs(s, pool \o sol, 1, FALSE) ELSE EmptyTx
             txs == <<first, UpdateTx(object, p), Single(feesIx(p, accts))>>
  <1>1. IsSeq(pool) /\ IsSeq(sol)
    BY Pairs, AmongKeeps
  <1> HIDE DEF pool, sol
  <1>2. IsSeq(pool \o sol)
    BY <1>1, Joined
  <1>3. Len(pool \o sol) \in Nat /\ DOMAIN (pool \o sol) = 1..Len(pool \o sol)
    BY <1>2, SeqFacts
  <1>4. Balanced(first)
    BY <1>3, ResolveAllBalanced, EmptyBalanced
  <1>5. Balanced(UpdateTx(object, p))
    BY InstructionsBalanced, EmptyBalanced DEF UpdateTx
  <1>6. CollectFeesTx(s, object, p, map) = MergeAll(txs)
    BY DEF CollectFeesTx, pool, sol
  <1> HIDE DEF accts, first
  <1>7. Balanced(Single(feesIx(p, accts)))
    BY InstructionsBalanced
  <1>8. DOMAIN txs = 1..3 /\ \A i \in 1..3 : Balanced(txs[i])
    BY <1>4, <1>5, <1>7
  <1> HIDE DEF txs
  <1> QED BY <1>6, <1>8, MergeAllBalanced

\* A set of indices that is not empty has a least one.
LEMMA MinIs ==
    ASSUME NEW n \in Nat, NEW S \in SUBSET (1..n), S # {}
    PROVE  Min(S) \in S
  <1>1. IsWellFoundedOn(OpToRel(<, Nat), Nat)
    BY NatLessThanWellFounded
  <1>2. S \subseteq Nat
    OBVIOUS
  <1>3. PICK m \in S : \A k \in S : ~ (<<k, m>> \in OpToRel(<, Nat))
    BY <1>1, <1>2, WFMin
  <1>4. ASSUME NEW k \in S PROVE m <= k
    <2>1. k \in Nat /\ m \in Nat
      BY <1>2
    <2>2. k < m => <<k, m>> \in OpToRel(<, Nat)
      BY <2>1 DEF OpToRel
    <2>3. ~(<<k, m>> \in OpToRel(<, Nat))
      BY <1>3
    <2>4. ~(k < m)
      BY <2>2, <2>3
    <2> QED BY <2>1, <2>4
  <1> QED BY <1>4 DEF Min

LEMMA LeadingIsSeq ==
    ASSUME NEW p \in Positions, NEW asked
    PROVE  IsSeq(Leading(p, asked)) /\ ToSet(Leading(p, asked)) \subseteq Rewards(p)
  <1> DEFINE s == initializedRewards(p)
             unasked == {n \in DOMAIN s : RewardsOf[p][s[n]] \notin asked}
             last == IF unasked = {} THEN Len(s) ELSE Min(unasked) - 1
  <1>1. IsSeq(s) /\ ToSet(s) \subseteq Rewards(p)
    <2> DEFINE t == [i \in DOMAIN RewardsOf[p] |-> i]
    <2>1. t = [i \in 1..Len(RewardsOf[p]) |-> t[i]] /\ Len(RewardsOf[p]) \in Nat
      BY Pairs
    <2> HIDE DEF t
    <2>2. IsSeq(Among(t, Rewards(p))) /\ ToSet(Among(t, Rewards(p))) \subseteq Rewards(p)
      BY <2>1, Listed, AmongKeeps
    <2> QED BY <2>2 DEF initializedRewards, t
  <1>2. Len(s) \in Nat /\ DOMAIN s = 1..Len(s) /\ \A i \in 1..Len(s) : s[i] \in ToSet(s)
    BY <1>1, SeqFacts
  <1>3. last \in Int /\ last <= Len(s)
    <2>1. unasked # {} => Min(unasked) \in 1..Len(s)
      BY <1>2, MinIs
    <2> QED BY <1>2, <2>1
  <1>4. Leading(p, asked) = SubSeq(s, 1, last)
    BY DEF Leading
  <1> HIDE DEF s, last
  <1>5. SubSeq(s, 1, last) \in Seq(ToSet(s))
    <2>1. \A i \in 1..last : s[i] \in ToSet(s)
      BY <1>2, <1>3
    <2> QED BY <1>3, <2>1, SubSeqProperties
  <1> QED BY <1>1, <1>4, <1>5, OfSeq

LEMMA RewardsReturn ==
    ASSUME NEW s, NEW object, NEW p \in Positions, NEW asked, NEW map
    PROVE  Transactions(build(CollectRewardsFactory(s, object, p, asked, map)))
  <1> DEFINE start  == NewFactory(IF map = None THEN getTokenMints(p, "reward") ELSE map)
             update == IF object[p] > 0
                       THEN addInstructions(start, s, <<>>, [k \in Nat |-> UpdateTx(object, p)]) ELSE start
             h == Holding(s, map)
             is == Leading(p, asked)
             n == Len(is)
  <1>1. Balanced(UpdateTx(object, p))
    BY InstructionsBalanced, EmptyBalanced DEF UpdateTx
  <1>2. Factory(update)
    BY <1>1, FactoryStarts, FactoryAdds, EmptyIsSeq
  <1>3. n \in Nat /\ DOMAIN is = 1..n
    BY LeadingIsSeq, SeqFacts
  <1>4. CollectRewardsFactory(s, object, p, asked, map) = AddAllAsked(update, h, p, is)
    BY DEF CollectRewardsFactory
  <1> HIDE DEF update, h, is, n
  <1>5. PICK acc : Loop("rewards", <<h, p>>, update, is, n, acc) /\ AddAllAsked(update, h, p, is) = acc[n]
    BY <1>3, RewardsLoop
  <1> DEFINE Q == {i \in 0..n : Factory(acc[i])}
  <1>6. 0 \in Q
    BY <1>2, <1>3, <1>5 DEF Loop
  <1>7. ASSUME NEW i \in 0..n - 1, i \in Q PROVE i + 1 \in Q
    <2>1. i + 1 \in 1..n /\ i + 1 - 1 = i /\ i + 1 \in 0..n
      BY <1>3
    <2>2. acc[i + 1] = AddAsked(acc[i], h, p, is[i + 1])
      BY <1>5, <2>1 DEF Loop, Apply
    <2>3. Factory(AddAsked(acc[i], h, p, is[i + 1]))
      BY <1>7, FactoryAdds, InstructionsBalanced, Single_ DEF AddAsked
    <2> QED BY <2>1, <2>2, <2>3
  <1> HIDE DEF Q
  <1>8. n \in Q
    <2>1. \A i \in 0..n : i \in Q
      BY <1>3, <1>6, <1>7, Upward
    <2> QED BY <1>3, <2>1
  <1>9. Factory(acc[n])
    BY <1>8 DEF Q
  <1> QED BY <1>4, <1>5, <1>9, FactoryBuilds

LEMMA LiquidityReturns ==
    ASSUME NEW s, NEW p \in Positions, NEW amount, NEW resolveATA
    PROVE  /\ Balanced(IncreaseTx(s, p, resolveATA))
           /\ Balanced(DecreaseTx(s, p, amount, resolveATA))
           /\ Balanced(OpenTx(s, p))
  <1>1. ASSUME NEW r PROVE Balanced(Resolve(s, p, r, 1))
    BY Pairs, ResolveAllBalanced, EmptyBalanced DEF Resolve
  <1>2. ASSUME NEW r PROVE Balanced(IncreaseTx(s, p, r))
    <2>1. Balanced(Single(increaseIx(p, 1, s.price, OwnerAccounts(p, r, 1))))
      BY InstructionsBalanced
    <2> QED BY <1>1, <2>1, MergeBalanced DEF IncreaseTx
  <1>3. Balanced(DecreaseTx(s, p, amount, resolveATA))
    BY <1>1, InstructionsBalanced, MergeBalanced DEF DecreaseTx
  <1>4. Balanced(OpenTx(s, p))
    BY <1>2, InstructionsBalanced, MergeBalanced DEF OpenTx
  <1> QED BY <1>2, <1>3, <1>4

-----------------------------------------------------------------------------
(* Collecting everything. *)

\* The parts of a sequence of sequences, joined one after the other.
Joins(seqs, n, f) ==
    /\ n > 0 => f[1] = seqs[1]
    /\ \A i \in 2..n : f[i] = f[i - 1] \o seqs[i]

LEMMA FlattenLoop ==
    ASSUME NEW seqs, NEW n \in Nat \ {0}, Len(seqs) = n
    PROVE  \E f : Joins(seqs, n, f) /\ FlattenSeq(seqs) = f[n]
  <1> DEFINE F(f, i) == IF i = 1 THEN seqs[i] ELSE f[i - 1] \o seqs[i]
             Q == {m \in 0..n : \E f : f = [i \in 1..m |-> F(f, i)]}
             k == CHOOSE f : f = [i \in 1..n |-> F(f, i)]
  <1>0. n \in Nat /\ n > 0 /\ 0 \in 0..n /\ 1 \in 1..n
    OBVIOUS
  <1>1. 0 \in Q
    <2> DEFINE f == [i \in 1..0 |-> 0]
    <2>1. \A i \in 1..0 : FALSE
      OBVIOUS
    <2>2. f = [i \in 1..0 |-> F(f, i)]
      BY <2>1
    <2> HIDE DEF f
    <2> QED BY <1>0, <2>2
  <1>2. ASSUME NEW m \in 0..n - 1, m \in Q PROVE m + 1 \in Q
    <2>1. PICK f : f = [i \in 1..m |-> F(f, i)]
      BY <1>2
    <2> DEFINE g == [i \in 1..m + 1 |-> IF i = m + 1 THEN F(f, i) ELSE f[i]]
    <2>2. ASSUME NEW i \in 1..m + 1 PROVE g[i] = F(g, i)
      <3>1. CASE i = m + 1
        <4>1. i # 1 => i - 1 \in 1..m + 1 /\ i - 1 # m + 1
          BY <3>1
        <4> QED BY <3>1, <4>1
      <3>2. CASE i # m + 1
        <4>1. i \in 1..m /\ (i # 1 => i - 1 \in 1..m + 1 /\ i - 1 # m + 1)
          BY <3>2
        <4>2. f[i] = F(f, i)
          BY <2>1, <4>1
        <4> QED BY <3>2, <4>1, <4>2
      <3> QED BY <3>1, <3>2
    <2>3. g = [i \in 1..m + 1 |-> g[i]]
      OBVIOUS
    <2> HIDE DEF g
    <2>4. [i \in 1..m + 1 |-> g[i]] = [i \in 1..m + 1 |-> F(g, i)]
      BY <2>2
    <2>5. m + 1 \in 0..n
      OBVIOUS
    <2> QED BY <2>3, <2>4, <2>5
  <1> HIDE DEF Q
  <1>3. n \in Q
    <2>1. \A i \in 0..n : i \in Q
      BY <1>1, <1>2, Upward
    <2> QED BY <2>1
  <1>4. k = [i \in 1..n |-> F(k, i)]
    BY <1>3 DEF Q
  <1>5. FlattenSeq(seqs) = k[n]
    BY DEF FlattenSeq
  <1> HIDE DEF k
  <1>6. k[1] = seqs[1] /\ \A i \in 2..n : k[i] = k[i - 1] \o seqs[i]
    <2>1. k[1] = F(k, 1)
      BY <1>0, <1>4
    <2>2. ASSUME NEW i \in 2..n PROVE k[i] = k[i - 1] \o seqs[i]
      <3>1. i \in 1..n /\ i # 1
        OBVIOUS
      <3>2. k[i] = F(k, i)
        BY <1>4, <3>1
      <3> QED BY <3>1, <3>2
    <2> QED BY <2>1, <2>2
  <1> QED BY <1>5, <1>6 DEF Joins

LEMMA FlattenIsSeq ==
    ASSUME NEW seqs, IsSeq(seqs), \A x \in ToSet(seqs) : IsSeq(x)
    PROVE  /\ IsSeq(FlattenSeq(seqs))
           /\ \A y \in ToSet(FlattenSeq(seqs)) : \E x \in ToSet(seqs) : y \in ToSet(x)
  <1> DEFINE n == Len(seqs)
  <1>1. n \in Nat /\ \A i \in 1..n : seqs[i] \in ToSet(seqs)
    BY SeqFacts
  <1>2. CASE n = 0
    <2>1. seqs = <<>>
      BY <1>2, EmptySeq DEF IsSeq
    <2>2. FlattenSeq(seqs) = <<>>
      BY <1>2, <2>1 DEF FlattenSeq
    <2> QED BY <2>2, EmptyIsSeq
  <1>3. CASE n # 0
    <2>1. n \in Nat \ {0}
      BY <1>1, <1>3
    <2> HIDE DEF n
    <2>2. PICK f : Joins(seqs, n, f) /\ FlattenSeq(seqs) = f[n]
      BY <2>1, FlattenLoop DEF n
    <2> DEFINE P(s) == IsSeq(s) /\ \A y \in ToSet(s) : \E x \in ToSet(seqs) : y \in ToSet(x)
               Q == {m \in 0..n - 1 : P(f[m + 1])}
    <2>3. 0 \in Q
      <3>1. n > 0 /\ 1 \in 1..n
        BY <2>1
      <3>2. f[1] = seqs[1]
        BY <2>2, <3>1 DEF Joins
      <3>3. seqs[1] \in ToSet(seqs) /\ 0 \in 0..n - 1
        BY <1>1, <2>1, <3>1
      <3>4. P(seqs[1])
        BY <3>3
      <3> QED BY <3>2, <3>3, <3>4
    <2>4. ASSUME NEW m \in 0..n - 1 - 1, m \in Q PROVE m + 1 \in Q
      <3>1. m + 2 \in 2..n /\ m + 2 \in 1..n /\ (m + 2) - 1 = m + 1 /\ m + 1 + 1 = m + 2 /\ m + 1 \in 0..n - 1
        BY <2>1
      <3>2. f[m + 2] = f[m + 1] \o seqs[m + 2]
        <4>1. \A i \in 2..n : f[i] = f[i - 1] \o seqs[i]
          BY <2>2, Zenon DEF Joins
        <4>2. f[m + 2] = f[(m + 2) - 1] \o seqs[m + 2]
          BY <3>1, <4>1, Zenon
        <4> QED BY <3>1, <4>2, Zenon
      <3>3. IsSeq(seqs[m + 2]) /\ IsSeq(f[m + 1]) /\ seqs[m + 2] \in ToSet(seqs)
        BY <1>1, <2>4, <3>1
      <3>4. IsSeq(f[m + 2]) /\ ToSet(f[m + 2]) = ToSet(f[m + 1]) \cup ToSet(seqs[m + 2])
        BY <3>2, <3>3, Joined
      <3>5. P(f[m + 2])
        BY <2>4, <3>3, <3>4
      <3> QED BY <3>1, <3>5
    <2> HIDE DEF Q
    <2>5. n - 1 \in Q
      <3>1. \A i \in 0..n - 1 : i \in Q
        BY <2>1, <2>3, <2>4, Upward
      <3> QED BY <2>1, <3>1
    <2>6. P(f[n])
      BY <2>1, <2>5 DEF Q
    <2> QED BY <2>2, <2>6
  <1> QED BY <1>2, <1>3

\* A task is a position of the list that the client knows, and 0 or one of
\* its rewards.
LEMMA TasksAre ==
    ASSUME NEW cache
    PROVE  /\ IsSeq(collectionTasks(cache))
           /\ \A task \in ToSet(collectionTasks(cache)) :
                 \E p \in Positions : \E i \in {0} \cup Rewards(p) : task = <<p, i>>
  <1> DEFINE lists == [n \in DOMAIN PositionList |->
                          IF PositionList[n] \in DOMAIN cache THEN TasksOf(PositionList[n]) ELSE <<>>]
  <1>1. /\ Len(PositionList) \in Nat /\ DOMAIN PositionList = 1..Len(PositionList)
        /\ \A n \in 1..Len(PositionList) : PositionList[n] \in Positions
    BY ListAssumption, LenProperties, ElementOfSeq
  <1>2. ASSUME NEW p \in Positions
        PROVE  IsSeq(TasksOf(p)) /\ \A task \in ToSet(TasksOf(p)) : \E i \in {0} \cup Rewards(p) : task = <<p, i>>
    <2> DEFINE kept == initializedRewards(p)
               rest == [n \in DOMAIN kept |-> <<p, kept[n]>>]
    <2>1. IsSeq(kept) /\ ToSet(kept) \subseteq Rewards(p)
      <3> DEFINE t == [i \in DOMAIN RewardsOf[p] |-> i]
      <3>1. t = [i \in 1..Len(RewardsOf[p]) |-> t[i]] /\ Len(RewardsOf[p]) \in Nat
        BY Pairs
      <3> HIDE DEF t
      <3>2. IsSeq(Among(t, Rewards(p))) /\ ToSet(Among(t, Rewards(p))) \subseteq Rewards(p)
        BY <3>1, Listed, AmongKeeps
      <3> QED BY <3>2 DEF initializedRewards, t
    <2>2. Len(kept) \in Nat /\ DOMAIN kept = 1..Len(kept) /\ \A i \in 1..Len(kept) : kept[i] \in ToSet(kept)
      BY <2>1, SeqFacts
    <2> HIDE DEF kept
    <2>3. IsSeq(rest)
      <3>1. rest = [i \in 1..Len(kept) |-> rest[i]]
        BY <2>2
      <3> HIDE DEF rest
      <3> QED BY <2>2, <3>1, Listed
    <2>4. \A task \in ToSet(rest) : \E i \in Rewards(p) : task = <<p, i>>
      BY <2>1, <2>2 DEF ToSet
    <2>5. TasksOf(p) = <<<<p, 0>>>> \o rest
      BY DEF TasksOf, kept
    <2> HIDE DEF rest
    <2>6. IsSeq(TasksOf(p)) /\ ToSet(TasksOf(p)) = {<<p, 0>>} \cup ToSet(rest)
      BY <2>3, <2>5, Single_, Joined, SMTT(60)
    <2> QED BY <2>4, <2>6
  <1>3. IsSeq(lists)
    <2>1. lists = [i \in 1..Len(PositionList) |-> lists[i]]
      BY <1>1
    <2> HIDE DEF lists
    <2> QED BY <1>1, <2>1, Listed
  <1>4. ASSUME NEW x \in ToSet(lists)
        PROVE  IsSeq(x) /\ \A task \in ToSet(x) : \E p \in Positions : \E i \in {0} \cup Rewards(p) : task = <<p, i>>
    <2>1. x = <<>> \/ \E p \in Positions : x = TasksOf(p)
      BY <1>1 DEF ToSet
    <2> QED BY <1>2, <2>1, EmptyIsSeq
  <1>5. collectionTasks(cache) = FlattenSeq(lists)
    BY DEF collectionTasks
  <1> HIDE DEF lists
  <1> QED BY <1>3, <1>4, <1>5, FlattenIsSeq

\* Resolving token accounts only creates accounts.
Creates(tx) == \A ix \in ToSet(tx.body) : ix.op = "create"

LEMMA ResolveAllCreates ==
    ASSUME NEW s, NEW mints, NEW k, NEW idempotent, NEW n \in Nat, DOMAIN mints = 1..n
    PROVE  Creates(resolveOrCreateATAs(s, mints, k, idempotent))
  <1> DEFINE txs == [i \in DOMAIN mints |-> resolveOrCreateATA(s, mints[i], k, idempotent)]
  <1>1. ASSUME NEW mint PROVE Creates(resolveOrCreateATA(s, mint, k, idempotent))
    <2>1. ASSUME NEW ix, ix.op = "create" PROVE ToSet(<<ix>>) = {ix}
      BY Single_
    <2>2. Creates(createWrappedNativeAccountInstruction(k))
      BY Single_ DEF Creates, createWrappedNativeAccountInstruction
    <2>3. Creates(Single([op |-> "create", acct |-> ATA(mint), idempotent |-> idempotent]))
      BY Single_ DEF Creates, Single
    <2>4. Creates(EmptyTx)
      BY EmptyIsSeq DEF Creates, EmptyTx
    <2> QED BY <2>2, <2>3, <2>4 DEF resolveOrCreateATA
  <1>2. DOMAIN txs = 1..n /\ \A i \in 1..n : Balanced(txs[i]) /\ Creates(txs[i])
    BY <1>1, ResolveBalanced
  <1>3. resolveOrCreateATAs(s, mints, k, idempotent) = MergeAll(txs)
    BY DEF resolveOrCreateATAs
  <1> HIDE DEF txs
  <1>4. PICK acc : Loop("merge", <<>>, EmptyTx, txs, n, acc) /\ MergeAll(txs) = acc[n]
    BY <1>2, MergeLoop
  <1> DEFINE Q == {i \in 0..n : Balanced(acc[i]) /\ Creates(acc[i])}
  <1>5. 0 \in Q
    <2>1. acc[0] = EmptyTx /\ 0 \in 0..n
      BY <1>4 DEF Loop
    <2>2. Creates(EmptyTx)
      BY EmptyIsSeq DEF Creates, EmptyTx
    <2> QED BY <2>1, <2>2, EmptyBalanced
  <1>6. ASSUME NEW i \in 0..n - 1, i \in Q PROVE i + 1 \in Q
    <2>1. i + 1 \in 1..n /\ (i + 1) - 1 = i /\ i + 1 \in 0..n
      OBVIOUS
    <2>2. acc[i + 1] = Merge(acc[i], txs[i + 1])
      BY <1>4, <2>1 DEF Loop, Apply
    <2>3. Balanced(acc[i + 1])
      BY <1>2, <1>6, <2>1, <2>2, MergeBalanced
    <2>4. acc[i + 1].body = acc[i].body \o txs[i + 1].body
      BY <2>2, MergeIs
    <2>5. ToSet(acc[i + 1].body) = ToSet(acc[i].body) \cup ToSet(txs[i + 1].body)
      BY <1>2, <1>6, <2>1, <2>4, Joined DEF Balanced
    <2>6. Creates(acc[i + 1])
      BY <1>2, <1>6, <2>1, <2>5 DEF Creates
    <2> QED BY <2>1, <2>3, <2>6
  <1> HIDE DEF Q
  <1>7. n \in Q
    <2>1. \A i \in 0..n : i \in Q
      BY <1>5, <1>6, Upward
    <2> QED BY <2>1
  <1> QED BY <1>3, <1>4, <1>7 DEF Q

\* Accounts are created, and then there is one more instruction.
EndsWith(body, ix) ==
    \E c : IsSeq(c) /\ (\A x \in ToSet(c) : x.op = "create") /\ body = c \o <<ix>>

LEMMA WithAccountsBody ==
    ASSUME NEW s, NEW touched, NEW mints, NEW ix, NEW k, IsSeq(mints)
    PROVE  EndsWith(WithAccounts(s, touched, mints, Single(ix), k).body, ix)
  <1> DEFINE missing == Among(mints, ToSet(mints) \ touched)
             created == resolveOrCreateATAs(s, missing, k, TRUE)
  <1>1. IsSeq(missing)
    BY AmongKeeps
  <1>2. Len(missing) \in Nat /\ DOMAIN missing = 1..Len(missing)
    BY <1>1, SeqFacts
  <1> HIDE DEF missing
  <1>3. Balanced(created) /\ Creates(created)
    BY <1>2, ResolveAllBalanced, ResolveAllCreates
  <1>4. WithAccounts(s, touched, mints, Single(ix), k) = Merge(created, Single(ix))
    BY DEF WithAccounts, missing
  <1> HIDE DEF created
  <1>5. Merge(created, Single(ix)).body = created.body \o <<ix>>
    BY DEF Merge, Single
  <1> QED BY <1>3, <1>4, <1>5 DEF Balanced, Creates, EndsWith

\* What is collected was brought up to date before, in the same transaction.
UpdatedBefore(body, i, p) == \E j \in 1..i - 1 : body[j].op = "update" /\ body[j].pos = p

Current(tx, knew) ==
    \A i \in 1..Len(tx.body) :
        tx.body[i].op \in {"fees", "reward"} /\ knew[tx.body[i].pos] > 0 =>
            UpdatedBefore(tx.body, i, tx.body[i].pos)

Updates(tx, p) == \E ix \in ToSet(tx.body) : ix.op = "update" /\ ix.pos = p

LEMMA CollectIxIs ==
    ASSUME NEW p \in Positions, NEW i \in {0} \cup Rewards(p), NEW k
    PROVE  LET ix == CollectIx(<<p, i>>, k)
           IN  /\ Proper(ix) /\ ix.pos = p /\ Balanced(Single(ix))
               /\ ix.op = IF i = 0 THEN "fees" ELSE "reward"
               /\ i # 0 => ix.index = i
  BY Instructions, SingleBalanced DEF CollectIx

LEMMA MintsOfIsSeq ==
    ASSUME NEW p \in Positions, NEW i PROVE IsSeq(MintsOf(<<p, i>>))
  BY Pairs, Single_ DEF MintsOf

\* An update if it is needed, accounts, and a collection.
Collects(body, p, knew, already, ix) ==
    \E u, c : /\ u = IF knew[p] > 0 /\ ~already THEN <<updateFeesAndRewardsIx(p)>> ELSE <<>>
              /\ EndsWith(c, ix) /\ body = u \o c

\* What one task adds: an update if it is needed, accounts, and the collection.
LEMMA TaskBody ==
    ASSUME NEW s, NEW knew, NEW p \in Positions, NEW i \in {0} \cup Rewards(p), NEW already,
           NEW touched, NEW k
    PROVE  LET tx == constructCollectIxForPosition(s, knew, <<p, i>>, already, touched, k)
           IN  /\ Balanced(tx)
               /\ Collects(tx.body, p, knew, already, CollectIx(<<p, i>>, k))
  <1> DEFINE task == <<p, i>>
             ix   == CollectIx(task, k)
             upd  == IF NeedsUpdate(knew, task, already) THEN Single(updateFeesAndRewardsIx(p)) ELSE EmptyTx
             rest == WithAccounts(s, touched, MintsOf(task), Single(ix), k)
  <1>1. constructCollectIxForPosition(s, knew, task, already, touched, k) = Merge(upd, rest)
    BY DEF constructCollectIxForPosition
  <1>2. Balanced(upd)
    BY InstructionsBalanced, EmptyBalanced
  <1>3. upd.body = IF knew[p] > 0 /\ ~already THEN <<updateFeesAndRewardsIx(p)>> ELSE <<>>
    BY DEF NeedsUpdate, Single, EmptyTx
  <1>4. Balanced(Single(ix)) /\ IsSeq(MintsOf(task))
    BY CollectIxIs, MintsOfIsSeq
  <1> HIDE DEF ix
  <1>5. Balanced(rest)
    BY <1>4, WithAccountsBalanced
  <1>6. EndsWith(rest.body, ix)
    BY <1>4, WithAccountsBody
  <1> HIDE DEF upd, rest
  <1>7. Balanced(Merge(upd, rest)) /\ Merge(upd, rest).body = upd.body \o rest.body
    BY <1>2, <1>5, MergeBalanced DEF Merge
  <1>8. Collects(upd.body \o rest.body, p, knew, already, ix)
    BY <1>3, <1>6 DEF Collects
  <1> QED BY <1>1, <1>7, <1>8 DEF ix

\* Where an element of two sequences joined is.
LEMMA InJoined ==
    ASSUME NEW s, NEW t, IsSeq(s), IsSeq(t), NEW i \in 1..Len(s \o t)
    PROVE  \/ i \in 1..Len(s) /\ (s \o t)[i] = s[i]
           \/ \E m \in 1..Len(t) : i = Len(s) + m /\ (s \o t)[i] = t[m]
  <1>1. Len(s) \in Nat /\ Len(t) \in Nat /\ Len(s \o t) = Len(s) + Len(t)
    BY SeqFacts, Joined
  <1>2. CASE i <= Len(s)
    <2>1. i \in 1..Len(s)
      BY <1>1, <1>2
    <2> QED BY <2>1, Joined
  <1>3. CASE ~(i <= Len(s))
    <2>1. i - Len(s) \in 1..Len(t) /\ i = Len(s) + (i - Len(s))
      BY <1>1, <1>3
    <2>2. (s \o t)[Len(s) + (i - Len(s))] = t[i - Len(s)]
      BY <2>1, Joined
    <2> QED BY <2>1, <2>2
  <1> QED BY <1>2, <1>3

\* The pending transaction t with one more task.
Extends(tx, t, u, c, p, ix, knew) ==
    /\ Balanced(t) /\ Current(t, knew)
    /\ ix.op \in {"fees", "reward"} /\ ix.pos = p /\ EndsWith(c, ix)
    /\ \/ u = <<updateFeesAndRewardsIx(p)>>
       \/ u = <<>> /\ (knew[p] > 0 => Updates(t, p))
    /\ tx.body = t.body \o (u \o c)

LEMMA AttemptIs ==
    ASSUME NEW tx, NEW t, NEW u, NEW c, NEW p, NEW ix, NEW knew, Extends(tx, t, u, c, p, ix, knew)
    PROVE  Current(tx, knew) /\ (knew[p] > 0 => Updates(tx, p))
  <1> DEFINE a == t.body
             w == u \o c
             upd == updateFeesAndRewardsIx(p)
  <1>1. upd.op = "update" /\ upd.pos = p
    BY Instructions
  <1>0. /\ Balanced(t) /\ Current(t, knew)
        /\ ix.op \in {"fees", "reward"} /\ ix.pos = p /\ EndsWith(c, ix)
        /\ u = <<upd>> \/ (u = <<>> /\ (knew[p] > 0 => Updates(t, p)))
        /\ tx.body = a \o w
    BY DEF Extends
  <1>2. IsSeq(c) /\ \A x \in ToSet(c) : x.op = "create" \/ x = ix
    <2>1. PICK d : IsSeq(d) /\ (\A x \in ToSet(d) : x.op = "create") /\ c = d \o <<ix>>
      BY <1>0 DEF EndsWith
    <2>2. IsSeq(c) /\ ToSet(c) = ToSet(d) \cup {ix}
      BY <2>1, Single_, Joined
    <2> QED BY <2>1, <2>2
  <1> HIDE DEF upd
  <1>3. IsSeq(u) /\ \A x \in ToSet(u) : x = upd
    BY <1>0, EmptyIsSeq, Single_ DEF upd
  <1>4. IsSeq(w) /\ ToSet(w) = ToSet(u) \cup ToSet(c)
    BY <1>2, <1>3, Joined
  <1>5. IsSeq(a) /\ tx.body = a \o w
    BY <1>0 DEF Balanced
  <1>6. u = <<upd>> => w[1] = upd /\ 1 \in 1..Len(w)
    <2>1. u = <<upd>> => Len(u) = 1 /\ u[1] = upd
      BY Single_
    <2>2. Len(c) \in Nat /\ Len(u) \in Nat /\ Len(w) = Len(u) + Len(c) /\ \A i \in 1..Len(u) : w[i] = u[i]
      BY <1>2, <1>3, SeqFacts, Joined
    <2>3. u = <<upd>> => 1 \in 1..Len(u) /\ 1 \in 1..Len(w)
      BY <2>1, <2>2
    <2> QED BY <2>1, <2>2, <2>3
  <1> HIDE DEF a, w
  <1>7. /\ Len(a) \in Nat /\ Len(w) \in Nat
        /\ \A x \in ToSet(a) : \E i \in 1..Len(a) : a[i] = x
        /\ \A i \in 1..Len(w) : w[i] \in ToSet(w)
    BY <1>4, <1>5, SeqFacts
  <1>8. /\ ToSet(a \o w) = ToSet(a) \cup ToSet(w)
        /\ \A i \in 1..Len(a) : (a \o w)[i] = a[i]
        /\ \A i \in 1..Len(w) : (a \o w)[Len(a) + i] = w[i]
    BY <1>4, <1>5, Joined
  <1>9. knew[p] > 0 => Updates(tx, p)
    <2>1. ASSUME u = <<upd>> PROVE upd \in ToSet(w)
      BY <1>6, <1>7, <2>1
    <2> QED BY <1>0, <1>1, <1>5, <1>8, <2>1 DEF Updates, a
  <1>10. ASSUME NEW i \in 1..Len(a \o w), (a \o w)[i].op \in {"fees", "reward"},
                knew[(a \o w)[i].pos] > 0
         PROVE  UpdatedBefore(a \o w, i, (a \o w)[i].pos)
    <2>1. CASE i \in 1..Len(a) /\ (a \o w)[i] = a[i]
      <3>1. UpdatedBefore(a, i, a[i].pos)
        BY <1>0, <1>10, <2>1 DEF Current, a
      <3>2. PICK j \in 1..i - 1 : a[j].op = "update" /\ a[j].pos = a[i].pos
        BY <3>1 DEF UpdatedBefore
      <3>3. j \in 1..Len(a)
        BY <1>7, <2>1
      <3>4. (a \o w)[j] = a[j]
        BY <1>8, <3>3
      <3> QED BY <2>1, <3>2, <3>4 DEF UpdatedBefore
    <2>2. ASSUME NEW m \in 1..Len(w), i = Len(a) + m, (a \o w)[i] = w[m]
          PROVE  UpdatedBefore(a \o w, i, (a \o w)[i].pos)
      <3>1. w[m] = ix
        <4>1. w[m] \in ToSet(u) \cup ToSet(c) /\ w[m].op # "create" /\ w[m].op # "update"
          BY <1>4, <1>7, <1>10, <2>2
        <4> QED BY <1>0, <1>1, <1>2, <1>3, <4>1
      <3>2. knew[p] > 0
        BY <1>0, <1>10, <2>2, <3>1
      <3>3. CASE u = <<upd>>
        <4>1. m # 1
          BY <1>0, <1>1, <1>6, <3>1, <3>3
        <4>2. Len(a) + 1 \in 1..i - 1
          BY <1>7, <2>2, <4>1
        <4>3. (a \o w)[Len(a) + 1] = upd
          BY <1>6, <1>8, <3>3
        <4> QED BY <1>0, <1>1, <2>2, <3>1, <4>2, <4>3 DEF UpdatedBefore
      <3>4. CASE Updates(t, p)
        <4>1. PICK x \in ToSet(a) : x.op = "update" /\ x.pos = p
          BY <3>4 DEF Updates, a
        <4>2. PICK j \in 1..Len(a) : a[j] = x
          BY <1>7
        <4>3. j \in 1..i - 1 /\ (a \o w)[j] = x
          BY <1>7, <1>8, <2>2, <4>2
        <4> QED BY <1>0, <2>2, <3>1, <4>1, <4>3 DEF UpdatedBefore
      <3> QED BY <1>0, <3>2, <3>3, <3>4
    <2>3. \/ i \in 1..Len(a) /\ (a \o w)[i] = a[i]
          \/ \E m \in 1..Len(w) : i = Len(a) + m /\ (a \o w)[i] = w[m]
      BY <1>4, <1>5, InJoined
    <2> QED BY <2>1, <2>2, <2>3, Zenon
  <1>11. Current(tx, knew)
    BY <1>5, <1>10, Zenon DEF Current
  <1> QED BY <1>9, <1>11

\* The transactions while tasks are packed into them.
Packing(b, knew) ==
    /\ DOMAIN b = {"done", "pending", "touched", "lastUpdatedPosition", "thrown"}
    /\ Transactions(b.done) /\ Balanced(b.pending)
    /\ \A tx \in ToSet(b.done) : Current(tx, knew)
    /\ Current(b.pending, knew)
    /\ b.lastUpdatedPosition # None /\ knew[b.lastUpdatedPosition] > 0 =>
          Updates(b.pending, b.lastUpdatedPosition)

LEMMA EmptyCurrent == ASSUME NEW knew PROVE Current(EmptyTx, knew)
  <1>1. EmptyTx.body = <<>> /\ Len(<<>>) = 0
    BY EmptyIsSeq DEF EmptyTx
  <1> QED BY <1>1 DEF Current

LEMMA AttemptKeeps ==
    ASSUME NEW b, NEW knew, Packing(b, knew), NEW s, NEW p \in Positions, NEW i \in {0} \cup Rewards(p)
    PROVE  Packing(Added(s, knew, b, <<p, i>>), knew)
  <1> DEFINE task == <<p, i>>
             k == Len(b.done) + 1
             already == b.lastUpdatedPosition = p
             part == constructCollectIxForPosition(s, knew, task, already, b.touched, k)
             ix == CollectIx(task, k)
             tx == Attempt(s, knew, b, task)
  <1>1. tx = Merge(b.pending, part) /\ tx.body = b.pending.body \o part.body
    BY MergeIs DEF Attempt
  <1>2. Balanced(part)
    BY TaskBody
  <1>3. PICK u, c : /\ u = IF knew[p] > 0 /\ ~already THEN <<updateFeesAndRewardsIx(p)>> ELSE <<>>
                    /\ EndsWith(c, ix) /\ part.body = u \o c
    <2>1. Collects(part.body, p, knew, already, ix)
      BY TaskBody
    <2> QED BY <2>1 DEF Collects
  <1>4. ix.op \in {"fees", "reward"} /\ ix.pos = p
    BY CollectIxIs
  <1>5. p # None
    BY LedgerAssumption
  <1> HIDE DEF part, ix, tx
  <1>6. Balanced(tx)
    BY <1>1, <1>2, MergeBalanced DEF Packing
  <1>7. \/ u = <<updateFeesAndRewardsIx(p)>>
        \/ u = <<>> /\ (knew[p] > 0 => Updates(b.pending, p))
    BY <1>3, <1>5 DEF Packing
  <1>8. Current(tx, knew) /\ (knew[p] > 0 => Updates(tx, p))
    <2>1. tx.body = b.pending.body \o (u \o c)
      BY <1>1, <1>3
    <2>2. Balanced(b.pending) /\ Current(b.pending, knew)
      BY DEF Packing
    <2>3. Extends(tx, b.pending, u, c, p, ix, knew)
      BY <1>3, <1>4, <1>7, <2>1, <2>2 DEF Extends
    <2> QED BY <2>3, AttemptIs
  <1>9. Added(s, knew, b, task) =
           [b EXCEPT !.pending = tx, !.touched = @ \cup ToSet(MintsOf(task)), !.lastUpdatedPosition = p]
    BY DEF Added, tx
  <1> QED BY <1>6, <1>8, <1>9 DEF Packing

LEMMA StartNextKeeps ==
    ASSUME NEW b, NEW knew, Packing(b, knew)
    PROVE  Packing(StartNext(b), knew)
  <1>1. /\ DOMAIN StartNext(b) = {"done", "pending", "touched", "lastUpdatedPosition", "thrown"}
        /\ StartNext(b).done = Append(b.done, b.pending) /\ StartNext(b).pending = EmptyTx
        /\ StartNext(b).lastUpdatedPosition = None
    BY DEF StartNext, NoTx
  <1>2. Transactions(Append(b.done, b.pending)) /\ ToSet(Append(b.done, b.pending)) = ToSet(b.done) \cup {b.pending}
    BY TransactionsAppend, Appended DEF Packing, Transactions
  <1> QED BY <1>1, <1>2, EmptyBalanced, EmptyCurrent DEF Packing

LEMMA PackKeeps ==
    ASSUME NEW b, NEW knew, Packing(b, knew), NEW s, NEW p \in Positions, NEW i \in {0} \cup Rewards(p)
    PROVE  Packing(Pack(s, knew, b, <<p, i>>), knew)
  <1>1. Packing(Added(s, knew, b, <<p, i>>), knew)
    BY AttemptKeeps
  <1>2. Packing(Added(s, knew, StartNext(b), <<p, i>>), knew)
    BY StartNextKeeps, AttemptKeeps
  <1>3. Packing([b EXCEPT !.thrown = TRUE], knew)
    BY DEF Packing
  <1> QED BY <1>1, <1>2, <1>3 DEF Pack

LEMMA CollectAllReturns ==
    ASSUME NEW s, NEW knew
    PROVE  LET txs == collectAllForPositionsTxns(s, knew).txs
           IN  Transactions(txs) /\ \A tx \in ToSet(txs) : Current(tx, knew)
  <1> DEFINE tasks == collectionTasks(knew)
             n == Len(tasks)
             all == PackAll(s, knew, tasks)
  <1>1. n \in Nat /\ DOMAIN tasks = 1..n /\ \A i \in 1..n : tasks[i] \in ToSet(tasks)
    BY TasksAre, SeqFacts
  <1>2. \A task \in ToSet(tasks) : \E p \in Positions : \E i \in {0} \cup Rewards(p) : task = <<p, i>>
    BY TasksAre
  <1> HIDE DEF tasks, n
  <1>3. PICK acc : Loop("pack", <<s, knew>>, NoTx, tasks, n, acc) /\ all = acc[n]
    BY <1>1, PackLoop
  <1> DEFINE Q == {i \in 0..n : Packing(acc[i], knew)}
  <1>4. 0 \in Q
    <2>1. acc[0] = NoTx /\ 0 \in 0..n
      BY <1>1, <1>3 DEF Loop
    <2>2. Packing(NoTx, knew)
      <3>1. Transactions(<<>>) /\ ToSet(<<>>) = {}
        BY EmptyIsSeq DEF Transactions
      <3> QED BY <3>1, EmptyBalanced, EmptyCurrent DEF Packing, NoTx
    <2> QED BY <2>1, <2>2
  <1>5. ASSUME NEW i \in 0..n - 1, i \in Q PROVE i + 1 \in Q
    <2>1. i + 1 \in 1..n /\ (i + 1) - 1 = i /\ i + 1 \in 0..n
      BY <1>1
    <2>2. acc[i + 1] = Pack(s, knew, acc[i], tasks[i + 1])
      BY <1>3, <2>1 DEF Loop, Apply
    <2>3. PICK p \in Positions : \E j \in {0} \cup Rewards(p) : tasks[i + 1] = <<p, j>>
      BY <1>1, <1>2, <2>1
    <2>4. PICK j \in {0} \cup Rewards(p) : tasks[i + 1] = <<p, j>>
      BY <2>3
    <2>5. Packing(Pack(s, knew, acc[i], <<p, j>>), knew)
      BY <1>5, PackKeeps
    <2> QED BY <2>1, <2>2, <2>4, <2>5
  <1> HIDE DEF Q
  <1>6. n \in Q
    <2>1. \A i \in 0..n : i \in Q
      BY <1>1, <1>4, <1>5, Upward
    <2> QED BY <1>1, <2>1
  <1>7. Packing(all, knew)
    BY <1>3, <1>6 DEF Q
  <1> HIDE DEF all
  <1>8. /\ Transactions(Append(all.done, all.pending))
        /\ ToSet(Append(all.done, all.pending)) = ToSet(all.done) \cup {all.pending}
    BY <1>7, TransactionsAppend, Appended DEF Packing, Transactions
  <1>9. Transactions(<<>>) /\ ToSet(<<>>) = {}
    BY EmptyIsSeq DEF Transactions
  <1>10. collectAllForPositionsTxns(s, knew).txs = IF tasks = <<>> THEN <<>> ELSE Append(all.done, all.pending)
    BY DEF collectAllForPositionsTxns, all, tasks
  <1> QED BY <1>7, <1>8, <1>9, <1>10 DEF Packing

-----------------------------------------------------------------------------
(* What an instruction leaves. *)

ChainFields == {"liq", "fee", "grown", "rew", "due", "vault", "accounts", "open", "paid", "price"}

\* Everything that accrued to a position is credited.
Credited(s, p) == s.grown[p] = <<0, 0>> /\ \A i \in DOMAIN RewardsOf[p] : s.due[p][i] = 0

\* The vault can pay all of what is owed of a reward.
Covered(s, p, i) == RewardOwed(s, p, i) <= s.vault[p][i]

\* What no instruction takes back.
Onward(s, t) ==
    \A p \in Positions :
        /\ Credited(s, p) => Credited(t, p)
        /\ Credited(s, p) /\ s.fee[p] = <<0, 0>> => t.fee[p] = <<0, 0>>
        /\ \A i \in DOMAIN RewardsOf[p] :
              /\ Covered(s, p, i) => Covered(t, p, i)
              /\ Credited(s, p) /\ Covered(s, p, i) /\ s.rew[p][i] = 0 => t.rew[p][i] = 0

\* t has the balances of s.
SameBalances(s, t) ==
    /\ DOMAIN t = ChainFields
    /\ t.fee = s.fee /\ t.grown = s.grown /\ t.rew = s.rew /\ t.due = s.due /\ t.vault = s.vault

LEMMA RewardTypes ==
    ASSUME NEW s, Chain(s), NEW p \in Positions
    PROVE  /\ s.rew[p] \in [DOMAIN RewardsOf[p] -> Nat]
           /\ s.due[p] \in [DOMAIN RewardsOf[p] -> Nat]
           /\ s.vault[p] \in [DOMAIN RewardsOf[p] -> Nat]
  BY DEF Chain

LEMMA SameOnward ==
    ASSUME NEW s, NEW t, Chain(s), SameBalances(s, t)
    PROVE  Onward(s, t)
  BY DEF Onward, SameBalances, Credited, Covered, RewardOwed

LEMMA PayIs ==
    ASSUME NEW s, NEW acct, NEW amount, DOMAIN s = ChainFields
    PROVE  /\ SameBalances(s, Pay(s, acct, amount))
           /\ Pay(s, acct, amount).liq = s.liq /\ Pay(s, acct, amount).open = s.open
           /\ Pay(s, acct, amount).accounts = s.accounts
  BY DEF Pay, SameBalances, ChainFields

LEMMA CreditIs ==
    ASSUME NEW s, Chain(s), NEW p \in Positions
    PROVE  LET t == Credit(s, p)
           IN  /\ DOMAIN t = ChainFields
               /\ t.liq = s.liq /\ t.open = s.open /\ t.accounts = s.accounts /\ t.vault = s.vault
               /\ t.fee = [s.fee EXCEPT ![p] = <<s.fee[p][1] + s.grown[p][1], s.fee[p][2] + s.grown[p][2]>>]
               /\ t.grown = [s.grown EXCEPT ![p] = <<0, 0>>]
               /\ t.rew = [s.rew EXCEPT ![p] = [i \in DOMAIN RewardsOf[p] |-> s.rew[p][i] + s.due[p][i]]]
               /\ t.due = [s.due EXCEPT ![p] = [i \in DOMAIN RewardsOf[p] |-> 0]]
  <1>1. DOMAIN s = ChainFields
    BY DEF Chain, ChainFields
  <1>2. DOMAIN s.rew[p] = DOMAIN RewardsOf[p] /\ DOMAIN s.due[p] = DOMAIN RewardsOf[p]
    BY RewardTypes
  <1> QED BY <1>1, <1>2 DEF Credit, ChainFields

LEMMA CreditKeeps ==
    ASSUME NEW s, Chain(s), NEW p \in Positions
    PROVE  Chain(Credit(s, p)) /\ Onward(s, Credit(s, p)) /\ Credited(Credit(s, p), p)
  <1> DEFINE t == Credit(s, p)
  <1>1. /\ DOMAIN t = ChainFields
        /\ t.liq = s.liq /\ t.open = s.open /\ t.accounts = s.accounts /\ t.vault = s.vault
        /\ t.fee = [s.fee EXCEPT ![p] = <<s.fee[p][1] + s.grown[p][1], s.fee[p][2] + s.grown[p][2]>>]
        /\ t.grown = [s.grown EXCEPT ![p] = <<0, 0>>]
        /\ t.rew = [s.rew EXCEPT ![p] = [i \in DOMAIN RewardsOf[p] |-> s.rew[p][i] + s.due[p][i]]]
        /\ t.due = [s.due EXCEPT ![p] = [i \in DOMAIN RewardsOf[p] |-> 0]]
    BY CreditIs
  <1> HIDE DEF t
  <1>2. /\ s.fee \in [Positions -> Nat \X Nat] /\ s.grown \in [Positions -> Nat \X Nat]
        /\ DOMAIN s.rew = Positions /\ DOMAIN s.due = Positions /\ DOMAIN s.vault = Positions
        /\ s.open \subseteq Positions /\ s.liq \in [Positions -> Nat]
    BY DEF Chain
  <1>3. /\ t.grown[p] = <<0, 0>> /\ t.due[p] = [i \in DOMAIN RewardsOf[p] |-> 0]
        /\ t.fee[p] = <<s.fee[p][1] + s.grown[p][1], s.fee[p][2] + s.grown[p][2]>>
        /\ t.rew[p] = [i \in DOMAIN RewardsOf[p] |-> s.rew[p][i] + s.due[p][i]]
    BY <1>1, <1>2
  <1>4. \A q \in Positions : q # p => /\ t.fee[q] = s.fee[q] /\ t.grown[q] = s.grown[q]
                                      /\ t.rew[q] = s.rew[q] /\ t.due[q] = s.due[q]
    BY <1>1, <1>2
  <1>5. Chain(t)
    <2>1. t.fee \in [Positions -> Nat \X Nat] /\ t.grown \in [Positions -> Nat \X Nat]
      BY <1>1, <1>2
    <2>2. DOMAIN t.rew = Positions /\ DOMAIN t.due = Positions
      BY <1>1, <1>2
    <2>3. ASSUME NEW q \in Positions
          PROVE  \A rewards \in {t.rew[q], t.due[q], t.vault[q]} : rewards \in [DOMAIN RewardsOf[q] -> Nat]
      BY <1>1, <1>3, <1>4, RewardTypes
    <2> QED BY <1>1, <1>2, <2>1, <2>2, <2>3 DEF Chain, ChainFields
  <1>6. Credited(t, p)
    BY <1>3 DEF Credited
  <1>7. Onward(s, t)
    <2> SUFFICES ASSUME NEW q \in Positions
                 PROVE  /\ Credited(s, q) => Credited(t, q)
                        /\ Credited(s, q) /\ s.fee[q] = <<0, 0>> => t.fee[q] = <<0, 0>>
                        /\ \A i \in DOMAIN RewardsOf[q] :
                              /\ Covered(s, q, i) => Covered(t, q, i)
                              /\ Credited(s, q) /\ Covered(s, q, i) /\ s.rew[q][i] = 0 => t.rew[q][i] = 0
      BY DEF Onward
    <2>1. CASE q # p
      BY <1>1, <1>4, <2>1 DEF Credited, Covered, RewardOwed
    <2>2. CASE q = p
      <3>1. \A i \in DOMAIN RewardsOf[p] : /\ s.rew[p][i] \in Nat /\ s.due[p][i] \in Nat
                                           /\ t.rew[p][i] = s.rew[p][i] + s.due[p][i] /\ t.due[p][i] = 0
        BY <1>3, RewardTypes
      <3>2. Credited(s, p) /\ s.fee[p] = <<0, 0>> => t.fee[p] = <<0, 0>>
        BY <1>3 DEF Credited
      <3>3. \A i \in DOMAIN RewardsOf[p] : RewardOwed(t, p, i) = RewardOwed(s, p, i)
        BY <3>1 DEF RewardOwed
      <3>4. \A i \in DOMAIN RewardsOf[p] : Credited(s, p) /\ s.rew[p][i] = 0 => t.rew[p][i] = 0
        BY <3>1 DEF Credited
      <3> QED BY <1>1, <1>6, <2>2, <3>2, <3>3, <3>4 DEF Covered
    <2> QED BY <2>1, <2>2
  <1> QED BY <1>5, <1>6, <1>7 DEF t

LEMMA OnwardTrans ==
    ASSUME NEW s, NEW t, NEW u, Onward(s, t), Onward(t, u)
    PROVE  Onward(s, u)
  BY DEF Onward

\* Chains as the program keeps them, as far as wallets see it.
Kept(s) == Chain(s) /\ Settled(s)

LEMMA ChainIs ==
    ASSUME NEW s, Chain(s)
    PROVE  /\ DOMAIN s = ChainFields
           /\ s.open \subseteq Positions /\ s.liq \in [Positions -> Nat]
           /\ s.fee \in [Positions -> Nat \X Nat] /\ s.grown \in [Positions -> Nat \X Nat]
           /\ DOMAIN s.rew = Positions /\ DOMAIN s.due = Positions /\ DOMAIN s.vault = Positions
  BY DEF Chain, ChainFields

\* Settled, of one position.
SettledAt(s, p) ==
    /\ s.liq[p] = 0 => Credited(s, p)
    /\ p \notin s.open => /\ s.liq[p] = 0 /\ s.fee[p] = <<0, 0>>
                          /\ \A i \in DOMAIN RewardsOf[p] : s.rew[p][i] = 0

LEMMA SettledIs ==
    ASSUME NEW s, Chain(s)
    PROVE  Settled(s) <=> \A p \in Positions : SettledAt(s, p)
  <1>1. \A p \in Positions : DOMAIN s.rew[p] = DOMAIN RewardsOf[p] /\ DOMAIN s.due[p] = DOMAIN RewardsOf[p]
    BY RewardTypes
  <1> QED BY <1>1 DEF Settled, SettledAt, Credited, is_position_empty

\* The same balances and liquidity.
LEMMA BalancesKept ==
    ASSUME NEW s, NEW t, Kept(s), SameBalances(s, t), t.liq = s.liq, t.open \subseteq Positions,
           \A p \in Positions \ t.open : p \in s.open => is_position_empty(s, p)
    PROVE  Kept(t) /\ Onward(s, t)
  <1>0. Chain(s) /\ DOMAIN t = ChainFields
    BY DEF Kept, SameBalances
  <1>1. Chain(t)
    BY <1>0, ChainIs DEF Chain, SameBalances, ChainFields
  <1>2. Settled(t)
    BY DEF Kept, Settled, SameBalances, is_position_empty
  <1> QED BY <1>0, <1>1, <1>2, SameOnward DEF Kept

LEMMA CreditSettles ==
    ASSUME NEW s, Kept(s), NEW p \in s.open
    PROVE  Kept(Credit(s, p)) /\ Onward(s, Credit(s, p)) /\ Credited(Credit(s, p), p)
  <1> DEFINE t == Credit(s, p)
  <1>1. Chain(s) /\ Settled(s) /\ p \in Positions
    BY ChainIs DEF Kept
  <1>2. /\ t.liq = s.liq /\ t.open = s.open
        /\ t.fee = [s.fee EXCEPT ![p] = <<s.fee[p][1] + s.grown[p][1], s.fee[p][2] + s.grown[p][2]>>]
        /\ t.grown = [s.grown EXCEPT ![p] = <<0, 0>>]
        /\ t.rew = [s.rew EXCEPT ![p] = [i \in DOMAIN RewardsOf[p] |-> s.rew[p][i] + s.due[p][i]]]
        /\ t.due = [s.due EXCEPT ![p] = [i \in DOMAIN RewardsOf[p] |-> 0]]
    BY <1>1, CreditIs
  <1>3. Chain(t) /\ Onward(s, t) /\ Credited(t, p)
    BY <1>1, CreditKeeps
  <1> HIDE DEF t
  <1>4. \A q \in Positions : q # p => /\ t.fee[q] = s.fee[q] /\ t.grown[q] = s.grown[q]
                                      /\ t.rew[q] = s.rew[q] /\ t.due[q] = s.due[q]
    BY <1>1, <1>2, ChainIs
  <1>5. \A q \in Positions : q # p => (Credited(t, q) <=> Credited(s, q))
    BY <1>4 DEF Credited
  <1>6. ASSUME NEW q \in Positions PROVE SettledAt(t, q)
    <2>1. SettledAt(s, q)
      BY <1>1, SettledIs
    <2>2. CASE q = p
      BY <1>2, <1>3, <2>2 DEF SettledAt
    <2>3. CASE q # p
      BY <1>2, <1>4, <1>5, <2>1, <2>3 DEF SettledAt
    <2> QED BY <2>2, <2>3
  <1>7. Settled(t)
    BY <1>3, <1>6, SettledIs
  <1> QED BY <1>3, <1>7 DEF Kept, t

\* Liquidity changes after the position is credited.
LEMMA LiquiditySettles ==
    ASSUME NEW s, NEW t, Kept(s), NEW p \in s.open, Credited(s, p), NEW amount \in Nat,
           SameBalances(s, t), t.open = s.open, t.liq = [s.liq EXCEPT ![p] = amount]
    PROVE  Kept(t) /\ Onward(s, t)
  <1>0. Chain(s) /\ Settled(s) /\ DOMAIN t = ChainFields
    BY DEF Kept, SameBalances
  <1>1. Chain(t)
    BY <1>0, ChainIs DEF Chain, SameBalances, ChainFields
  <1>2. \A q \in Positions : Credited(t, q) <=> Credited(s, q)
    BY DEF Credited, SameBalances
  <1>3. \A q \in Positions : q # p => t.liq[q] = s.liq[q]
    BY <1>0, ChainIs
  <1>4. ASSUME NEW q \in Positions PROVE SettledAt(t, q)
    <2>1. SettledAt(s, q)
      BY <1>0, SettledIs
    <2>2. CASE q = p
      BY <1>2, <2>2 DEF SettledAt
    <2>3. CASE q # p
      BY <1>2, <1>3, <2>1, <2>3 DEF SettledAt, SameBalances
    <2> QED BY <2>2, <2>3
  <1>5. Settled(t)
    BY <1>1, <1>4, SettledIs
  <1> QED BY <1>0, <1>1, <1>5, SameOnward DEF Kept

LEMMA FeesSettle ==
    ASSUME NEW s, Kept(s), NEW ix, ix.pos \in s.open
    PROVE  LET t == collect_fees(s, ix)
           IN  Kept(t) /\ Onward(s, t) /\ t.fee[ix.pos] = <<0, 0>>
  <1> DEFINE p == ix.pos
             u == Pay(Pay(s, ix.accts[1], s.fee[p][1]), ix.accts[2], s.fee[p][2])
             t == collect_fees(s, ix)
  <1>1. Chain(s) /\ Settled(s) /\ p \in Positions /\ DOMAIN s = ChainFields
    BY ChainIs DEF Kept
  <1>2. DOMAIN Pay(s, ix.accts[1], s.fee[p][1]) = ChainFields
    BY <1>1, PayIs DEF SameBalances
  <1>3. SameBalances(s, u) /\ u.liq = s.liq /\ u.open = s.open
    BY <1>1, <1>2, PayIs DEF SameBalances
  <1>4. t = [u EXCEPT !.fee[p] = <<0, 0>>]
    BY DEF collect_fees
  <1> HIDE DEF t, u
  <1>5. /\ DOMAIN t = ChainFields /\ t.fee = [s.fee EXCEPT ![p] = <<0, 0>>]
        /\ t.grown = s.grown /\ t.rew = s.rew /\ t.due = s.due /\ t.vault = s.vault
        /\ t.liq = s.liq /\ t.open = s.open
    BY <1>3, <1>4 DEF SameBalances, ChainFields
  <1> HIDE DEF p
  <1>6. t.fee[p] = <<0, 0>> /\ \A q \in Positions : q # p => t.fee[q] = s.fee[q]
    BY <1>1, <1>5, ChainIs
  <1>7. Chain(t)
    <2>1. t.fee \in [Positions -> Nat \X Nat]
      BY <1>1, <1>5, ChainIs
    <2>2. /\ t.open \subseteq Positions /\ t.liq \in [Positions -> Nat] /\ t.grown \in [Positions -> Nat \X Nat]
          /\ DOMAIN t.rew = Positions /\ DOMAIN t.due = Positions /\ DOMAIN t.vault = Positions
      BY <1>1, <1>5, ChainIs
    <2>3. ASSUME NEW q \in Positions
          PROVE  \A rewards \in {t.rew[q], t.due[q], t.vault[q]} : rewards \in [DOMAIN RewardsOf[q] -> Nat]
      BY <1>1, <1>5, RewardTypes
    <2> QED BY <1>5, <2>1, <2>2, <2>3 DEF Chain, ChainFields
  <1>8. ASSUME NEW q \in Positions PROVE SettledAt(t, q)
    <2>1. SettledAt(s, q)
      BY <1>1, SettledIs
    <2> QED BY <1>5, <1>6, <2>1 DEF SettledAt, Credited
  <1>9. Settled(t)
    BY <1>7, <1>8, SettledIs
  <1>10. Onward(s, t)
    BY <1>5, <1>6 DEF Onward, Credited, Covered, RewardOwed
  <1> QED BY <1>6, <1>7, <1>9, <1>10 DEF Kept, t, p

LEMMA RewardSettles ==
    ASSUME NEW s, Kept(s), NEW ix, ix.pos \in s.open, ix.index \in DOMAIN RewardsOf[ix.pos]
    PROVE  LET t == collect_reward(s, ix)
           IN  /\ Kept(t) /\ Onward(s, t)
               /\ Credited(s, ix.pos) /\ Covered(s, ix.pos, ix.index) => t.rew[ix.pos][ix.index] = 0
  <1> DEFINE p == ix.pos
             i == ix.index
             owed == s.rew[p][i]
             have == s.vault[p][i]
             amount == IF owed > have THEN have ELSE owed
             u == Pay(s, ix.accts[1], amount)
             t == collect_reward(s, ix)
  <1>1. Chain(s) /\ Settled(s) /\ p \in Positions /\ DOMAIN s = ChainFields
    BY ChainIs DEF Kept
  <1>2. owed \in Nat /\ have \in Nat
    BY <1>1, RewardTypes
  <1>3. SameBalances(s, u) /\ u.liq = s.liq /\ u.open = s.open
    BY <1>1, PayIs
  <1>4. t = [u EXCEPT !.rew[p][i] = owed - amount, !.vault[p][i] = @ - amount]
    BY DEF collect_reward
  <1> HIDE DEF t, u
  <1>5. /\ DOMAIN t = ChainFields /\ t.fee = s.fee /\ t.grown = s.grown /\ t.due = s.due
        /\ t.rew = [s.rew EXCEPT ![p] = [s.rew[p] EXCEPT ![i] = owed - amount]]
        /\ t.vault = [s.vault EXCEPT ![p] = [s.vault[p] EXCEPT ![i] = have - amount]]
        /\ t.liq = s.liq /\ t.open = s.open
    BY <1>3, <1>4 DEF SameBalances, ChainFields
  <1> HIDE DEF p, i
  <1>6. /\ \A q \in Positions : q # p => t.rew[q] = s.rew[q] /\ t.vault[q] = s.vault[q]
        /\ t.rew[p] = [s.rew[p] EXCEPT ![i] = owed - amount]
        /\ t.vault[p] = [s.vault[p] EXCEPT ![i] = have - amount]
    BY <1>1, <1>5, ChainIs
  <1>7. /\ s.rew[p] \in [DOMAIN RewardsOf[p] -> Nat] /\ s.vault[p] \in [DOMAIN RewardsOf[p] -> Nat]
        /\ s.due[p] \in [DOMAIN RewardsOf[p] -> Nat] /\ i \in DOMAIN RewardsOf[p]
    BY <1>1, RewardTypes DEF p, i
  <1>8. /\ owed - amount \in Nat /\ have - amount \in Nat
        /\ owed = 0 => owed - amount = 0
        /\ owed <= have => owed - amount = 0
        /\ \A due \in Nat : owed + due <= have => (owed - amount) + due <= have - amount
    BY <1>2
  <1> HIDE DEF owed, have, amount
  <1>9. /\ t.rew[p] \in [DOMAIN RewardsOf[p] -> Nat] /\ t.vault[p] \in [DOMAIN RewardsOf[p] -> Nat]
        /\ t.rew[p][i] = owed - amount /\ t.vault[p][i] = have - amount
        /\ \A j \in DOMAIN RewardsOf[p] : j # i => t.rew[p][j] = s.rew[p][j] /\ t.vault[p][j] = s.vault[p][j]
    BY <1>6, <1>7, <1>8
  <1>10. Chain(t)
    <2>1. DOMAIN t.rew = Positions /\ DOMAIN t.vault = Positions
      BY <1>1, <1>5, ChainIs
    <2>2. /\ t.open \subseteq Positions /\ t.liq \in [Positions -> Nat] /\ t.grown \in [Positions -> Nat \X Nat]
          /\ DOMAIN t.due = Positions /\ t.fee \in [Positions -> Nat \X Nat]
      BY <1>1, <1>5, ChainIs
    <2>3. ASSUME NEW q \in Positions
          PROVE  \A rewards \in {t.rew[q], t.due[q], t.vault[q]} : rewards \in [DOMAIN RewardsOf[q] -> Nat]
      <3>1. CASE q = p
        BY <1>1, <1>5, <1>9, <3>1, RewardTypes
      <3>2. CASE q # p
        BY <1>1, <1>5, <1>6, <3>2, RewardTypes
      <3> QED BY <3>1, <3>2
    <2> QED BY <1>5, <2>1, <2>2, <2>3 DEF Chain, ChainFields
  <1>11. s.rew[p][i] = owed /\ s.vault[p][i] = have
    BY DEF owed, have
  <1>12. ASSUME NEW q \in Positions PROVE SettledAt(t, q)
    <2>1. SettledAt(s, q)
      BY <1>1, SettledIs
    <2>2. CASE q # p
      BY <1>5, <1>6, <2>1, <2>2 DEF SettledAt, Credited
    <2>3. CASE q = p
      <3>1. p \in t.open
        BY <1>5 DEF p
      <3> QED BY <1>5, <2>1, <2>3, <3>1 DEF SettledAt, Credited
    <2> QED BY <2>2, <2>3
  <1>13. Settled(t)
    BY <1>10, <1>12, SettledIs
  <1>14. ASSUME NEW q \in Positions
         PROVE  /\ Credited(s, q) => Credited(t, q)
                /\ Credited(s, q) /\ s.fee[q] = <<0, 0>> => t.fee[q] = <<0, 0>>
                /\ \A j \in DOMAIN RewardsOf[q] :
                      /\ Covered(s, q, j) => Covered(t, q, j)
                      /\ Credited(s, q) /\ Covered(s, q, j) /\ s.rew[q][j] = 0 => t.rew[q][j] = 0
    <2>1. CASE q # p
      BY <1>5, <1>6, <2>1 DEF Credited, Covered, RewardOwed
    <2>2. CASE q = p
      <3>1. ASSUME NEW j \in DOMAIN RewardsOf[p], j # i
            PROVE  t.rew[p][j] = s.rew[p][j] /\ t.vault[p][j] = s.vault[p][j] /\ t.due[p][j] = s.due[p][j]
        BY <1>5, <1>9, <3>1
      <3>2. s.due[p][i] \in Nat /\ t.due[p][i] = s.due[p][i]
        BY <1>5, <1>7
      <3>3. Covered(s, p, i) => Covered(t, p, i)
        BY <1>8, <1>9, <1>11, <3>2 DEF Covered, RewardOwed
      <3>4. s.rew[p][i] = 0 => t.rew[p][i] = 0
        BY <1>8, <1>9, <1>11
      <3> QED BY <1>5, <2>2, <3>1, <3>3, <3>4 DEF Credited, Covered, RewardOwed
    <2> QED BY <2>1, <2>2
  <1>15. Onward(s, t)
    BY <1>14, Zenon DEF Onward
  <1>16. ASSUME Credited(s, p), Covered(s, p, i) PROVE t.rew[p][i] = 0
    <2>1. s.due[p][i] = 0 /\ owed \in Nat
      BY <1>7, <1>11, <1>16 DEF Credited
    <2>2. owed <= have
      BY <1>11, <1>16, <2>1 DEF Covered, RewardOwed
    <2> QED BY <1>8, <1>9, <2>2
  <1> QED BY <1>10, <1>13, <1>15, <1>16 DEF Kept, t, p, i

LEMMA IncreaseSettles ==
    ASSUME NEW s, Kept(s), NEW ix, ix.pos \in s.open, ix.amount \in Nat
    PROVE  LET t == increase_liquidity(s, ix) IN Kept(t) /\ Onward(s, t)
  <1> DEFINE p == ix.pos
             u == Credit(s, p)
             t == increase_liquidity(s, ix)
  <1>1. Kept(u) /\ Onward(s, u) /\ Credited(u, p)
    BY CreditSettles
  <1>0. Chain(s) /\ p \in Positions
    BY ChainIs DEF Kept
  <1>2. u.open = s.open /\ u.liq = s.liq /\ s.liq[p] \in Nat
    <2>1. u.open = s.open /\ u.liq = s.liq
      BY <1>0, CreditIs
    <2>2. s.liq[p] \in Nat
      BY <1>0, ChainIs
    <2> QED BY <2>1, <2>2
  <1>3. t = [u EXCEPT !.liq[p] = @ + ix.amount]
    BY DEF increase_liquidity
  <1> HIDE DEF t, u
  <1>4. DOMAIN u = ChainFields
    BY <1>1, ChainIs DEF Kept
  <1>5. /\ SameBalances(u, t) /\ t.open = u.open
        /\ t.liq = [u.liq EXCEPT ![p] = s.liq[p] + ix.amount]
    BY <1>2, <1>3, <1>4 DEF SameBalances, ChainFields
  <1>6. Kept(t) /\ Onward(u, t)
    <2>1. s.liq[p] + ix.amount \in Nat /\ p \in u.open
      BY <1>2
    <2> QED BY <1>1, <1>5, <2>1, LiquiditySettles
  <1> QED BY <1>1, <1>6, OnwardTrans DEF t

LEMMA DecreaseSettles ==
    ASSUME NEW s, Kept(s), NEW ix, ix.pos \in s.open, ix.amount \in 1..s.liq[ix.pos]
    PROVE  LET t == decrease_liquidity(s, ix) IN Kept(t) /\ Onward(s, t)
  <1> DEFINE p == ix.pos
             u == Credit(s, p)
             v == Pay(u, ix.accts[1], ix.amount)
             w == Pay(v, ix.accts[2], ix.amount)
             t == decrease_liquidity(s, ix)
  <1>1. Kept(u) /\ Onward(s, u) /\ Credited(u, p)
    BY CreditSettles
  <1>0. Chain(s) /\ p \in Positions
    BY ChainIs DEF Kept
  <1>2. u.open = s.open /\ u.liq = s.liq /\ s.liq[p] \in Nat
    <2>1. u.open = s.open /\ u.liq = s.liq
      BY <1>0, CreditIs
    <2>2. s.liq[p] \in Nat
      BY <1>0, ChainIs
    <2> QED BY <2>1, <2>2
  <1>3. t = [w EXCEPT !.liq[p] = @ - ix.amount]
    BY DEF decrease_liquidity
  <1> HIDE DEF t, u
  <1>4. DOMAIN u = ChainFields
    BY <1>1, ChainIs DEF Kept
  <1>5. SameBalances(u, v) /\ v.liq = u.liq /\ v.open = u.open /\ DOMAIN v = ChainFields
    BY <1>4, PayIs DEF SameBalances
  <1> HIDE DEF v
  <1>6. SameBalances(u, w) /\ w.liq = u.liq /\ w.open = u.open /\ DOMAIN w = ChainFields
    BY <1>5, PayIs DEF SameBalances
  <1> HIDE DEF w
  <1>7. /\ SameBalances(u, t) /\ t.open = u.open
        /\ t.liq = [u.liq EXCEPT ![p] = s.liq[p] - ix.amount]
    BY <1>2, <1>3, <1>6 DEF SameBalances, ChainFields
  <1>8. Kept(t) /\ Onward(u, t)
    <2>1. s.liq[p] - ix.amount \in Nat /\ p \in u.open
      BY <1>2
    <2> QED BY <1>1, <1>7, <2>1, LiquiditySettles
  <1> QED BY <1>1, <1>8, OnwardTrans DEF t

\* Accounts and positions come and go, and the balances stay.
LEMMA OthersSettle ==
    ASSUME NEW s, Kept(s), NEW ix, Proper(ix), Allowed(s, ix),
           ix.op \in {"create", "closeAcct", "open", "close"}
    PROVE  LET t == Effect(s, ix) IN Kept(t) /\ Onward(s, t)
  <1> DEFINE t == Effect(s, ix)
  <1>1. DOMAIN s = ChainFields /\ s.open \subseteq Positions
    BY ChainIs DEF Kept
  <1>2. \/ t = [s EXCEPT !.accounts = @ \cup {ix.acct}]
        \/ t = [s EXCEPT !.accounts = @ \ {ix.acct}]
        \/ t = [s EXCEPT !.open = @ \cup {ix.pos}] /\ ix.pos \in Positions
        \/ t = [s EXCEPT !.open = @ \ {ix.pos}] /\ is_position_empty(s, ix.pos)
    BY DEF Effect, Allowed, Proper, Ops, may_close
  <1> HIDE DEF t
  <1>3. SameBalances(s, t) /\ t.liq = s.liq
    BY <1>1, <1>2 DEF SameBalances, ChainFields
  <1>4. \/ t.open = s.open
        \/ t.open = s.open \cup {ix.pos} /\ ix.pos \in Positions
        \/ t.open = s.open \ {ix.pos} /\ is_position_empty(s, ix.pos)
    BY <1>1, <1>2 DEF ChainFields
  <1>5. t.open \subseteq Positions /\ \A p \in Positions \ t.open : p \in s.open => is_position_empty(s, p)
    BY <1>1, <1>4
  <1>6. Kept(t) /\ Onward(s, t)
    BY <1>3, <1>5, BalancesKept
  <1> QED BY <1>6 DEF t

LEMMA EffectKeeps ==
    ASSUME NEW s, Kept(s), NEW ix, Proper(ix), Allowed(s, ix)
    PROVE  Kept(Effect(s, ix)) /\ Onward(s, Effect(s, ix))
  <1>1. CASE ix.op \in {"create", "closeAcct", "open", "close"}
    BY <1>1, OthersSettle
  <1>2. CASE ix.op = "update"
    <2>1. ix.pos \in s.open /\ Effect(s, ix) = Credit(s, ix.pos)
      BY <1>2 DEF Allowed, Effect, update_fees_and_rewards
    <2> QED BY <2>1, CreditSettles
  <1>3. CASE ix.op = "increase"
    <2>1. ix.pos \in s.open /\ ix.amount \in Nat /\ Effect(s, ix) = increase_liquidity(s, ix)
      BY <1>3 DEF Allowed, Effect, Proper
    <2> QED BY <2>1, IncreaseSettles
  <1>4. CASE ix.op = "decrease"
    <2>1. ix.pos \in s.open /\ ix.amount \in 1..s.liq[ix.pos] /\ Effect(s, ix) = decrease_liquidity(s, ix)
      BY <1>4 DEF Allowed, Effect
    <2> QED BY <2>1, DecreaseSettles
  <1>5. CASE ix.op = "fees"
    <2>1. ix.pos \in s.open /\ Effect(s, ix) = collect_fees(s, ix)
      BY <1>5 DEF Allowed, Effect
    <2> QED BY <2>1, FeesSettle
  <1>6. CASE ix.op = "reward"
    <2>1. ix.pos \in s.open /\ ix.index \in DOMAIN RewardsOf[ix.pos] /\ Effect(s, ix) = collect_reward(s, ix)
      BY <1>6 DEF Allowed, Effect, Rewards
    <2> QED BY <2>1, RewardSettles
  <1> QED BY <1>1, <1>2, <1>3, <1>4, <1>5, <1>6 DEF Proper, Ops

\* Token accounts are only created and closed.
LEMMA EffectAccounts ==
    ASSUME NEW s, Kept(s), NEW ix, Proper(ix), Allowed(s, ix)
    PROVE  Effect(s, ix).accounts = IF ix.op = "create" THEN s.accounts \cup {ix.acct}
                                    ELSE IF ix.op = "closeAcct" THEN s.accounts \ {ix.acct}
                                    ELSE s.accounts
  <1>1. DOMAIN s = ChainFields /\ Chain(s) /\ s.open \subseteq Positions
    BY ChainIs DEF Kept
  <1>2. CASE ix.op \in {"create", "closeAcct", "open", "close"}
    BY <1>1, <1>2 DEF Effect, ChainFields
  <1>3. ASSUME ix.pos \in s.open
        PROVE  Credit(s, ix.pos).accounts = s.accounts /\ DOMAIN Credit(s, ix.pos) = ChainFields
    BY <1>1, <1>3, CreditIs
  <1>4. CASE ix.op \in {"update", "increase"}
    BY <1>1, <1>3, <1>4 DEF Effect, Allowed, update_fees_and_rewards, increase_liquidity, ChainFields
  <1>5. ASSUME NEW u, DOMAIN u = ChainFields, NEW a, NEW x, NEW b, NEW y
        PROVE  /\ Pay(Pay(u, a, x), b, y).accounts = u.accounts
               /\ DOMAIN Pay(Pay(u, a, x), b, y) = ChainFields
               /\ Pay(u, a, x).accounts = u.accounts /\ DOMAIN Pay(u, a, x) = ChainFields
    <2>1. Pay(u, a, x).accounts = u.accounts /\ DOMAIN Pay(u, a, x) = ChainFields
      BY <1>5, PayIs DEF SameBalances
    <2> QED BY <2>1, PayIs DEF SameBalances
  <1>6. CASE ix.op = "decrease"
    <2> DEFINE u == Credit(s, ix.pos)
               w == Pay(Pay(u, ix.accts[1], ix.amount), ix.accts[2], ix.amount)
    <2>1. u.accounts = s.accounts /\ DOMAIN u = ChainFields
      BY <1>3, <1>6 DEF Allowed
    <2>2. w.accounts = s.accounts /\ DOMAIN w = ChainFields
      <3> HIDE DEF u
      <3> QED BY <1>5, <2>1
    <2>3. Effect(s, ix) = [w EXCEPT !.liq[ix.pos] = @ - ix.amount]
      BY <1>6 DEF Effect, decrease_liquidity
    <2> HIDE DEF w
    <2> QED BY <1>6, <2>2, <2>3 DEF ChainFields
  <1>7. CASE ix.op = "fees"
    <2> DEFINE w == Pay(Pay(s, ix.accts[1], s.fee[ix.pos][1]), ix.accts[2], s.fee[ix.pos][2])
    <2>1. w.accounts = s.accounts /\ DOMAIN w = ChainFields
      BY <1>1, <1>5
    <2>2. Effect(s, ix) = [w EXCEPT !.fee[ix.pos] = <<0, 0>>]
      BY <1>7 DEF Effect, collect_fees
    <2> HIDE DEF w
    <2> QED BY <1>7, <2>1, <2>2 DEF ChainFields
  <1>8. CASE ix.op = "reward"
    <2> DEFINE owed   == s.rew[ix.pos][ix.index]
               amount == IF owed > s.vault[ix.pos][ix.index] THEN s.vault[ix.pos][ix.index] ELSE owed
               w == Pay(s, ix.accts[1], amount)
    <2>1. w.accounts = s.accounts /\ DOMAIN w = ChainFields
      BY <1>1, <1>5
    <2>2. Effect(s, ix) = [w EXCEPT !.rew[ix.pos][ix.index] = owed - amount,
                                    !.vault[ix.pos][ix.index] = @ - amount]
      BY <1>8 DEF Effect, collect_reward
    <2> HIDE DEF w, owed, amount
    <2> QED BY <1>8, <2>1, <2>2 DEF ChainFields
  <1> QED BY <1>2, <1>4, <1>6, <1>7, <1>8 DEF Proper, Ops

-----------------------------------------------------------------------------
(* What a transaction that succeeds leaves. *)

Steps(tx) == tx.body \o tx.cleanup

\* The chains a transaction goes through.
Run(s, tx, n, ch) ==
    /\ ch[0] = s
    /\ \A i \in 1..n : Allowed(ch[i - 1], Steps(tx)[i]) /\ ch[i] = Effect(ch[i - 1], Steps(tx)[i])

LEMMA StepOk ==
    ASSUME NEW r, NEW ix, Step(r, ix).ok
    PROVE  r.ok /\ Allowed(r.chain, ix) /\ Step(r, ix).chain = Effect(r.chain, ix)
  BY DEF Step, Failed

LEMMA Runs ==
    ASSUME NEW s, NEW tx, Balanced(tx), Execute(s, tx).ok
    PROVE  \E ch : Run(s, tx, Len(Steps(tx)), ch) /\ Execute(s, tx).chain = ch[Len(Steps(tx))]
  <1> DEFINE seq == Steps(tx)
             n == Len(seq)
             r0 == [ok |-> TRUE, chain |-> s]
  <1>1. IsSeq(seq)
    BY Joined DEF Balanced, Steps
  <1>2. n \in Nat /\ DOMAIN seq = 1..n
    BY <1>1, SeqFacts
  <1>3. r0.ok /\ r0.chain = s
    OBVIOUS
  <1> HIDE DEF n, r0
  <1>4. PICK acc : Loop("execute", <<>>, r0, seq, n, acc) /\ Execute(s, tx) = acc[n]
    BY <1>2, ExecuteLoop DEF Steps, r0
  <1> HIDE DEF seq
  <1>5. acc[0] = r0 /\ \A i \in 1..n : acc[i] = Step(acc[i - 1], seq[i])
    BY <1>4 DEF Loop, Apply
  <1> DEFINE Q == {j \in 0..n : acc[n - j].ok}
  <1>6. 0 \in Q
    BY <1>2, <1>4
  <1>7. ASSUME NEW j \in 0..n - 1, j \in Q PROVE j + 1 \in Q
    <2>1. n - j \in 1..n /\ (n - j) - 1 = n - (j + 1) /\ j + 1 \in 0..n
      BY <1>2
    <2>2. Step(acc[n - (j + 1)], seq[n - j]).ok
      <3>1. acc[n - j] = Step(acc[(n - j) - 1], seq[n - j])
        BY <1>5, <2>1, Zenon
      <3> QED BY <1>7, <2>1, <3>1
    <2> QED BY <2>1, <2>2, StepOk
  <1>8. \A j \in 0..n : j \in Q
    <2> HIDE DEF Q
    <2> QED BY <1>2, <1>6, <1>7, Upward
  <1>9. ASSUME NEW i \in 0..n PROVE acc[i].ok
    <2>1. n - i \in 0..n /\ n - (n - i) = i
      BY <1>2
    <2> QED BY <1>8, <2>1
  <1> HIDE DEF Q
  <1> DEFINE ch == [i \in 0..n |-> acc[i].chain]
  <1>10. ch[0] = s /\ ch[n] = acc[n].chain
    BY <1>2, <1>3, <1>5
  <1>11. ASSUME NEW i \in 1..n
         PROVE  Allowed(ch[i - 1], seq[i]) /\ ch[i] = Effect(ch[i - 1], seq[i])
    <2>1. i \in 0..n /\ i - 1 \in 0..n
      BY <1>2
    <2>2. Step(acc[i - 1], seq[i]).ok /\ acc[i] = Step(acc[i - 1], seq[i])
      BY <1>5, <1>9, <2>1
    <2>3. Allowed(acc[i - 1].chain, seq[i]) /\ acc[i].chain = Effect(acc[i - 1].chain, seq[i])
      BY <2>2, StepOk
    <2> QED BY <2>1, <2>3
  <1> HIDE DEF ch
  <1>12. Run(s, tx, n, ch)
    BY <1>10, <1>11 DEF Run, seq
  <1> QED BY <1>4, <1>10, <1>12 DEF n, seq

\* The instructions of a transaction, by position.
Numbered(tx) ==
    /\ Len(tx.body) \in Nat /\ Len(tx.cleanup) \in Nat /\ Len(Steps(tx)) \in Nat
    /\ Len(Steps(tx)) = Len(tx.body) + Len(tx.cleanup)
    /\ \A i \in 1..Len(tx.body) : Steps(tx)[i] = tx.body[i] /\ tx.body[i] \in ToSet(tx.body)
    /\ \A i \in 1..Len(tx.cleanup) :
          Steps(tx)[Len(tx.body) + i] = tx.cleanup[i] /\ tx.cleanup[i] \in ToSet(tx.cleanup)
    /\ \A i \in 1..Len(Steps(tx)) : Proper(Steps(tx)[i])

LEMMA StepsAre == ASSUME NEW tx, Balanced(tx) PROVE Numbered(tx)
  <1> DEFINE b == tx.body
             c == tx.cleanup
             seq == b \o c
  <1>1. IsSeq(b) /\ IsSeq(c)
    BY DEF Balanced
  <1>2. (\A ix \in ToSet(b) : Proper(ix)) /\ \A ix \in ToSet(c) : ix.op = "closeAcct"
    BY DEF Balanced
  <1>3. \A ix \in ToSet(c) : Proper(ix)
    BY <1>2 DEF Proper, Ops
  <1> HIDE DEF b, c
  <1>4. /\ Len(b) \in Nat /\ Len(c) \in Nat /\ Len(seq) = Len(b) + Len(c) /\ Len(seq) \in Nat
        /\ \A i \in 1..Len(b) : seq[i] = b[i] /\ b[i] \in ToSet(b)
        /\ \A i \in 1..Len(c) : seq[Len(b) + i] = c[i] /\ c[i] \in ToSet(c)
        /\ \A i \in 1..Len(seq) : seq[i] \in ToSet(seq)
        /\ ToSet(seq) = ToSet(b) \cup ToSet(c)
    BY <1>1, SeqFacts, Joined
  <1>5. \A i \in 1..Len(seq) : Proper(seq[i])
    BY <1>2, <1>3, <1>4
  <1> QED BY <1>4, <1>5 DEF Numbered, Steps, b, c

LEMMA RunKeeps ==
    ASSUME NEW s, NEW tx, NEW n, NEW ch, Kept(s), Balanced(tx), n = Len(Steps(tx)), Run(s, tx, n, ch)
    PROVE  \A i \in 0..n : Kept(ch[i]) /\ \A j \in 0..i : Onward(ch[j], ch[i])
  <1> DEFINE Q == {i \in 0..n : Kept(ch[i]) /\ \A j \in 0..i : Onward(ch[j], ch[i])}
  <1>0. n \in Nat /\ \A i \in 1..n : Proper(Steps(tx)[i])
    BY StepsAre DEF Numbered
  <1>1. ASSUME NEW t, Kept(t) PROVE Onward(t, t)
    BY <1>1, ChainIs, SameOnward DEF Kept, SameBalances
  <1>2. 0 \in Q
    <2>1. ch[0] = s /\ 0 \in 0..n /\ \A j \in 0..0 : j = 0
      BY <1>0 DEF Run
    <2> QED BY <1>1, <2>1
  <1>3. ASSUME NEW i \in 0..n - 1, i \in Q PROVE i + 1 \in Q
    <2>1. i + 1 \in 1..n /\ (i + 1) - 1 = i /\ i + 1 \in 0..n /\ \A j \in 0..i + 1 : j = i + 1 \/ j \in 0..i
      BY <1>0
    <2>2. Allowed(ch[i], Steps(tx)[i + 1]) /\ ch[i + 1] = Effect(ch[i], Steps(tx)[i + 1])
      BY <2>1 DEF Run
    <2>3. Kept(ch[i + 1]) /\ Onward(ch[i], ch[i + 1])
      BY <1>0, <1>3, <2>1, <2>2, EffectKeeps
    <2>4. ASSUME NEW j \in 0..i PROVE Onward(ch[j], ch[i + 1])
      BY <1>3, <2>3, OnwardTrans
    <2>5. Onward(ch[i + 1], ch[i + 1])
      BY <1>1, <2>3
    <2>6. \A j \in 0..i + 1 : Onward(ch[j], ch[i + 1])
      BY <2>1, <2>4, <2>5
    <2> QED BY <2>1, <2>3, <2>6
  <1> HIDE DEF Q
  <1>4. \A i \in 0..n : i \in Q
    BY <1>0, <1>2, <1>3, Upward
  <1> QED BY <1>4 DEF Q

\* No temporary account remains.
Tidy(s) == \A a \in s.accounts : a[2] = 0

ClosedFrom(tx, n, i, a) == \E j \in 1..n : j > i /\ Steps(tx)[j].op = "closeAcct" /\ Steps(tx)[j].acct = a

LEMMA RunTidies ==
    ASSUME NEW s, NEW tx, NEW n, NEW ch, Kept(s), Balanced(tx), n = Len(Steps(tx)), Run(s, tx, n, ch), Tidy(s)
    PROVE  Tidy(ch[n])
  <1> DEFINE Q == {i \in 0..n : \A a \in ch[i].accounts : a[2] = 0 \/ ClosedFrom(tx, n, i, a)}
  <1>n. Numbered(tx)
    BY StepsAre
  <1>0. n \in Nat /\ \A i \in 1..n : Proper(Steps(tx)[i])
    BY <1>n DEF Numbered
  <1>1. 0 \in Q
    <2>1. ch[0] = s /\ 0 \in 0..n
      BY <1>0 DEF Run
    <2> QED BY <2>1 DEF Tidy
  <1>2. ASSUME NEW i \in 0..n - 1, i \in Q PROVE i + 1 \in Q
    <2> DEFINE ix == Steps(tx)[i + 1]
    <2>1. i + 1 \in 1..n /\ (i + 1) - 1 = i /\ i + 1 \in 0..n
      BY <1>0
    <2>2. Allowed(ch[i], ix) /\ ch[i + 1] = Effect(ch[i], ix) /\ Proper(ix)
      BY <1>0, <2>1 DEF Run
    <2>3. Kept(ch[i])
      BY <2>1, RunKeeps
    <2>4. ch[i + 1].accounts = IF ix.op = "create" THEN ch[i].accounts \cup {ix.acct}
                               ELSE IF ix.op = "closeAcct" THEN ch[i].accounts \ {ix.acct}
                               ELSE ch[i].accounts
      <3> HIDE DEF ix
      <3>1. Effect(ch[i], ix).accounts = IF ix.op = "create" THEN ch[i].accounts \cup {ix.acct}
                                         ELSE IF ix.op = "closeAcct" THEN ch[i].accounts \ {ix.acct}
                                         ELSE ch[i].accounts
        BY <2>2, <2>3, EffectAccounts
      <3> QED BY <2>2, <3>1
    <2>5. ASSUME NEW a \in ch[i].accounts, a \in ch[i + 1].accounts
          PROVE  a[2] = 0 \/ ClosedFrom(tx, n, i + 1, a)
      <3>1. a[2] = 0 \/ ClosedFrom(tx, n, i, a)
        BY <1>2
      <3>2. ASSUME NEW j \in 1..n, j > i, Steps(tx)[j].op = "closeAcct", Steps(tx)[j].acct = a
            PROVE  ClosedFrom(tx, n, i + 1, a)
        <4>1. j # i + 1
          BY <2>4, <2>5, <3>2
        <4>2. j > i + 1
          BY <3>2, <4>1
        <4> QED BY <3>2, <4>2 DEF ClosedFrom
      <3> QED BY <3>1, <3>2 DEF ClosedFrom
    <2>6. ASSUME ix.op = "create" PROVE ix.acct[2] = 0 \/ ClosedFrom(tx, n, i + 1, ix.acct)
      <3> DEFINE b == Len(tx.body)
                 c == Len(tx.cleanup)
      <3>0. /\ b \in Nat /\ c \in Nat /\ n = b + c
            /\ \A k \in 1..b : Steps(tx)[k] \in ToSet(tx.body)
            /\ \A k \in 1..c : Steps(tx)[b + k] = tx.cleanup[k] /\ tx.cleanup[k] \in ToSet(tx.cleanup)
        BY <1>n DEF Numbered
      <3>1. \A d \in ToSet(tx.cleanup) : d.op = "closeAcct" /\ \E m \in 1..c : tx.cleanup[m] = d
        BY SeqFacts DEF Balanced
      <3> HIDE DEF b, c
      <3>2. i + 1 \in 1..b
        <4> SUFFICES ASSUME ~(i + 1 <= b) PROVE FALSE
          BY <2>1, <3>0
        <4>1. (i + 1) - b \in 1..c /\ b + ((i + 1) - b) = i + 1
          BY <2>1, <3>0
        <4>2. Steps(tx)[b + ((i + 1) - b)] \in ToSet(tx.cleanup)
          BY <3>0, <4>1
        <4> QED BY <2>6, <3>1, <4>1, <4>2
      <3>3. ix.acct[2] = 0 \/ \E d \in ToSet(tx.cleanup) : d.acct = ix.acct
        BY <2>6, <3>0, <3>2 DEF Balanced, ClosedLater
      <3>4. ASSUME NEW d \in ToSet(tx.cleanup), d.acct = ix.acct PROVE ClosedFrom(tx, n, i + 1, ix.acct)
        <4>1. PICK m \in 1..c : tx.cleanup[m] = d
          BY <3>1
        <4>2. b + m \in 1..n /\ b + m > i + 1
          BY <3>0, <3>2
        <4>3. Steps(tx)[b + m] = d /\ d.op = "closeAcct"
          BY <3>0, <3>1, <4>1
        <4> QED BY <3>4, <4>2, <4>3 DEF ClosedFrom
      <3> QED BY <3>3, <3>4
    <2>7. \A a \in ch[i + 1].accounts : a[2] = 0 \/ ClosedFrom(tx, n, i + 1, a)
      BY <2>4, <2>5, <2>6
    <2> QED BY <2>1, <2>7
  <1> HIDE DEF Q
  <1>3. n \in Q
    <2>1. \A i \in 0..n : i \in Q
      BY <1>0, <1>1, <1>2, Upward
    <2> QED BY <1>0, <2>1
  <1>4. \A a : ~ClosedFrom(tx, n, n, a)
    BY <1>0 DEF ClosedFrom
  <1> QED BY <1>3, <1>4 DEF Q, Tidy

LEMMA ExecuteKeeps ==
    ASSUME NEW s, NEW tx, Kept(s), Tidy(s), Balanced(tx), Execute(s, tx).ok
    PROVE  Kept(Execute(s, tx).chain) /\ Tidy(Execute(s, tx).chain)
  <1> DEFINE n == Len(Steps(tx))
  <1>1. PICK ch : Run(s, tx, n, ch) /\ Execute(s, tx).chain = ch[n]
    BY Runs
  <1>2. n \in 0..n
    BY StepsAre DEF Numbered
  <1> HIDE DEF n
  <1>3. n = Len(Steps(tx))
    BY DEF n
  <1>4. Kept(ch[n])
    BY <1>1, <1>2, <1>3, RunKeeps
  <1>5. Tidy(ch[n])
    BY <1>1, <1>3, RunTidies
  <1> QED BY <1>1, <1>4, <1>5

\* Nothing is owed of a position's fees, or of one of its rewards.
NothingOwed(t, ix) ==
    /\ ix.op = "fees" => Owed(t, ix.pos) = <<0, 0>>
    /\ ix.op = "reward" => RewardOwed(t, ix.pos, ix.index) = 0

LEMMA RewardsCovered ==
    ASSUME NEW s, Kept(s), NEW p \in Positions, ~VaultShort(s, p), NEW i \in Rewards(p)
    PROVE  Covered(s, p, i)
  <1>1. s.rew[p][i] \in Nat /\ s.due[p][i] \in Nat /\ s.vault[p][i] \in Nat
    BY RewardTypes DEF Kept, Rewards
  <1>2. ~(RewardOwed(s, p, i) > s.vault[p][i])
    BY DEF VaultShort
  <1> QED BY <1>1, <1>2 DEF Covered, RewardOwed

LEMMA ExecuteCollects ==
    ASSUME NEW s, NEW tx, NEW knew, Kept(s), Balanced(tx), Execute(s, tx).ok, Current(tx, knew),
           NEW ix \in ToSet(tx.body), ix.op \in {"fees", "reward"},
           knew[ix.pos] = s.liq[ix.pos], ~VaultShort(s, ix.pos)
    PROVE  NothingOwed(Execute(s, tx).chain, ix)
  <1> DEFINE n == Len(Steps(tx))
             b == Len(tx.body)
             p == ix.pos
             end == Execute(s, tx).chain
  <1>1. PICK ch : Run(s, tx, n, ch) /\ end = ch[n]
    BY Runs
  <1>2. /\ n \in Nat /\ b \in Nat /\ b <= n
        /\ \A i \in 1..b : Steps(tx)[i] = tx.body[i]
        /\ \A i \in 1..n : Proper(Steps(tx)[i])
    <2> DEFINE c == Len(tx.cleanup)
    <2>1. /\ n \in Nat /\ b \in Nat /\ c \in Nat /\ n = b + c
          /\ \A i \in 1..b : Steps(tx)[i] = tx.body[i]
          /\ \A i \in 1..n : Proper(Steps(tx)[i])
      BY StepsAre DEF Numbered
    <2> HIDE DEF n, b, c
    <2>2. b <= n
      BY <2>1
    <2> QED BY <2>1, <2>2
  <1>3. PICK i \in 1..b : tx.body[i] = ix
    BY SeqFacts DEF Balanced
  <1>4. \A j \in 0..n : Kept(ch[j]) /\ \A k \in 0..j : Onward(ch[k], ch[j])
    BY <1>1, RunKeeps
  <1>5. Current(tx, knew) => (knew[p] > 0 => UpdatedBefore(tx.body, i, p))
    BY <1>3 DEF Current
  <1> HIDE DEF n, b, end
  <1>6. i \in 1..n /\ i - 1 \in 0..n /\ i \in 0..n /\ 0 \in 0..i - 1 /\ i - 1 \in 0..i /\ n \in 0..n /\ i \in 0..n
    BY <1>2, <1>3
  <1>7. Allowed(ch[i - 1], ix) /\ ch[i] = Effect(ch[i - 1], ix) /\ Proper(ix)
    BY <1>1, <1>2, <1>3, <1>6 DEF Run
  <1>8. ch[0] = s
    BY <1>1 DEF Run
  <1>9. p \in ch[i - 1].open /\ p \in Positions
    <2>1. p \in ch[i - 1].open
      BY <1>7 DEF Allowed
    <2>2. ch[i - 1].open \subseteq Positions
      BY <1>4, <1>6, ChainIs DEF Kept
    <2> QED BY <2>1, <2>2
  <1> HIDE DEF p
  <1>10. Credited(ch[i - 1], p)
    <2>1. CASE knew[p] > 0
      <3>1. PICK j \in 1..i - 1 : tx.body[j].op = "update" /\ tx.body[j].pos = p
        BY <1>5, <2>1 DEF UpdatedBefore
      <3>2. j \in 1..b /\ j \in 1..n /\ j - 1 \in 0..n /\ j \in 0..i - 1
        BY <1>2, <1>3, <1>6
      <3>3. Allowed(ch[j - 1], tx.body[j]) /\ ch[j] = Effect(ch[j - 1], tx.body[j])
        BY <1>1, <1>2, <3>2 DEF Run
      <3>4. p \in ch[j - 1].open /\ ch[j] = Credit(ch[j - 1], p)
        BY <3>1, <3>3 DEF Allowed, Effect, update_fees_and_rewards
      <3>5. Credited(ch[j], p)
        BY <1>4, <3>2, <3>4, CreditSettles
      <3>6. Onward(ch[j], ch[i - 1])
        BY <1>4, <1>6, <3>2
      <3> QED BY <1>9, <3>5, <3>6 DEF Onward
    <2>2. CASE ~(knew[p] > 0)
      <3>1. s.liq[p] \in Nat
        BY <1>9, ChainIs DEF Kept
      <3>2. s.liq[p] = 0
        BY <2>2, <3>1 DEF p
      <3>3. Credited(s, p)
        BY <1>9, <3>2, SettledIs DEF Kept, SettledAt
      <3>4. Onward(s, ch[i - 1])
        BY <1>4, <1>6, <1>8
      <3> QED BY <1>9, <3>3, <3>4 DEF Onward
    <2> QED BY <2>1, <2>2
  <1>11. Kept(ch[i - 1]) /\ Onward(ch[i - 1], ch[i]) /\ Onward(ch[i], end) /\ Onward(s, ch[i - 1])
    BY <1>1, <1>4, <1>6, <1>8
  <1>12. Credited(ch[i], p) /\ Credited(end, p)
    BY <1>9, <1>10, <1>11 DEF Onward
  <1>13. CASE ix.op = "fees"
    <2>1. ch[i] = collect_fees(ch[i - 1], ix)
      BY <1>7, <1>13 DEF Effect
    <2>2. ch[i].fee[p] = <<0, 0>>
      BY <1>9, <1>11, <2>1, FeesSettle DEF p
    <2>3. end.fee[p] = <<0, 0>> /\ end.grown[p] = <<0, 0>>
      BY <1>9, <1>11, <1>12, <2>2 DEF Onward, Credited
    <2> QED BY <1>13, <2>3 DEF NothingOwed, Owed, p, end
  <1>14. CASE ix.op = "reward"
    <2> DEFINE m == ix.index
    <2>1. ch[i] = collect_reward(ch[i - 1], ix) /\ m \in Rewards(p) /\ m \in DOMAIN RewardsOf[p]
      BY <1>7, <1>14 DEF Effect, Allowed, Rewards, p
    <2>2. Covered(s, p, m)
      BY <1>9, <2>1, RewardsCovered DEF p
    <2>3. Covered(ch[i - 1], p, m) /\ Covered(ch[i], p, m)
      BY <1>9, <1>11, <2>1, <2>2 DEF Onward
    <2>4. ch[i].rew[p][m] = 0
      BY <1>9, <1>10, <1>11, <2>1, <2>3, RewardSettles DEF p
    <2>5. end.rew[p][m] = 0 /\ end.due[p][m] = 0
      BY <1>9, <1>11, <1>12, <2>1, <2>3, <2>4 DEF Onward, Credited
    <2> QED BY <1>14, <2>5 DEF NothingOwed, RewardOwed, p, end
  <1> QED BY <1>13, <1>14 DEF end

-----------------------------------------------------------------------------
(* What happens meanwhile. *)

LEMMA TradedKeeps ==
    ASSUME NEW s, Kept(s), NEW side \in {1, 2}, NEW to
    PROVE  Kept(Traded(s, side, to)) /\ Traded(s, side, to).accounts = s.accounts
  <1> DEFINE t == Traded(s, side, to)
             up(p) == [s.grown[p] EXCEPT ![side] = @ + 1]
  <1>1. Chain(s) /\ Settled(s) /\ DOMAIN s = ChainFields
    BY ChainIs DEF Kept
  <1>2. /\ DOMAIN t = ChainFields /\ t.accounts = s.accounts /\ t.open = s.open /\ t.liq = s.liq
        /\ t.fee = s.fee /\ t.rew = s.rew /\ t.due = s.due /\ t.vault = s.vault
        /\ t.grown = [p \in Positions |-> IF p \in s.open /\ s.liq[p] > 0 THEN up(p) ELSE s.grown[p]]
    <2> DEFINE g == [p \in Positions |-> IF p \in s.open /\ s.liq[p] > 0 THEN up(p) ELSE s.grown[p]]
    <2>1. t = [s EXCEPT !.price = to, !.grown = g]
      BY DEF Traded
    <2> HIDE DEF t, g
    <2>2. /\ DOMAIN t = ChainFields /\ t.accounts = s.accounts /\ t.open = s.open /\ t.liq = s.liq
          /\ t.fee = s.fee /\ t.rew = s.rew /\ t.due = s.due /\ t.vault = s.vault
          /\ t.grown = g
      BY <1>1, <2>1 DEF ChainFields
    <2> QED BY <2>2 DEF g
  <1>3. ASSUME NEW p \in Positions PROVE up(p) \in Nat \X Nat
    <2>1. PICK a \in Nat, b \in Nat : s.grown[p] = <<a, b>>
      BY <1>1, ChainIs
    <2>2. up(p) = IF side = 1 THEN <<a + 1, b>> ELSE <<a, b + 1>>
      BY <2>1
    <2> QED BY <2>2
  <1> HIDE DEF t, up
  <1>4. t.grown \in [Positions -> Nat \X Nat]
    BY <1>1, <1>2, <1>3, ChainIs
  <1>5. Chain(t)
    <2>1. /\ t.open \subseteq Positions /\ t.liq \in [Positions -> Nat] /\ t.fee \in [Positions -> Nat \X Nat]
          /\ DOMAIN t.rew = Positions /\ DOMAIN t.due = Positions /\ DOMAIN t.vault = Positions
      BY <1>1, <1>2, ChainIs
    <2>2. ASSUME NEW q \in Positions
          PROVE  \A rewards \in {t.rew[q], t.due[q], t.vault[q]} : rewards \in [DOMAIN RewardsOf[q] -> Nat]
      BY <1>1, <1>2, RewardTypes
    <2> QED BY <1>2, <1>4, <2>1, <2>2 DEF Chain, ChainFields
  <1>6. ASSUME NEW q \in Positions PROVE SettledAt(t, q)
    <2>1. SettledAt(s, q)
      BY <1>1, SettledIs
    <2>2. s.liq[q] = 0 => t.grown[q] = s.grown[q]
      BY <1>2
    <2> QED BY <1>2, <2>1, <2>2 DEF SettledAt, Credited
  <1>7. Settled(t)
    BY <1>5, <1>6, SettledIs
  <1> QED BY <1>2, <1>5, <1>7 DEF Kept, t

LEMMA EmittedKeeps ==
    ASSUME NEW s, Kept(s), NEW i
    PROVE  Kept(Emitted(s, i)) /\ Emitted(s, i).accounts = s.accounts
  <1> DEFINE t == Emitted(s, i)
             up(p) == [s.due[p] EXCEPT ![i] = @ + 1]
  <1>1. Chain(s) /\ Settled(s) /\ DOMAIN s = ChainFields
    BY ChainIs DEF Kept
  <1>2. /\ DOMAIN t = ChainFields /\ t.accounts = s.accounts /\ t.open = s.open /\ t.liq = s.liq
        /\ t.fee = s.fee /\ t.grown = s.grown /\ t.rew = s.rew /\ t.vault = s.vault
        /\ t.due = [p \in Positions |->
              IF p \in s.open /\ s.liq[p] > 0 /\ i \in Rewards(p) THEN up(p) ELSE s.due[p]]
    <2> DEFINE g == [p \in Positions |->
                        IF p \in s.open /\ s.liq[p] > 0 /\ i \in Rewards(p) THEN up(p) ELSE s.due[p]]
    <2>1. t = [s EXCEPT !.due = g]
      BY DEF Emitted
    <2> HIDE DEF t, g
    <2>2. /\ DOMAIN t = ChainFields /\ t.accounts = s.accounts /\ t.open = s.open /\ t.liq = s.liq
          /\ t.fee = s.fee /\ t.grown = s.grown /\ t.rew = s.rew /\ t.vault = s.vault
          /\ t.due = g
      BY <1>1, <2>1 DEF ChainFields
    <2> QED BY <2>2 DEF g
  <1>3. ASSUME NEW p \in Positions, i \in Rewards(p) PROVE up(p) \in [DOMAIN RewardsOf[p] -> Nat]
    BY <1>1, <1>3, RewardTypes DEF Rewards
  <1> HIDE DEF t, up
  <1>4. ASSUME NEW p \in Positions PROVE t.due[p] \in [DOMAIN RewardsOf[p] -> Nat]
    BY <1>1, <1>2, <1>3, RewardTypes
  <1>5. Chain(t)
    <2>1. /\ t.open \subseteq Positions /\ t.liq \in [Positions -> Nat] /\ t.fee \in [Positions -> Nat \X Nat]
          /\ t.grown \in [Positions -> Nat \X Nat]
          /\ DOMAIN t.rew = Positions /\ DOMAIN t.due = Positions /\ DOMAIN t.vault = Positions
      BY <1>1, <1>2, ChainIs
    <2>2. ASSUME NEW q \in Positions
          PROVE  \A rewards \in {t.rew[q], t.due[q], t.vault[q]} : rewards \in [DOMAIN RewardsOf[q] -> Nat]
      BY <1>1, <1>2, <1>4, RewardTypes
    <2> QED BY <1>2, <2>1, <2>2 DEF Chain, ChainFields
  <1>6. ASSUME NEW q \in Positions PROVE SettledAt(t, q)
    <2>1. SettledAt(s, q)
      BY <1>1, SettledIs
    <2>2. s.liq[q] = 0 => t.due[q] = s.due[q]
      BY <1>2
    <2> QED BY <1>2, <2>1, <2>2 DEF SettledAt, Credited
  <1>7. Settled(t)
    BY <1>5, <1>6, SettledIs
  <1> QED BY <1>2, <1>5, <1>7 DEF Kept, t

LEMMA WithdrawnKeeps ==
    ASSUME NEW s, Kept(s), NEW p \in Positions, s.liq[p] > 0
    PROVE  LET t == [Credit(s, p) EXCEPT !.liq[p] = 0] IN Kept(t) /\ t.accounts = s.accounts
  <1> DEFINE u == Credit(s, p)
             t == [u EXCEPT !.liq[p] = 0]
  <1>1. Chain(s) /\ p \in s.open
    <2>1. SettledAt(s, p) /\ s.liq[p] # 0
      BY SettledIs DEF Kept
    <2> QED BY <2>1 DEF SettledAt, Kept
  <1>2. Kept(u) /\ Credited(u, p)
    BY <1>1, CreditSettles
  <1>3. u.open = s.open /\ u.liq = s.liq /\ u.accounts = s.accounts /\ DOMAIN u = ChainFields
    BY <1>1, CreditIs
  <1> HIDE DEF u
  <1>4. SameBalances(u, t) /\ t.open = u.open /\ t.accounts = s.accounts /\ t.liq = [u.liq EXCEPT ![p] = 0]
    BY <1>3 DEF SameBalances, ChainFields
  <1> HIDE DEF t
  <1>5. Kept(t)
    BY <1>1, <1>2, <1>3, <1>4, LiquiditySettles
  <1> QED BY <1>4, <1>5 DEF t, u

LEMMA AccountKeeps ==
    ASSUME NEW s, Kept(s), NEW a
    PROVE  LET t == [s EXCEPT !.accounts = @ \cup {a}] IN Kept(t) /\ t.accounts = s.accounts \cup {a}
  <1> DEFINE t == [s EXCEPT !.accounts = @ \cup {a}]
  <1>1. DOMAIN s = ChainFields /\ s.open \subseteq Positions
    BY ChainIs DEF Kept
  <1>2. SameBalances(s, t) /\ t.liq = s.liq /\ t.open = s.open /\ t.accounts = s.accounts \cup {a}
    BY <1>1 DEF SameBalances, ChainFields
  <1> HIDE DEF t
  <1>3. Kept(t)
    BY <1>1, <1>2, BalancesKept
  <1> QED BY <1>2, <1>3 DEF t

-----------------------------------------------------------------------------
(* The inductive invariant. *)

RequestFields == {"kind", "pos", "resolved", "threw", "failed", "read", "knew"}

\* Transactions are made of what the builders make, and those that collect
\* everything bring positions up to date.
Queued(request, txs) ==
    /\ DOMAIN request = RequestFields
    /\ Transactions(txs)
    /\ request.kind = "all" => \A tx \in ToSet(txs) : Current(tx, request.knew)

Sound ==
    /\ Kept(chain) /\ Tidy(chain)
    /\ IsSeq(requests) /\ IsSeq(queues) /\ Len(requests) = Len(queues)
    /\ \A r \in DOMAIN queues : Queued(requests[r], queues[r])

LEMMA Replaced ==
    ASSUME NEW s, IsSeq(s), NEW i \in DOMAIN s, NEW x
    PROVE  LET t == [s EXCEPT ![i] = x]
           IN  IsSeq(t) /\ Len(t) = Len(s) /\ DOMAIN t = DOMAIN s
               /\ t[i] = x /\ \A j \in DOMAIN s : j # i => t[j] = s[j]
  <1> DEFINE t == [s EXCEPT ![i] = x]
             n == Len(s)
  <1>1. n \in Nat /\ DOMAIN s = 1..n
    BY SeqFacts
  <1>2. /\ DOMAIN t = DOMAIN s /\ t[i] = x /\ \A j \in DOMAIN s : j # i => t[j] = s[j]
        /\ t = [j \in DOMAIN s |-> t[j]]
    OBVIOUS
  <1> HIDE DEF t, n
  <1>3. t = [j \in 1..n |-> t[j]]
    BY <1>1, <1>2
  <1>4. IsSeq(t) /\ Len(t) = n
    BY <1>1, <1>3, Listed
  <1> QED BY <1>2, <1>4 DEF t, n

LEMMA NoneIsTransactions == Transactions(<<>>)
  BY EmptyIsSeq DEF Transactions

LEMMA OneIsTransactions == ASSUME NEW tx, Balanced(tx) PROVE Transactions(<<tx>>)
  BY Single_ DEF Transactions

\* A call adds what it asked and returned.
LEMMA ReturnKeeps ==
    ASSUME Sound, NEW request, NEW threw, NEW txs, Return(request, threw, txs), Queued(request, txs)
    PROVE  Sound'
  <1> DEFINE q == [request EXCEPT !.threw = threw]
             w == IF threw THEN <<>> ELSE txs
             n == Len(queues)
  <1>1. requests' = Append(requests, q) /\ queues' = Append(queues, w) /\ chain' = chain
    BY DEF Return
  <1>2. q.kind = request.kind /\ q.knew = request.knew /\ DOMAIN q = RequestFields
    BY DEF Queued, RequestFields
  <1>3. Queued(q, w)
    <2>1. Transactions(w) /\ ToSet(<<>>) = {}
      BY NoneIsTransactions, EmptyIsSeq DEF Queued
    <2> QED BY <1>2, <2>1 DEF Queued
  <1> HIDE DEF q, w
  <1>4. IsSeq(requests) /\ IsSeq(queues) /\ Len(requests) = n /\ n \in Nat /\ DOMAIN queues = 1..n
    BY SeqFacts DEF Sound
  <1>5. /\ IsSeq(requests') /\ Len(requests') = n + 1 /\ requests'[n + 1] = q
        /\ \A i \in 1..n : requests'[i] = requests[i]
    <2>1. LET t == Append(requests, q)
          IN  /\ IsSeq(t) /\ Len(t) = Len(requests) + 1 /\ t[Len(requests) + 1] = q
              /\ \A i \in 1..Len(requests) : t[i] = requests[i]
      BY <1>4, Appended, ZenonT(60)
    <2> QED BY <1>1, <1>4, <2>1
  <1>6. /\ IsSeq(queues') /\ Len(queues') = n + 1 /\ queues'[n + 1] = w
        /\ \A i \in 1..n : queues'[i] = queues[i]
    <2>1. LET t == Append(queues, w)
          IN  /\ IsSeq(t) /\ Len(t) = Len(queues) + 1 /\ t[Len(queues) + 1] = w
              /\ \A i \in 1..Len(queues) : t[i] = queues[i]
      BY <1>4, Appended, ZenonT(60)
    <2> QED BY <1>1, <1>4, <2>1
  <1> HIDE DEF n
  <1>7. DOMAIN queues' = 1..n + 1
    BY <1>6, SeqFacts
  <1>8. ASSUME NEW r \in 1..n + 1 PROVE Queued(requests'[r], queues'[r])
    <2>1. CASE r = n + 1
      BY <1>3, <1>5, <1>6, <2>1
    <2>2. CASE r # n + 1
      <3>1. r \in 1..n
        BY <1>4, <2>2
      <3> QED BY <1>4, <1>5, <1>6, <3>1 DEF Sound
    <2> QED BY <2>1, <2>2
  <1>9. \A r \in DOMAIN queues' : Queued(requests'[r], queues'[r])
    BY <1>7, <1>8
  <1>10. Kept(chain') /\ Tidy(chain')
    BY <1>1 DEF Sound
  <1> QED BY <1>5, <1>6, <1>9, <1>10 DEF Sound

LEMMA RequestIs ==
    ASSUME NEW kind, NEW p, NEW resolved
    PROVE  /\ DOMAIN Request(kind, p) = RequestFields
           /\ Request(kind, p).kind = kind /\ Request(kind, p).knew = cached
           /\ DOMAIN [Request(kind, p) EXCEPT !.resolved = resolved] = RequestFields
           /\ [Request(kind, p) EXCEPT !.resolved = resolved].kind = kind
           /\ [Request(kind, p) EXCEPT !.resolved = resolved].knew = cached
  BY DEF Request, RequestFields

LEMMA CallQueued ==
    ASSUME NEW kind, kind # "all", NEW p, NEW resolved, NEW txs, Transactions(txs)
    PROVE  /\ Queued(Request(kind, p), txs)
           /\ Queued([Request(kind, p) EXCEPT !.resolved = resolved], txs)
  BY RequestIs DEF Queued

LEMMA SoundInit == ASSUME Init PROVE Sound
  <1>1. Kept(chain) /\ Tidy(chain)
    BY StartsAssumption DEF Init, Kept, Tidy
  <1>2. IsSeq(<<>>) /\ Len(<<>>) = 0 /\ DOMAIN <<>> = {}
    BY EmptyIsSeq
  <1> QED BY <1>1, <1>2 DEF Init, Sound

LEMMA CallsKeep ==
    ASSUME Sound, NEW p \in Positions,
           \/ openPosition(p) \/ closePosition(p)
           \/ \E resolveATA \in BOOLEAN : increaseLiquidity(p, resolveATA) \/ decreaseLiquidity(p, resolveATA)
           \/ \E map \in AccountMaps :
                 \/ collectFees(p, map)
                 \/ \E asked \in SUBSET {RewardsOf[p][i] : i \in Rewards(p)} : collectRewards(p, asked, map)
    PROVE  Sound'
  <1>1. CASE openPosition(p)
    <2>1. Transactions(<<OpenTx(chain, p)>>)
      BY LiquidityReturns, OneIsTransactions
    <2>2. Queued(Request("open", p), <<OpenTx(chain, p)>>)
      BY <2>1, CallQueued
    <2> QED BY <1>1, <2>2, ReturnKeeps DEF openPosition
  <1>2. CASE closePosition(p)
    <2> DEFINE f == getClosePositionIx(chain, p)
    <2>1. Queued(Request("close", p), build(f))
      BY CloseReturns, CallQueued
    <2>2. Return(Request("close", p), f.thrown, build(f))
      BY <1>2 DEF closePosition
    <2> HIDE DEF f
    <2> QED BY <2>1, <2>2, ReturnKeeps
  <1>3. ASSUME NEW resolveATA \in BOOLEAN, increaseLiquidity(p, resolveATA) PROVE Sound'
    <2> DEFINE txs == <<IncreaseTx(chain, p, resolveATA)>>
    <2>1. Transactions(txs)
      BY LiquidityReturns, OneIsTransactions
    <2>2. Return([Request("increase", p) EXCEPT !.resolved = resolveATA], FALSE, txs)
      BY <1>3 DEF increaseLiquidity
    <2> HIDE DEF txs
    <2>3. Queued([Request("increase", p) EXCEPT !.resolved = resolveATA], txs)
      BY <2>1, CallQueued
    <2> QED BY <2>2, <2>3, ReturnKeeps
  <1>4. ASSUME NEW resolveATA \in BOOLEAN, decreaseLiquidity(p, resolveATA) PROVE Sound'
    <2> DEFINE txs == <<DecreaseTx(chain, p, 1, resolveATA)>>
    <2>1. Transactions(txs)
      BY LiquidityReturns, OneIsTransactions
    <2>2. Return([Request("decrease", p) EXCEPT !.resolved = resolveATA], FALSE, txs)
      BY <1>4 DEF decreaseLiquidity
    <2> HIDE DEF txs
    <2>3. Queued([Request("decrease", p) EXCEPT !.resolved = resolveATA], txs)
      BY <2>1, CallQueued
    <2> QED BY <2>2, <2>3, ReturnKeeps
  <1>5. ASSUME NEW map \in AccountMaps, collectFees(p, map) PROVE Sound'
    <2> DEFINE txs == <<CollectFeesTx(chain, cached, p, map)>>
               request == [Request("fees", p) EXCEPT !.resolved = map = None]
    <2>1. Transactions(txs)
      BY FeesReturn, OneIsTransactions
    <2>2. Return(request, CollectFeesThrows(p, map), txs)
      BY <1>5 DEF collectFees
    <2> HIDE DEF txs
    <2>3. Queued(request, txs)
      BY <2>1, CallQueued
    <2> HIDE DEF request
    <2> QED BY <2>2, <2>3, ReturnKeeps
  <1>6. ASSUME NEW map \in AccountMaps, NEW asked, collectRewards(p, asked, map) PROVE Sound'
    <2> DEFINE f == CollectRewardsFactory(chain, cached, p, asked, map)
               request == [Request("rewards", p) EXCEPT !.resolved = map = None]
    <2>1. Transactions(build(f))
      BY RewardsReturn
    <2>2. Return(request, f.thrown, build(f))
      BY <1>6 DEF collectRewards
    <2> HIDE DEF f
    <2>3. Queued(request, build(f))
      BY <2>1, CallQueued
    <2> HIDE DEF request
    <2> QED BY <2>2, <2>3, ReturnKeeps
  <1> QED BY <1>1, <1>2, <1>3, <1>4, <1>5, <1>6

LEMMA CollectAllKeeps == ASSUME Sound, collectAll PROVE Sound'
  <1> DEFINE all == collectAllForPositionsTxns(chain, cached)
  <1>1. Return(Request("all", None), all.thrown, all.txs)
    BY DEF collectAll
  <1>2. Transactions(all.txs) /\ \A tx \in ToSet(all.txs) : Current(tx, cached)
    BY CollectAllReturns
  <1> HIDE DEF all
  <1>3. Queued(Request("all", None), all.txs)
    BY <1>2, RequestIs DEF Queued
  <1> QED BY <1>1, <1>3, ReturnKeeps

\* A queue becomes shorter, or a request is marked.
LEMMA QueueKeeps ==
    ASSUME Sound, NEW r \in DOMAIN queues, NEW w, queues' = [queues EXCEPT ![r] = w],
           IsSeq(w), ToSet(w) \subseteq ToSet(queues[r]),
           Kept(chain'), Tidy(chain'),
           \/ requests' = requests
           \/ requests' = [requests EXCEPT ![r].failed = TRUE]
    PROVE  Sound'
  <1>1. /\ IsSeq(queues') /\ Len(queues') = Len(queues) /\ DOMAIN queues' = DOMAIN queues
        /\ queues'[r] = w /\ \A j \in DOMAIN queues : j # r => queues'[j] = queues[j]
    BY Replaced DEF Sound
  <1>2. DOMAIN requests = DOMAIN queues
    BY SeqFacts DEF Sound
  <1>3. /\ IsSeq(requests') /\ Len(requests') = Len(requests)
        /\ \A j \in DOMAIN queues : j # r => requests'[j] = requests[j]
        /\ requests'[r].kind = requests[r].kind /\ requests'[r].knew = requests[r].knew
        /\ DOMAIN requests'[r] = RequestFields
    <2>1. DOMAIN requests[r] = RequestFields
      BY DEF Sound, Queued
    <2> DEFINE x == [requests[r] EXCEPT !.failed = TRUE]
    <2>2. x.kind = requests[r].kind /\ x.knew = requests[r].knew /\ DOMAIN x = RequestFields
      BY <2>1 DEF RequestFields
    <2>3. [requests EXCEPT ![r].failed = TRUE] = [requests EXCEPT ![r] = x]
      OBVIOUS
    <2> HIDE DEF x
    <2>4. LET t == [requests EXCEPT ![r] = x]
          IN  IsSeq(t) /\ Len(t) = Len(requests)
              /\ t[r] = x /\ \A j \in DOMAIN requests : j # r => t[j] = requests[j]
      BY <1>2, Replaced DEF Sound
    <2>5. CASE requests' = requests
      BY <2>1, <2>5 DEF Sound
    <2>6. CASE requests' = [requests EXCEPT ![r] = x]
      BY <1>2, <2>2, <2>4, <2>6
    <2> QED BY <2>3, <2>5, <2>6
  <1>4. ASSUME NEW j \in DOMAIN queues PROVE Queued(requests'[j], queues'[j])
    <2>1. Queued(requests[j], queues[j])
      BY DEF Sound
    <2>2. CASE j = r
      BY <1>1, <1>3, <2>1, <2>2 DEF Queued, Transactions
    <2>3. CASE j # r
      BY <1>1, <1>3, <2>1, <2>3
    <2> QED BY <2>2, <2>3
  <1> QED BY <1>1, <1>3, <1>4 DEF Sound

LEMMA QueueFacts ==
    ASSUME Sound, NEW r \in DOMAIN queues, NEW n \in DOMAIN queues[r]
    PROVE  /\ IsSeq(queues[r]) /\ Balanced(queues[r][n])
           /\ requests[r].kind = "all" => Current(queues[r][n], requests[r].knew)
           /\ IsSeq(RemoveAt(queues[r], n)) /\ ToSet(RemoveAt(queues[r], n)) \subseteq ToSet(queues[r])
  <1>1. Queued(requests[r], queues[r])
    BY DEF Sound
  <1>2. IsSeq(queues[r])
    BY <1>1 DEF Queued, Transactions
  <1>3. queues[r][n] \in ToSet(queues[r])
    BY DEF ToSet
  <1> QED BY <1>1, <1>2, <1>3, Removed DEF Queued, Transactions

LEMMA GivenUpIs ==
    ASSUME Sound, NEW r \in DOMAIN queues, NEW n \in DOMAIN queues[r]
    PROVE  \E w : /\ GivenUp(r, n) = [queues EXCEPT ![r] = w]
                  /\ IsSeq(w) /\ ToSet(w) \subseteq ToSet(queues[r])
  <1> DEFINE w == IF Unordered(r) THEN RemoveAt(queues[r], n) ELSE <<>>
  <1>1. GivenUp(r, n) = [queues EXCEPT ![r] = w]
    BY DEF GivenUp
  <1>2. IsSeq(w) /\ ToSet(w) \subseteq ToSet(queues[r])
    BY QueueFacts, EmptyIsSeq
  <1> QED BY <1>1, <1>2

LEMMA SubmitKeeps ==
    ASSUME Sound, NEW r \in DOMAIN queues, NEW n \in DOMAIN queues[r], Submit(r, n)
    PROVE  Sound'
  <1> DEFINE res == Execute(chain, queues[r][n])
  <1>1. CASE res.ok
    <2>1. /\ chain' = res.chain /\ queues' = [queues EXCEPT ![r] = RemoveAt(queues[r], n)]
          /\ requests' = requests
      BY <1>1 DEF Submit
    <2>2. Kept(res.chain) /\ Tidy(res.chain)
      BY <1>1, QueueFacts, ExecuteKeeps DEF Sound
    <2> HIDE DEF res
    <2> QED BY <2>1, <2>2, QueueFacts, QueueKeeps
  <1>2. CASE ~res.ok
    <2>1. chain' = chain /\ queues' = GivenUp(r, n) /\ requests' = [requests EXCEPT ![r].failed = TRUE]
      BY <1>2 DEF Submit
    <2>2. PICK w : /\ GivenUp(r, n) = [queues EXCEPT ![r] = w]
                   /\ IsSeq(w) /\ ToSet(w) \subseteq ToSet(queues[r])
      BY GivenUpIs
    <2>3. Kept(chain') /\ Tidy(chain')
      BY <2>1 DEF Sound
    <2> HIDE DEF res
    <2> QED BY <2>1, <2>2, <2>3, QueueKeeps
  <1> QED BY <1>1, <1>2

LEMMA LoseKeeps ==
    ASSUME Sound, NEW r \in DOMAIN queues, NEW n \in DOMAIN queues[r], Lose(r, n)
    PROVE  Sound'
  <1>1. PICK w : /\ GivenUp(r, n) = [queues EXCEPT ![r] = w]
                 /\ IsSeq(w) /\ ToSet(w) \subseteq ToSet(queues[r])
    BY GivenUpIs
  <1>2. Kept(chain') /\ Tidy(chain')
    BY DEF Sound, Lose
  <1> QED BY <1>1, <1>2, QueueKeeps DEF Lose

\* What happens meanwhile changes the chain alone.
LEMMA OthersKeep ==
    ASSUME Sound, NEW next, Others(next), Kept(next), Tidy(next)
    PROVE  Sound'
  BY DEF Others, Sound

LEMMA MeanwhileKeeps ==
    ASSUME Sound,
           \/ Trade \/ Emission
           \/ \E p \in Positions : Withdraw(p)
           \/ \E mint \in Mints : OpenAccount(mint)
    PROVE  Sound'
  <1>0. Kept(chain) /\ Tidy(chain)
    BY DEF Sound
  <1>1. ASSUME NEW side \in {1, 2}, NEW to, Others(Traded(chain, side, to)) PROVE Sound'
    <2>1. Kept(Traded(chain, side, to)) /\ Tidy(Traded(chain, side, to))
      BY <1>0, TradedKeeps DEF Tidy
    <2> QED BY <1>1, <2>1, OthersKeep
  <1>2. ASSUME NEW i, Others(Emitted(chain, i)) PROVE Sound'
    <2>1. Kept(Emitted(chain, i)) /\ Tidy(Emitted(chain, i))
      BY <1>0, EmittedKeeps DEF Tidy
    <2> QED BY <1>2, <2>1, OthersKeep
  <1>3. ASSUME NEW p \in Positions, Withdraw(p) PROVE Sound'
    <2> DEFINE t == [Credit(chain, p) EXCEPT !.liq[p] = 0]
    <2>1. chain.liq[p] > 0 /\ Others(t)
      BY <1>3 DEF Withdraw
    <2>2. Kept(t) /\ t.accounts = chain.accounts
      BY <1>0, <2>1, WithdrawnKeeps
    <2> HIDE DEF t
    <2>3. Tidy(t)
      BY <1>0, <2>2 DEF Tidy
    <2> QED BY <2>1, <2>2, <2>3, OthersKeep
  <1>4. ASSUME NEW mint, OpenAccount(mint) PROVE Sound'
    <2> DEFINE t == [chain EXCEPT !.accounts = @ \cup {ATA(mint)}]
    <2>1. Others(t)
      BY <1>4 DEF OpenAccount
    <2>2. Kept(t) /\ t.accounts = chain.accounts \cup {ATA(mint)}
      BY <1>0, AccountKeeps
    <2> HIDE DEF t
    <2>3. Tidy(t)
      BY <1>0, <2>2 DEF Tidy, ATA
    <2> QED BY <2>1, <2>2, <2>3, OthersKeep
  <1> QED BY <1>1, <1>2, <1>3, <1>4 DEF Trade, Emission

LEMMA SoundNext == ASSUME Sound, [Next]_vars PROVE Sound'
  <1>1. ASSUME NEW p \in Positions, refreshData(p) PROVE Sound'
    BY <1>1 DEF refreshData, Sound
  <1>2. CASE UNCHANGED vars
    BY <1>2 DEF vars, Sound
  <1> QED BY <1>1, <1>2, CallsKeep, CollectAllKeeps, SubmitKeeps, LoseKeeps, MeanwhileKeeps DEF Next

\* The invariant behind the theorems about wallets: positions, token accounts and
\* the transactions that wait are as the builders and the program keep them.
THEOREM WalletsSound == Spec => []Sound
  <1> QED BY SoundInit, SoundNext, PTL DEF Spec

LEMMA SoundTidies == ASSUME Sound PROVE NothingLeftBehind
  <1>1. Kept(chain) /\ Tidy(chain)
    BY DEF Sound
  <1>2. ASSUME NEW p \in Positions \ chain.open
        PROVE  /\ chain.liq[p] = 0 /\ Owed(chain, p) = <<0, 0>>
               /\ \A i \in DOMAIN chain.rew[p] : RewardOwed(chain, p, i) = 0
    <2>1. SettledAt(chain, p)
      BY <1>1, SettledIs DEF Kept
    <2>2. Credited(chain, p) /\ chain.liq[p] = 0 /\ chain.fee[p] = <<0, 0>>
      BY <2>1 DEF SettledAt
    <2>3. DOMAIN chain.rew[p] = DOMAIN RewardsOf[p]
      BY <1>1, RewardTypes DEF Kept
    <2>4. Owed(chain, p) = <<0, 0>>
      BY <2>2 DEF Owed, Credited
    <2>5. \A i \in DOMAIN RewardsOf[p] : RewardOwed(chain, p, i) = 0
      BY <2>1, <2>2 DEF SettledAt, Credited, RewardOwed
    <2> QED BY <2>2, <2>3, <2>4, <2>5
  <1> QED BY <1>1, <1>2 DEF NothingLeftBehind, Tidy

\* A position that is not open has no liquidity and is owed nothing, and no
\* temporary wrapped SOL account survives a transaction, whatever calls
\* were made, in whatever order their transactions arrived, and whichever
\* failed or were lost (close_position.rs, txn-utils.ts).
THEOREM NoneLeft == Spec => []NothingLeftBehind
  <1>1. Sound => NothingLeftBehind
    BY SoundTidies
  <1> QED BY <1>1, WalletsSound, PTL

LEMMA StepCollects == ASSUME Sound, Next PROVE
    \A r \in DOMAIN queues : requests[r].kind = "all" /\ queues'[r] # queues[r] /\ chain' # chain =>
        \E n \in DOMAIN queues[r] :
            /\ queues'[r] = RemoveAt(queues[r], n)
            /\ \A ix \in Ixs(r, n) :
                  ix.op \in {"fees", "reward"} /\ requests[r].knew[ix.pos] = chain.liq[ix.pos]
                      /\ ~VaultShort(chain, ix.pos) =>
                    /\ ix.op = "fees" => Owed(chain', ix.pos) = <<0, 0>>
                    /\ ix.op = "reward" => RewardOwed(chain', ix.pos, ix.index) = 0
  <1> SUFFICES ASSUME NEW r \in DOMAIN queues, requests[r].kind = "all", queues'[r] # queues[r], chain' # chain
               PROVE  \E n \in DOMAIN queues[r] :
                         /\ queues'[r] = RemoveAt(queues[r], n)
                         /\ \A ix \in Ixs(r, n) :
                               ix.op \in {"fees", "reward"} /\ requests[r].knew[ix.pos] = chain.liq[ix.pos]
                                   /\ ~VaultShort(chain, ix.pos) =>
                                 /\ ix.op = "fees" => Owed(chain', ix.pos) = <<0, 0>>
                                 /\ ix.op = "reward" => RewardOwed(chain', ix.pos, ix.index) = 0
    OBVIOUS
  <1>1. PICK q \in DOMAIN queues : \E n \in DOMAIN queues[q] : Submit(q, n)
    <2>1. ASSUME NEW request, NEW threw, NEW txs, Return(request, threw, txs) PROVE FALSE
      BY <2>1 DEF Return
    <2>2. ASSUME NEW next, Others(next) PROVE FALSE
      BY <2>2 DEF Others
    <2>3. ASSUME NEW p, refreshData(p) \/ \E s \in DOMAIN queues : \E n \in DOMAIN queues[s] : Lose(s, n) PROVE FALSE
      BY <2>3 DEF refreshData, Lose
    <2>4. /\ ~Trade /\ ~Emission /\ ~collectAll
          /\ \A p : ~Withdraw(p) /\ ~OpenAccount(p) /\ ~openPosition(p) /\ ~closePosition(p)
          /\ \A p, x : ~increaseLiquidity(p, x) /\ ~decreaseLiquidity(p, x) /\ ~collectFees(p, x)
          /\ \A p, x, y : ~collectRewards(p, x, y)
      BY <2>1, <2>2, Zenon DEF Trade, Emission, collectAll, Withdraw, OpenAccount, openPosition, closePosition,
         increaseLiquidity, decreaseLiquidity, collectFees, collectRewards
    <2> QED BY <2>3, <2>4, Zenon DEF Next
  <1>2. PICK n \in DOMAIN queues[q] : Submit(q, n)
    BY <1>1
  <1> DEFINE tx == queues[q][n]
  <1>3. /\ Execute(chain, tx).ok /\ chain' = Execute(chain, tx).chain
        /\ queues' = [queues EXCEPT ![q] = RemoveAt(@, n)]
    BY <1>2 DEF Submit
  <1>4. q = r /\ queues'[r] = RemoveAt(queues[r], n)
    BY <1>3
  <1>5. Balanced(tx) /\ Current(tx, requests[r].knew) /\ Kept(chain)
    BY <1>4, QueueFacts DEF Sound
  <1>6. ASSUME NEW ix \in Ixs(r, n), ix.op \in {"fees", "reward"},
               requests[r].knew[ix.pos] = chain.liq[ix.pos], ~VaultShort(chain, ix.pos)
        PROVE  NothingOwed(chain', ix)
    <2>1. ix \in ToSet(tx.body)
      BY <1>4, <1>6 DEF Ixs
    <2>2. NothingOwed(Execute(chain, tx).chain, ix)
      <3> HIDE DEF tx
      <3> QED BY <1>3, <1>5, <1>6, <2>1, ExecuteCollects
    <2> QED BY <1>3, <2>2
  <1> QED BY <1>4, <1>6 DEF NothingOwed

\* What a transaction of collectAll collects, it collects up to the moment it
\* executes, whatever traded and was emitted since the call: the position was
\* brought up to date before, in the same transaction, or had no liquidity
\* (collect-all-txn.ts, position_manager.rs).
THEOREM CollectedToDate == Spec => CollectsToDate
  <1>1. Sound /\ [Next]_vars =>
          [\A r \in DOMAIN queues : requests[r].kind = "all" /\ queues'[r] # queues[r] /\ chain' # chain =>
              \E n \in DOMAIN queues[r] :
                  /\ queues'[r] = RemoveAt(queues[r], n)
                  /\ \A ix \in Ixs(r, n) :
                        ix.op \in {"fees", "reward"} /\ requests[r].knew[ix.pos] = chain.liq[ix.pos]
                            /\ ~VaultShort(chain, ix.pos) =>
                          /\ ix.op = "fees" => Owed(chain', ix.pos) = <<0, 0>>
                          /\ ix.op = "reward" => RewardOwed(chain', ix.pos, ix.index) = 0]_vars
    BY StepCollects
  <1> QED BY <1>1, WalletsSound, PTL DEF Spec, CollectsToDate

-----------------------------------------------------------------------------
(* Every task once. *)

LEMMA SeqIs ==
    ASSUME NEW s, IsSeq(s)
    PROVE  s = [i \in 1..Len(s) |-> s[i]]
  <1>1. s \in [1..Len(s) -> ToSet(s)]
    BY LenProperties DEF IsSeq
  <1> QED BY <1>1

LEMMA Assoc ==
    ASSUME NEW s, NEW t, NEW u, IsSeq(s), IsSeq(t), IsSeq(u)
    PROVE  (s \o t) \o u = s \o (t \o u)
  <1> DEFINE S == ToSet(s) \cup ToSet(t) \cup ToSet(u)
  <1>1. s \in Seq(S) /\ t \in Seq(S) /\ u \in Seq(S)
    BY SeqMonotonic DEF IsSeq
  <1> HIDE DEF S
  <1> QED BY <1>1, ConcatAssociative

LEMMA ConcatEmpty ==
    ASSUME NEW s, IsSeq(s)
    PROVE  s \o <<>> = s /\ <<>> \o s = s
  BY ConcatEmptySeq DEF IsSeq

\* What is kept depends on the set's elements of the sequence only.
LEMMA AmongSame ==
    ASSUME NEW s, IsSeq(s), NEW S, NEW T, \A x \in ToSet(s) : x \in S <=> x \in T
    PROVE  Among(s, S) = Among(s, T)
  <1> DEFINE n == Len(s)
  <1>1. n \in Nat /\ DOMAIN s = 1..n /\ \A i \in 1..n : s[i] \in ToSet(s)
    BY SeqFacts
  <1> HIDE DEF n
  <1>2. PICK f : Loop("among", S, <<>>, s, n, f) /\ Among(s, S) = f[n]
    BY <1>1, AmongLoop
  <1>3. PICK g : Loop("among", T, <<>>, s, n, g) /\ Among(s, T) = g[n]
    BY <1>1, AmongLoop
  <1> DEFINE Q == {i \in 0..n : f[i] = g[i]}
  <1>4. 0 \in Q
    BY <1>1, <1>2, <1>3 DEF Loop
  <1>5. ASSUME NEW i \in 0..n - 1, i \in Q PROVE i + 1 \in Q
    <2>1. i + 1 \in 1..n /\ (i + 1) - 1 = i /\ i + 1 \in 0..n
      BY <1>1
    <2>2. /\ f[i + 1] = IF s[i + 1] \in S THEN Append(f[i], s[i + 1]) ELSE f[i]
          /\ g[i + 1] = IF s[i + 1] \in T THEN Append(g[i], s[i + 1]) ELSE g[i]
      BY <1>2, <1>3, <2>1 DEF Loop, Apply
    <2> QED BY <1>1, <1>5, <2>1, <2>2
  <1> HIDE DEF Q
  <1>6. n \in Q
    <2>1. \A i \in 0..n : i \in Q
      BY <1>1, <1>4, <1>5, Upward
    <2> QED BY <1>1, <2>1
  <1> QED BY <1>2, <1>3, <1>6 DEF Q

\* A prefix of a loop: what follows does not matter.
LEMMA AmongJoined ==
    ASSUME NEW s, NEW t, IsSeq(s), IsSeq(t), NEW S
    PROVE  Among(s \o t, S) = Among(s, S) \o Among(t, S)
  <1> DEFINE n == Len(s)
             m == Len(t)
             u == s \o t
  <1>1. /\ n \in Nat /\ DOMAIN s = 1..n /\ m \in Nat /\ DOMAIN t = 1..m
        /\ IsSeq(u) /\ Len(u) = n + m /\ DOMAIN u = 1..n + m
        /\ \A i \in 1..n : u[i] = s[i]
        /\ \A i \in 1..m : u[n + i] = t[i]
    <2>1. /\ n \in Nat /\ DOMAIN s = 1..n /\ m \in Nat /\ DOMAIN t = 1..m
          /\ IsSeq(u) /\ Len(u) = n + m
          /\ \A i \in 1..n : u[i] = s[i]
          /\ \A i \in 1..m : u[n + i] = t[i]
      BY SeqFacts, Joined
    <2> HIDE DEF n, m, u
    <2>2. DOMAIN u = 1..n + m
      BY <2>1, SeqFacts
    <2> QED BY <2>1, <2>2
  <1> HIDE DEF n, m, u
  <1>2. PICK f : Loop("among", S, <<>>, s, n, f) /\ Among(s, S) = f[n]
    BY <1>1, AmongLoop
  <1>3. PICK g : Loop("among", S, <<>>, t, m, g) /\ Among(t, S) = g[m]
    BY <1>1, AmongLoop
  <1>4. PICK h : Loop("among", S, <<>>, u, n + m, h) /\ Among(u, S) = h[n + m]
    <2>1. n + m \in Nat
      BY <1>1
    <2> QED BY <1>1, <2>1, AmongLoop
  <1> DEFINE P == {i \in 0..n : h[i] = f[i] /\ IsSeq(f[i])}
             Q == {i \in 0..m : h[n + i] = f[n] \o g[i] /\ IsSeq(g[i])}
  <1>5. n \in P
    <2>1. 0 \in P
      <3>1. h[0] = <<>> /\ f[0] = <<>> /\ 0 \in 0..n
        BY <1>1, <1>2, <1>4 DEF Loop
      <3> QED BY <3>1, EmptyIsSeq
    <2>2. ASSUME NEW i \in 0..n - 1, i \in P PROVE i + 1 \in P
      <3>1. i + 1 \in 1..n /\ (i + 1) - 1 = i /\ i + 1 \in 0..n /\ i + 1 \in 1..n + m
        BY <1>1
      <3>2. /\ h[i + 1] = IF u[i + 1] \in S THEN Append(h[i], u[i + 1]) ELSE h[i]
            /\ f[i + 1] = IF s[i + 1] \in S THEN Append(f[i], s[i + 1]) ELSE f[i]
        BY <1>2, <1>4, <3>1 DEF Loop, Apply
      <3>3. u[i + 1] = s[i + 1]
        BY <1>1, <3>1
      <3>4. IsSeq(Append(f[i], s[i + 1]))
        BY <2>2, Appended
      <3> QED BY <2>2, <3>1, <3>2, <3>3, <3>4
    <2> HIDE DEF P
    <2>3. \A i \in 0..n : i \in P
      BY <1>1, <2>1, <2>2, Upward
    <2> QED BY <1>1, <2>3
  <1>6. h[n] = f[n] /\ IsSeq(f[n])
    BY <1>5
  <1> HIDE DEF P
  <1>7. m \in Q
    <2>1. 0 \in Q
      <3>1. g[0] = <<>> /\ 0 \in 0..m /\ n + 0 = n
        BY <1>1, <1>3 DEF Loop
      <3>2. f[n] \o <<>> = f[n]
        BY <1>6, ConcatEmpty
      <3> QED BY <1>6, <3>1, <3>2, EmptyIsSeq
    <2>2. ASSUME NEW i \in 0..m - 1, i \in Q PROVE i + 1 \in Q
      <3>1. /\ i + 1 \in 1..m /\ (i + 1) - 1 = i /\ i + 1 \in 0..m
            /\ n + (i + 1) \in 1..n + m /\ (n + (i + 1)) - 1 = n + i
        BY <1>1
      <3>2. /\ h[n + (i + 1)] = IF u[n + (i + 1)] \in S THEN Append(h[n + i], u[n + (i + 1)]) ELSE h[n + i]
            /\ g[i + 1] = IF t[i + 1] \in S THEN Append(g[i], t[i + 1]) ELSE g[i]
        <4>1. \A j \in 1..n + m : h[j] = IF u[j] \in S THEN Append(h[j - 1], u[j]) ELSE h[j - 1]
          BY <1>4 DEF Loop, Apply
        <4>2. \A j \in 1..m : g[j] = IF t[j] \in S THEN Append(g[j - 1], t[j]) ELSE g[j - 1]
          BY <1>3 DEF Loop, Apply
        <4> QED BY <3>1, <4>1, <4>2
      <3>3. u[n + (i + 1)] = t[i + 1]
        BY <1>1, <3>1
      <3>4. h[n + i] = f[n] \o g[i] /\ IsSeq(g[i])
        BY <2>2
      <3>5. Append(f[n] \o g[i], t[i + 1]) = f[n] \o Append(g[i], t[i + 1]) /\ IsSeq(Append(g[i], t[i + 1]))
        <4> DEFINE x == t[i + 1]
        <4> HIDE DEF x
        <4>1. Append(g[i], x) = g[i] \o <<x>> /\ IsSeq(Append(g[i], x)) /\ IsSeq(<<x>>)
          BY <3>4, Appended, Single_
        <4>2. Append(f[n] \o g[i], x) = (f[n] \o g[i]) \o <<x>>
          BY <1>6, <3>4, Joined, Appended, ZenonT(60)
        <4>3. (f[n] \o g[i]) \o <<x>> = f[n] \o (g[i] \o <<x>>)
          <5> DEFINE a == f[n]
                     b == g[i]
                     c == <<x>>
          <5>1. IsSeq(a) /\ IsSeq(b) /\ IsSeq(c)
            BY <1>6, <3>4, <4>1
          <5> HIDE DEF a, b, c
          <5>2. (a \o b) \o c = a \o (b \o c)
            BY <5>1, Assoc
          <5> QED BY <5>2 DEF a, b, c
        <4> QED BY <4>1, <4>2, <4>3 DEF x
      <3>6. h[n + (i + 1)] = f[n] \o g[i + 1] /\ IsSeq(g[i + 1])
        BY <3>2, <3>3, <3>4, <3>5
      <3> QED BY <3>1, <3>6
    <2> HIDE DEF Q
    <2>3. \A i \in 0..m : i \in Q
      BY <1>1, <2>1, <2>2, Upward
    <2> QED BY <1>1, <2>3
  <1>8. h[n + m] = f[n] \o g[m]
    BY <1>7
  <1> QED BY <1>2, <1>3, <1>4, <1>8 DEF u

\* An element is kept or not.
LEMMA AmongOne ==
    ASSUME NEW x, NEW S
    PROVE  Among(<<x>>, S) = IF x \in S THEN <<x>> ELSE <<>>
  <1>1. DOMAIN <<x>> = 1..1 /\ <<x>>[1] = x /\ 1 \in 1..1 /\ 1 \in Nat
    OBVIOUS
  <1>2. PICK f : Loop("among", S, <<>>, <<x>>, 1, f) /\ Among(<<x>>, S) = f[1]
    BY <1>1, AmongLoop
  <1>3. f[0] = <<>> /\ f[1] = IF x \in S THEN Append(f[0], x) ELSE f[0]
    <2>1. f[0] = <<>> /\ \A i \in 1..1 : f[i] = IF <<x>>[i] \in S THEN Append(f[i - 1], <<x>>[i]) ELSE f[i - 1]
      BY <1>2 DEF Loop, Apply
    <2>2. 1 - 1 = 0
      OBVIOUS
    <2>3. f[1] = IF <<x>>[1] \in S THEN Append(f[1 - 1], <<x>>[1]) ELSE f[1 - 1]
      BY <1>1, <2>1, Zenon
    <2> QED BY <1>1, <2>1, <2>2, <2>3
  <1>4. Append(<<>>, x) = <<x>>
    <2>1. IsSeq(<<>>) /\ IsSeq(<<x>>)
      BY EmptyIsSeq, Single_
    <2> QED BY <2>1, Appended, ConcatEmpty
  <1> QED BY <1>2, <1>3, <1>4

LEMMA AmongNone ==
    ASSUME NEW s, IsSeq(s), NEW S, ToSet(s) \cap S = {}
    PROVE  Among(s, S) = <<>>
  <1>1. IsSeq(Among(s, S)) /\ ToSet(Among(s, S)) = {}
    BY AmongKeeps
  <1>2. Len(Among(s, S)) \in Nat /\ \A i \in 1..Len(Among(s, S)) : Among(s, S)[i] \in ToSet(Among(s, S))
    BY <1>1, SeqFacts
  <1>3. Len(Among(s, S)) = 0
    BY <1>1, <1>2
  <1> QED BY <1>1, <1>3, EmptySeq DEF IsSeq

Collecting == {"fees", "reward"}

LEMMA CollectionsJoined ==
    ASSUME NEW s, NEW t, IsSeq(s), IsSeq(t)
    PROVE  /\ Collections(s \o t) = Collections(s) \o Collections(t)
           /\ IsSeq(Collections(s)) /\ IsSeq(Collections(t))
  <1> DEFINE S(u) == {ix \in ToSet(u) : ix.op \in {"fees", "reward"}}
  <1>1. ToSet(s \o t) = ToSet(s) \cup ToSet(t)
    BY Joined
  <1>2. \A ix \in ToSet(s) : ix \in S(s \o t) <=> ix \in S(s)
    BY <1>1
  <1>3. \A ix \in ToSet(t) : ix \in S(s \o t) <=> ix \in S(t)
    BY <1>1
  <1>4. Collections(s \o t) = Among(s \o t, S(s \o t)) /\ Collections(s) = Among(s, S(s)) /\ Collections(t) = Among(t, S(t))
    BY DEF Collections
  <1> HIDE DEF S
  <1>5. Among(s, S(s \o t)) = Among(s, S(s))
    BY <1>2, AmongSame
  <1>6. Among(t, S(s \o t)) = Among(t, S(t))
    BY <1>3, AmongSame
  <1>7. Among(s \o t, S(s \o t)) = Among(s, S(s \o t)) \o Among(t, S(s \o t))
    BY AmongJoined
  <1>8. IsSeq(Among(s, S(s))) /\ IsSeq(Among(t, S(t)))
    BY AmongKeeps
  <1> QED BY <1>4, <1>5, <1>6, <1>7, <1>8

\* Two sequences that have the same elements at the same places.
LEMMA SameSeq ==
    ASSUME NEW s, NEW t, IsSeq(s), IsSeq(t), Len(s) = Len(t), \A i \in 1..Len(s) : s[i] = t[i]
    PROVE  s = t
  <1>1. s = [i \in 1..Len(s) |-> s[i]] /\ t = [i \in 1..Len(t) |-> t[i]]
    BY SeqIs
  <1> QED BY <1>1

\* What is done with each element.
Mapped(u) == [n \in DOMAIN u |-> TaskOf(u[n])]

LEMMA MappedJoined ==
    ASSUME NEW s, NEW t, IsSeq(s), IsSeq(t)
    PROVE  Mapped(s \o t) = Mapped(s) \o Mapped(t) /\ IsSeq(Mapped(s))
  <1> DEFINE M(u) == [n \in DOMAIN u |-> TaskOf(u[n])]
             n == Len(s)
             m == Len(t)
             w == s \o t
  <1>1. /\ n \in Nat /\ m \in Nat /\ DOMAIN s = 1..n /\ DOMAIN t = 1..m
        /\ IsSeq(w) /\ Len(w) = n + m
        /\ \A i \in 1..n : w[i] = s[i]
        /\ \A i \in 1..m : w[n + i] = t[i]
    BY SeqFacts, Joined
  <1> HIDE DEF w
  <1>2. DOMAIN w = 1..n + m
    BY <1>1, SeqFacts
  <1> HIDE DEF n, m
  <1>3. ASSUME NEW u, NEW k \in Nat, DOMAIN u = 1..k PROVE IsSeq(M(u)) /\ Len(M(u)) = k
    <2>1. M(u) = [i \in 1..k |-> M(u)[i]]
      BY <1>3
    <2> HIDE DEF M
    <2> QED BY <2>1, Listed
  <1>4. /\ IsSeq(M(s)) /\ Len(M(s)) = n /\ IsSeq(M(t)) /\ Len(M(t)) = m
        /\ IsSeq(M(w)) /\ Len(M(w)) = n + m
    <2>1. n + m \in Nat
      BY <1>1
    <2> HIDE DEF M
    <2> QED BY <1>1, <1>2, <1>3, <2>1
  <1>5. /\ \A i \in 1..n : M(s)[i] = TaskOf(s[i])
        /\ \A i \in 1..m : M(t)[i] = TaskOf(t[i])
        /\ \A i \in 1..n + m : M(w)[i] = TaskOf(w[i])
    BY <1>1, <1>2
  <1> DEFINE a == M(s)
             b == M(t)
             c == M(w)
  <1>6. /\ IsSeq(a) /\ Len(a) = n /\ IsSeq(b) /\ Len(b) = m /\ IsSeq(c) /\ Len(c) = n + m
        /\ \A i \in 1..n : a[i] = TaskOf(s[i])
        /\ \A i \in 1..m : b[i] = TaskOf(t[i])
        /\ \A i \in 1..n + m : c[i] = TaskOf(w[i])
    BY <1>4, <1>5
  <1> HIDE DEF a, b, c, M
  <1>7. /\ IsSeq(a \o b) /\ Len(a \o b) = n + m
        /\ \A i \in 1..n : (a \o b)[i] = a[i]
        /\ \A i \in 1..m : (a \o b)[n + i] = b[i]
    <2>1. /\ IsSeq(a \o b) /\ Len(a \o b) = Len(a) + Len(b)
          /\ \A i \in 1..Len(a) : (a \o b)[i] = a[i]
          /\ \A i \in 1..Len(b) : (a \o b)[Len(a) + i] = b[i]
      <3>1. IsSeq(a) /\ IsSeq(b)
        BY <1>6
      <3> QED BY <3>1, Joined
    <2> QED BY <1>6, <2>1
  <1>8. ASSUME NEW i \in 1..n + m PROVE c[i] = (a \o b)[i]
    <2>1. CASE i \in 1..n
      BY <1>1, <1>6, <1>7, <2>1
    <2>2. CASE i \notin 1..n
      <3>1. i - n \in 1..m /\ n + (i - n) = i
        BY <1>1, <2>2
      <3>2. (a \o b)[n + (i - n)] = b[i - n] /\ w[n + (i - n)] = t[i - n]
        BY <1>1, <1>7, <3>1
      <3>3. b[i - n] = TaskOf(t[i - n]) /\ c[i] = TaskOf(w[i])
        BY <1>6, <3>1
      <3> QED BY <3>1, <3>2, <3>3
    <2> QED BY <2>1, <2>2
  <1>9. c = a \o b
    BY <1>6, <1>7, <1>8, SameSeq
  <1> QED BY <1>6, <1>9 DEF Mapped, a, b, c, M, w

LEMMA TasksJoined ==
    ASSUME NEW s, NEW t, IsSeq(s), IsSeq(t)
    PROVE  TasksIn(s \o t) = TasksIn(s) \o TasksIn(t) /\ IsSeq(TasksIn(s))
  <1> DEFINE a == Collections(s)
             b == Collections(t)
  <1>1. Collections(s \o t) = a \o b /\ IsSeq(a) /\ IsSeq(b)
    BY CollectionsJoined
  <1>2. TasksIn(s) = Mapped(a) /\ TasksIn(t) = Mapped(b) /\ TasksIn(s \o t) = Mapped(a \o b)
    BY <1>1 DEF TasksIn, Mapped
  <1> HIDE DEF a, b
  <1> QED BY <1>1, <1>2, MappedJoined

LEMMA TasksNone ==
    ASSUME NEW s, IsSeq(s), \A ix \in ToSet(s) : ix.op \notin {"fees", "reward"}
    PROVE  TasksIn(s) = <<>>
  <1>1. Collections(s) = <<>>
    <2> DEFINE S == {ix \in ToSet(s) : ix.op \in {"fees", "reward"}}
    <2>1. S = {}
      OBVIOUS
    <2> HIDE DEF S
    <2>2. Among(s, S) = <<>>
      BY <2>1, AmongNone
    <2> QED BY <2>2 DEF Collections, S
  <1> QED BY <1>1 DEF TasksIn

LEMMA TasksOne ==
    ASSUME NEW ix, ix.op \in {"fees", "reward"}
    PROVE  TasksIn(<<ix>>) = <<TaskOf(ix)>>
  <1>1. Collections(<<ix>>) = <<ix>>
    <2> DEFINE S == {x \in ToSet(<<ix>>) : x.op \in {"fees", "reward"}}
    <2>1. ix \in S
      BY Single_
    <2> HIDE DEF S
    <2>2. Among(<<ix>>, S) = <<ix>>
      BY <2>1, AmongOne
    <2> QED BY <2>2 DEF Collections, S
  <1> QED BY <1>1 DEF TasksIn

\* What one task adds is that task.
LEMMA TaskOnce ==
    ASSUME NEW s, NEW knew, NEW p \in Positions, NEW i \in {0} \cup Rewards(p), NEW already,
           NEW touched, NEW k
    PROVE  TasksIn(constructCollectIxForPosition(s, knew, <<p, i>>, already, touched, k).body) = <<<<p, i>>>>
  <1> DEFINE body == constructCollectIxForPosition(s, knew, <<p, i>>, already, touched, k).body
             ix == CollectIx(<<p, i>>, k)
             upd == updateFeesAndRewardsIx(p)
  <1>1. Collects(body, p, knew, already, ix)
    BY TaskBody
  <1>2. /\ ix.pos = p /\ ix.op = IF i = 0 THEN "fees" ELSE "reward"
        /\ i # 0 => ix.index = i
    BY CollectIxIs
  <1>3. ix.op \in {"fees", "reward"} /\ TaskOf(ix) = <<p, i>>
    BY <1>2 DEF TaskOf
  <1>4. upd.op = "update"
    BY Instructions
  <1> HIDE DEF body, ix, upd
  <1>5. PICK u, c : (u = <<upd>> \/ u = <<>>) /\ EndsWith(c, ix) /\ body = u \o c
    BY <1>1 DEF Collects, upd
  <1>6. PICK d : IsSeq(d) /\ (\A x \in ToSet(d) : x.op = "create") /\ c = d \o <<ix>>
    BY <1>5 DEF EndsWith
  <1>7. IsSeq(u) /\ \A x \in ToSet(u) : x.op \notin {"fees", "reward"}
    BY <1>4, <1>5, EmptyIsSeq, Single_
  <1>8. IsSeq(<<ix>>) /\ IsSeq(c)
    BY <1>6, Single_, Joined
  <1>9. TasksIn(u) = <<>> /\ TasksIn(d) = <<>> /\ TasksIn(<<ix>>) = <<<<p, i>>>>
    BY <1>3, <1>6, <1>7, TasksNone, TasksOne
  <1>10. TasksIn(c) = TasksIn(d) \o TasksIn(<<ix>>) /\ TasksIn(body) = TasksIn(u) \o TasksIn(c)
    BY <1>5, <1>6, <1>7, <1>8, TasksJoined
  <1>11. \A x : <<>> \o <<x>> = <<x>>
    BY Single_, ConcatEmpty
  <1> QED BY <1>9, <1>10, <1>11 DEF body

LEMMA FlattenAppend ==
    ASSUME NEW seqs, NEW x, IsSeq(seqs), IsSeq(x), \A y \in ToSet(seqs) : IsSeq(y)
    PROVE  FlattenSeq(Append(seqs, x)) = FlattenSeq(seqs) \o x
  <1> DEFINE n == Len(seqs)
             w == Append(seqs, x)
  <1>1. /\ n \in Nat /\ IsSeq(w) /\ Len(w) = n + 1 /\ w[n + 1] = x
        /\ \A i \in 1..n : w[i] = seqs[i]
    <2>1. /\ IsSeq(w) /\ Len(w) = Len(seqs) + 1 /\ w[Len(seqs) + 1] = x
          /\ \A i \in 1..Len(seqs) : w[i] = seqs[i]
      BY Appended, ZenonT(60)
    <2> QED BY <2>1, SeqFacts
  <1> HIDE DEF w
  <1>2. PICK f : Joins(w, n + 1, f) /\ FlattenSeq(w) = f[n + 1]
    <2> HIDE DEF n
    <2>1. n + 1 \in Nat \ {0}
      BY <1>1
    <2> QED BY <1>1, <2>1, FlattenLoop
  <1>3. /\ f[1] = w[1]
        /\ \A i \in 2..n + 1 : f[i] = f[i - 1] \o w[i]
    <2> HIDE DEF n
    <2>1. n + 1 > 0
      BY <1>1
    <2> QED BY <1>2, <2>1 DEF Joins
  <1>4. CASE n = 0
    <2>1. seqs = <<>>
      BY <1>4, EmptySeq DEF IsSeq
    <2>2. FlattenSeq(seqs) = <<>>
      BY <1>4, <2>1 DEF FlattenSeq
    <2>3. f[n + 1] = x
      BY <1>1, <1>3, <1>4
    <2> QED BY <1>2, <2>2, <2>3, ConcatEmpty DEF w
  <1>5. CASE n # 0
    <2>1. n \in Nat \ {0}
      BY <1>1, <1>5
    <2> HIDE DEF n
    <2>2. PICK g : Joins(seqs, n, g) /\ FlattenSeq(seqs) = g[n]
      BY <2>1, FlattenLoop DEF n
    <2>3. g[1] = seqs[1] /\ \A i \in 2..n : g[i] = g[i - 1] \o seqs[i]
      <3>1. n > 0
        BY <2>1
      <3> QED BY <2>2, <3>1, Zenon DEF Joins
    <2> DEFINE Q == {m \in 0..n - 1 : f[m + 1] = g[m + 1]}
    <2>4. 0 \in Q
      <3>1. 0 \in 0..n - 1 /\ 1 \in 1..n /\ 0 + 1 = 1
        BY <2>1
      <3> QED BY <1>1, <1>3, <2>3, <3>1
    <2>5. ASSUME NEW m \in 0..n - 1 - 1, m \in Q PROVE m + 1 \in Q
      <3>1. /\ m + 2 \in 2..n /\ m + 2 \in 2..n + 1 /\ m + 2 \in 1..n
            /\ (m + 2) - 1 = m + 1 /\ m + 1 + 1 = m + 2 /\ m + 1 \in 0..n - 1
        BY <2>1
      <3>2. f[m + 2] = f[(m + 2) - 1] \o w[m + 2]
        BY <1>3, <3>1, Zenon
      <3>3. g[m + 2] = g[(m + 2) - 1] \o seqs[m + 2]
        BY <2>3, <3>1, Zenon
      <3>4. f[m + 1] = g[m + 1] /\ w[m + 2] = seqs[m + 2]
        BY <1>1, <2>5, <3>1
      <3>5. f[m + 2] = g[m + 2]
        BY <3>1, <3>2, <3>3, <3>4
      <3> QED BY <3>1, <3>5
    <2> HIDE DEF Q
    <2>6. n - 1 \in Q
      <3>1. \A i \in 0..n - 1 : i \in Q
        BY <2>1, <2>4, <2>5, Upward
      <3> QED BY <2>1, <3>1
    <2>7. f[n] = g[n]
      BY <2>1, <2>6 DEF Q
    <2>8. f[n + 1] = f[(n + 1) - 1] \o w[n + 1] /\ (n + 1) - 1 = n
      <3>1. n + 1 \in 2..n + 1 /\ (n + 1) - 1 = n
        BY <2>1
      <3> QED BY <1>3, <3>1, Zenon
    <2> QED BY <1>1, <1>2, <2>2, <2>7, <2>8 DEF w
  <1> QED BY <1>4, <1>5

LEMMA BodiesAppend ==
    ASSUME NEW txs, NEW tx, Transactions(txs), Balanced(tx)
    PROVE  Bodies(Append(txs, tx)) = Bodies(txs) \o tx.body /\ IsSeq(Bodies(txs))
  <1> DEFINE list(u) == [n \in DOMAIN u |-> u[n].body]
             n == Len(txs)
             w == Append(txs, tx)
  <1>1. IsSeq(txs) /\ IsSeq(tx.body) /\ \A t \in ToSet(txs) : IsSeq(t.body)
    BY DEF Transactions, Balanced
  <1>2. n \in Nat /\ DOMAIN txs = 1..n /\ \A i \in 1..n : txs[i] \in ToSet(txs)
    BY <1>1, SeqFacts
  <1>3. IsSeq(w) /\ Len(w) = n + 1 /\ w[n + 1] = tx /\ \A i \in 1..n : w[i] = txs[i]
    BY <1>1, Appended, ZenonT(60)
  <1> HIDE DEF w, n
  <1>4. DOMAIN w = 1..n + 1 /\ n + 1 \in Nat
    BY <1>2, <1>3, SeqFacts
  <1>5. ASSUME NEW u, NEW k \in Nat, DOMAIN u = 1..k PROVE IsSeq(list(u)) /\ Len(list(u)) = k
    <2>1. list(u) = [i \in 1..k |-> list(u)[i]]
      BY <1>5
    <2> HIDE DEF list
    <2> QED BY <2>1, Listed
  <1> DEFINE a == list(txs)
             c == list(w)
  <1>6. /\ IsSeq(a) /\ Len(a) = n /\ IsSeq(c) /\ Len(c) = n + 1
        /\ \A i \in 1..n : a[i] = txs[i].body
        /\ \A i \in 1..n + 1 : c[i] = w[i].body
    <2>1. (\A i \in 1..n : a[i] = txs[i].body) /\ \A i \in 1..n + 1 : c[i] = w[i].body
      BY <1>2, <1>4
    <2> HIDE DEF list
    <2>2. IsSeq(a) /\ Len(a) = n /\ IsSeq(c) /\ Len(c) = n + 1
      BY <1>2, <1>4, <1>5
    <2> QED BY <2>1, <2>2
  <1>7. \A y \in ToSet(a) : IsSeq(y)
    BY <1>1, <1>2 DEF ToSet
  <1> HIDE DEF a, c
  <1> DEFINE x == tx.body
             b == Append(a, x)
  <1>8. IsSeq(b) /\ Len(b) = n + 1 /\ b[n + 1] = x /\ \A i \in 1..n : b[i] = a[i]
    <2> HIDE DEF x
    <2>1. IsSeq(b) /\ Len(b) = Len(a) + 1 /\ b[Len(a) + 1] = x /\ \A i \in 1..Len(a) : b[i] = a[i]
      <3>1. IsSeq(a)
        BY <1>6
      <3> QED BY <3>1, Appended, ZenonT(60)
    <2> QED BY <1>6, <2>1
  <1> HIDE DEF b
  <1>9. ASSUME NEW i \in 1..n + 1 PROVE c[i] = b[i]
    <2>1. CASE i = n + 1
      BY <1>3, <1>6, <1>8, <2>1
    <2>2. CASE i # n + 1
      <3>1. i \in 1..n
        BY <1>2, <2>2
      <3> QED BY <1>3, <1>6, <1>8, <3>1
    <2> QED BY <2>1, <2>2
  <1>10. c = b
    BY <1>6, <1>8, <1>9, SameSeq
  <1>11. FlattenSeq(b) = FlattenSeq(a) \o x
    BY <1>1, <1>6, <1>7, FlattenAppend DEF b
  <1>12. IsSeq(FlattenSeq(a))
    BY <1>6, <1>7, FlattenIsSeq
  <1>13. Bodies(txs) = FlattenSeq(a) /\ Bodies(Append(txs, tx)) = FlattenSeq(c)
    BY DEF Bodies, a, c, w
  <1> QED BY <1>10, <1>11, <1>12, <1>13

\* The instructions put together so far.
InTurn(b) == Bodies(b.done) \o b.pending.body

LEMMA AddedInTurn ==
    ASSUME NEW b, NEW knew, Packing(b, knew), NEW s, NEW p \in Positions, NEW i \in {0} \cup Rewards(p)
    PROVE  /\ TasksIn(InTurn(Added(s, knew, b, <<p, i>>))) = TasksIn(InTurn(b)) \o <<<<p, i>>>>
           /\ Added(s, knew, b, <<p, i>>).thrown = b.thrown
  <1> DEFINE task == <<p, i>>
             part == constructCollectIxForPosition(s, knew, task, b.lastUpdatedPosition = p, b.touched, Len(b.done) + 1)
             tx == Attempt(s, knew, b, task)
  <1>1. tx.body = b.pending.body \o part.body
    BY MergeIs DEF Attempt
  <1>2. Balanced(part) /\ TasksIn(part.body) = <<task>>
    <2>1. Balanced(part)
      BY TaskBody
    <2>2. TasksIn(part.body) = <<task>>
      BY TaskOnce
    <2> QED BY <2>1, <2>2
  <1> HIDE DEF part, tx
  <1>3. Added(s, knew, b, task) =
           [b EXCEPT !.pending = tx, !.touched = @ \cup ToSet(MintsOf(task)), !.lastUpdatedPosition = p]
    BY DEF Added, tx
  <1>4. /\ Added(s, knew, b, task).done = b.done /\ Added(s, knew, b, task).pending = tx
        /\ Added(s, knew, b, task).thrown = b.thrown
    BY <1>3 DEF Packing
  <1> DEFINE d == Bodies(b.done)
             e == b.pending.body
             f == part.body
  <1>5. IsSeq(d) /\ IsSeq(e) /\ IsSeq(f)
    BY <1>2, BodiesAppend DEF Packing, Balanced
  <1>6. InTurn(Added(s, knew, b, task)) = d \o (e \o f) /\ InTurn(b) = d \o e
    BY <1>1, <1>4 DEF InTurn
  <1> HIDE DEF d, e
  <1>7. d \o (e \o f) = (d \o e) \o f /\ IsSeq(d \o e)
    <2> HIDE DEF f
    <2> QED BY <1>5, Assoc, Joined
  <1>8. TasksIn((d \o e) \o f) = TasksIn(d \o e) \o TasksIn(f)
    <2> HIDE DEF f
    <2> QED BY <1>5, <1>7, TasksJoined
  <1> QED BY <1>2, <1>4, <1>6, <1>7, <1>8

LEMMA StartNextInTurn ==
    ASSUME NEW b, NEW knew, Packing(b, knew)
    PROVE  InTurn(StartNext(b)) = InTurn(b) /\ StartNext(b).thrown = FALSE
  <1>1. StartNext(b).done = Append(b.done, b.pending) /\ StartNext(b).pending = EmptyTx /\ StartNext(b).thrown = FALSE
    BY DEF StartNext, NoTx
  <1>2. EmptyTx.body = <<>>
    BY DEF EmptyTx
  <1>3. Bodies(Append(b.done, b.pending)) = Bodies(b.done) \o b.pending.body /\ IsSeq(Bodies(b.done))
    BY BodiesAppend DEF Packing
  <1>4. IsSeq(Bodies(b.done) \o b.pending.body)
    BY <1>3, Joined DEF Packing, Balanced
  <1>5. (Bodies(b.done) \o b.pending.body) \o <<>> = Bodies(b.done) \o b.pending.body
    BY <1>4, ConcatEmpty
  <1> QED BY <1>1, <1>2, <1>3, <1>5 DEF InTurn

LEMMA PackInTurn ==
    ASSUME NEW b, NEW knew, Packing(b, knew), NEW s, NEW p \in Positions, NEW i \in {0} \cup Rewards(p),
           ~Pack(s, knew, b, <<p, i>>).thrown
    PROVE  /\ ~b.thrown
           /\ TasksIn(InTurn(Pack(s, knew, b, <<p, i>>))) = TasksIn(InTurn(b)) \o <<<<p, i>>>>
  <1> DEFINE task == <<p, i>>
  <1>1. \/ Pack(s, knew, b, task) = Added(s, knew, b, task)
        \/ Pack(s, knew, b, task) = Added(s, knew, StartNext(b), task)
    <2>1. [b EXCEPT !.thrown = TRUE].thrown = TRUE
      BY DEF Packing
    <2> QED BY <2>1 DEF Pack
  <1>2. ~b.thrown
    BY DEF Pack
  <1>3. TasksIn(InTurn(Added(s, knew, b, task))) = TasksIn(InTurn(b)) \o <<task>>
    BY AddedInTurn
  <1>4. Packing(StartNext(b), knew)
    BY StartNextKeeps
  <1>5. TasksIn(InTurn(Added(s, knew, StartNext(b), task))) = TasksIn(InTurn(b)) \o <<task>>
    <2> DEFINE c == StartNext(b)
    <2>1. Packing(c, knew) /\ InTurn(c) = InTurn(b)
      BY <1>4, StartNextInTurn
    <2> HIDE DEF c
    <2>2. TasksIn(InTurn(Added(s, knew, c, task))) = TasksIn(InTurn(c)) \o <<task>>
      BY <2>1, AddedInTurn, ZenonT(60)
    <2> QED BY <2>1, <2>2 DEF c
  <1> QED BY <1>1, <1>2, <1>3, <1>5

LEMMA AllInTurn ==
    ASSUME NEW s, NEW knew, ~collectAllForPositionsTxns(s, knew).thrown
    PROVE  collectionTasks(knew) = TasksIn(Bodies(collectAllForPositionsTxns(s, knew).txs))
  <1> DEFINE tasks == collectionTasks(knew)
             n == Len(tasks)
             all == PackAll(s, knew, tasks)
             txs == collectAllForPositionsTxns(s, knew).txs
  <1>1. /\ n \in Nat /\ DOMAIN tasks = 1..n /\ \A i \in 1..n : tasks[i] \in ToSet(tasks)
        /\ IsSeq(tasks)
    BY TasksAre, SeqFacts
  <1>2. \A task \in ToSet(tasks) : \E p \in Positions : \E i \in {0} \cup Rewards(p) : task = <<p, i>>
    BY TasksAre
  <1>0. ~all.thrown /\ txs = IF tasks = <<>> THEN <<>> ELSE Append(all.done, all.pending)
    BY DEF collectAllForPositionsTxns
  <1> HIDE DEF tasks, n, txs
  <1>3. PICK acc : Loop("pack", <<s, knew>>, NoTx, tasks, n, acc) /\ all = acc[n]
    BY <1>1, PackLoop
  <1> HIDE DEF all
  <1> DEFINE Prefix(i) == [j \in 1..i |-> tasks[j]]
             Q == {i \in 0..n : /\ Packing(acc[i], knew)
                                /\ ~acc[i].thrown => TasksIn(InTurn(acc[i])) = Prefix(i)}
  <1>4. 0 \in Q
    <2>1. acc[0] = NoTx /\ 0 \in 0..n
      BY <1>1, <1>3 DEF Loop
    <2>2. Packing(NoTx, knew)
      <3>1. Transactions(<<>>) /\ ToSet(<<>>) = {}
        BY EmptyIsSeq DEF Transactions
      <3> QED BY <3>1, EmptyBalanced, EmptyCurrent DEF Packing, NoTx
    <2>3. TasksIn(InTurn(NoTx)) = Prefix(0)
      <3>1. Bodies(<<>>) = <<>>
        <4>1. [m \in DOMAIN <<>> |-> <<>>[m].body] = <<>>
          OBVIOUS
        <4>2. FlattenSeq(<<>>) = <<>>
          BY EmptyIsSeq DEF FlattenSeq
        <4> QED BY <4>1, <4>2 DEF Bodies
      <3>2. InTurn(NoTx) = <<>>
        BY <3>1, EmptyIsSeq, ConcatEmpty DEF InTurn, NoTx, EmptyTx
      <3>3. TasksIn(<<>>) = <<>>
        BY EmptyIsSeq, TasksNone
      <3>4. Prefix(0) = <<>>
        <4>1. 1..0 = {}
          OBVIOUS
        <4> QED BY <4>1
      <3> QED BY <3>2, <3>3, <3>4
    <2> QED BY <2>1, <2>2, <2>3
  <1>5. ASSUME NEW i \in 0..n - 1, i \in Q PROVE i + 1 \in Q
    <2>1. i + 1 \in 1..n /\ (i + 1) - 1 = i /\ i + 1 \in 0..n /\ i \in Nat
      BY <1>1
    <2>2. acc[i + 1] = Pack(s, knew, acc[i], tasks[i + 1])
      BY <1>3, <2>1 DEF Loop, Apply
    <2>3. PICK p \in Positions : \E j \in {0} \cup Rewards(p) : tasks[i + 1] = <<p, j>>
      BY <1>1, <1>2, <2>1
    <2>4. PICK j \in {0} \cup Rewards(p) : tasks[i + 1] = <<p, j>>
      BY <2>3
    <2>5. Packing(acc[i], knew) /\ (~acc[i].thrown => TasksIn(InTurn(acc[i])) = Prefix(i))
      BY <1>5
    <2>6. Packing(acc[i + 1], knew)
      BY <2>2, <2>4, <2>5, PackKeeps
    <2>7. ASSUME ~acc[i + 1].thrown PROVE TasksIn(InTurn(acc[i + 1])) = Prefix(i + 1)
      <3>1. ~acc[i].thrown /\ TasksIn(InTurn(acc[i + 1])) = TasksIn(InTurn(acc[i])) \o <<tasks[i + 1]>>
        <4>1. ~Pack(s, knew, acc[i], <<p, j>>).thrown
          BY <2>2, <2>4, <2>7
        <4>2. ~acc[i].thrown /\ TasksIn(InTurn(Pack(s, knew, acc[i], <<p, j>>))) = TasksIn(InTurn(acc[i])) \o <<<<p, j>>>>
          <5> DEFINE b == acc[i]
          <5>1. Packing(b, knew) /\ ~Pack(s, knew, b, <<p, j>>).thrown
            BY <2>5, <4>1
          <5> HIDE DEF b
          <5>2. ~b.thrown /\ TasksIn(InTurn(Pack(s, knew, b, <<p, j>>))) = TasksIn(InTurn(b)) \o <<<<p, j>>>>
            BY <5>1, PackInTurn
          <5> QED BY <5>2 DEF b
        <4> QED BY <2>2, <2>4, <4>2
      <3>2. TasksIn(InTurn(acc[i + 1])) = Prefix(i) \o <<tasks[i + 1]>>
        BY <2>5, <3>1
      <3>3. Prefix(i) \o <<tasks[i + 1]>> = Prefix(i + 1)
        <4> DEFINE a == Prefix(i)
                   c == Prefix(i + 1)
                   x == tasks[i + 1]
        <4>1. a = [k \in 1..i |-> a[k]] /\ c = [k \in 1..i + 1 |-> c[k]]
          OBVIOUS
        <4>2. (\A k \in 1..i : a[k] = c[k]) /\ c[i + 1] = x
          BY <2>1
        <4> HIDE DEF a, c, x
        <4>3. IsSeq(a) /\ Len(a) = i /\ IsSeq(c) /\ Len(c) = i + 1
          <5>1. i + 1 \in Nat
            BY <2>1
          <5> QED BY <2>1, <4>1, <5>1, Listed
        <4>4. Append(a, x) = a \o <<x>>
          BY <4>3, Appended
        <4>5. /\ IsSeq(Append(a, x)) /\ Len(Append(a, x)) = i + 1
              /\ Append(a, x)[i + 1] = x /\ \A k \in 1..i : Append(a, x)[k] = a[k]
          <5>1. /\ IsSeq(Append(a, x)) /\ Len(Append(a, x)) = Len(a) + 1
                /\ Append(a, x)[Len(a) + 1] = x /\ \A k \in 1..Len(a) : Append(a, x)[k] = a[k]
            BY <4>3, Appended, ZenonT(60)
          <5> QED BY <4>3, <5>1
        <4>6. ASSUME NEW k \in 1..i + 1 PROVE Append(a, x)[k] = c[k]
          <5>1. CASE k = i + 1
            BY <4>2, <4>5, <5>1
          <5>2. CASE k # i + 1
            <6>1. k \in 1..i
              BY <2>1, <5>2
            <6> QED BY <4>2, <4>5, <6>1
          <5> QED BY <5>1, <5>2
        <4>7. Append(a, x) = c
          BY <4>3, <4>5, <4>6, SameSeq
        <4> QED BY <4>4, <4>7 DEF a, c, x
      <3> QED BY <3>2, <3>3
    <2> QED BY <2>1, <2>6, <2>7
  <1>6. n \in Q
    <2> HIDE DEF Q
    <2>1. \A i \in 0..n : i \in Q
      BY <1>1, <1>4, <1>5, Upward
    <2> QED BY <1>1, <2>1
  <1>7. Packing(all, knew) /\ TasksIn(InTurn(all)) = Prefix(n)
    BY <1>0, <1>3, <1>6
  <1>8. Prefix(n) = tasks
    BY <1>1, SeqIs DEF n
  <1>9. CASE tasks # <<>>
    <2>1. Bodies(txs) = InTurn(all)
      BY <1>0, <1>7, <1>9, BodiesAppend DEF InTurn, Packing
    <2> QED BY <1>7, <1>8, <2>1 DEF tasks, txs
  <1>10. CASE tasks = <<>>
    <2>1. [m \in DOMAIN <<>> |-> <<>>[m].body] = <<>>
      OBVIOUS
    <2>2. FlattenSeq(<<>>) = <<>>
      BY EmptyIsSeq DEF FlattenSeq
    <2>3. Bodies(txs) = <<>>
      BY <1>0, <1>10, <2>1, <2>2 DEF Bodies
    <2>4. TasksIn(<<>>) = <<>>
      BY EmptyIsSeq, TasksNone
    <2> QED BY <1>10, <2>3, <2>4 DEF tasks, txs
  <1> QED BY <1>9, <1>10

\* EveryTaskOnce, of one step.
TasksOnce ==
    \A r \in DOMAIN requests' \ DOMAIN requests :
        requests'[r].kind = "all" /\ ~requests'[r].threw =>
            collectionTasks(cached) = TasksIn(Bodies(queues'[r]))

LEMMA ReturnTasks ==
    ASSUME Sound, NEW request, NEW threw, NEW txs, Return(request, threw, txs),
           DOMAIN request = RequestFields,
           request.kind = "all" /\ ~threw => collectionTasks(cached) = TasksIn(Bodies(txs))
    PROVE  TasksOnce
  <1> DEFINE q == [request EXCEPT !.threw = threw]
             w == IF threw THEN <<>> ELSE txs
             n == Len(queues)
  <1>1. requests' = Append(requests, q) /\ queues' = Append(queues, w)
    BY DEF Return
  <1>2. q.kind = request.kind /\ q.threw = threw /\ (~threw => w = txs)
    BY DEF RequestFields
  <1> HIDE DEF q, w
  <1>3. IsSeq(requests) /\ IsSeq(queues) /\ Len(requests) = n /\ n \in Nat /\ DOMAIN requests = 1..n
    BY SeqFacts DEF Sound
  <1>4. IsSeq(requests') /\ Len(requests') = n + 1 /\ requests'[n + 1] = q
    <2>1. LET t == Append(requests, q)
          IN  IsSeq(t) /\ Len(t) = Len(requests) + 1 /\ t[Len(requests) + 1] = q
      BY <1>3, Appended
    <2> QED BY <1>1, <1>3, <2>1
  <1>5. queues'[n + 1] = w
    <2>1. Append(queues, w)[Len(queues) + 1] = w
      BY <1>3, Appended
    <2> QED BY <1>1, <2>1
  <1> HIDE DEF n
  <1>6. DOMAIN requests' = 1..n + 1
    BY <1>4, SeqFacts
  <1>7. \A r \in DOMAIN requests' \ DOMAIN requests : r = n + 1
    BY <1>3, <1>6
  <1> QED BY <1>2, <1>4, <1>5, <1>7 DEF TasksOnce

LEMMA StepTasks == ASSUME Sound, Next PROVE TasksOnce
  <1>1. ASSUME DOMAIN requests' = DOMAIN requests PROVE TasksOnce
    BY <1>1 DEF TasksOnce
  <1>2. ASSUME NEW request, NEW threw, NEW txs, Return(request, threw, txs),
               DOMAIN request = RequestFields, request.kind # "all"
        PROVE  TasksOnce
    BY <1>2, ReturnTasks
  <1>3. ASSUME NEW p, openPosition(p) \/ closePosition(p) PROVE TasksOnce
    <2>1. CASE openPosition(p)
      <3> DEFINE txs == <<OpenTx(chain, p)>>
      <3>1. Return(Request("open", p), FALSE, txs)
        BY <2>1 DEF openPosition
      <3> HIDE DEF txs
      <3> QED BY <1>2, <3>1, RequestIs
    <2>2. CASE closePosition(p)
      <3> DEFINE f == getClosePositionIx(chain, p)
      <3>1. Return(Request("close", p), f.thrown, build(f))
        BY <2>2 DEF closePosition
      <3> HIDE DEF f
      <3> QED BY <1>2, <3>1, RequestIs
    <2> QED BY <1>3, <2>1, <2>2
  <1>4. ASSUME NEW p, NEW x, increaseLiquidity(p, x) \/ decreaseLiquidity(p, x) PROVE TasksOnce
    <2>1. ASSUME NEW kind, kind # "all", NEW txs,
                 Return([Request(kind, p) EXCEPT !.resolved = x], FALSE, txs)
          PROVE  TasksOnce
      <3> DEFINE request == [Request(kind, p) EXCEPT !.resolved = x]
      <3>1. DOMAIN request = RequestFields /\ request.kind # "all" /\ Return(request, FALSE, txs)
        BY <2>1, RequestIs
      <3> HIDE DEF request
      <3> QED BY <1>2, <3>1
    <2>2. CASE increaseLiquidity(p, x)
      <3> DEFINE txs == <<IncreaseTx(chain, p, x)>>
      <3>1. Return([Request("increase", p) EXCEPT !.resolved = x], FALSE, txs)
        BY <2>2 DEF increaseLiquidity
      <3> HIDE DEF txs
      <3> QED BY <2>1, <3>1
    <2>3. CASE decreaseLiquidity(p, x)
      <3> DEFINE txs == <<DecreaseTx(chain, p, 1, x)>>
      <3>1. Return([Request("decrease", p) EXCEPT !.resolved = x], FALSE, txs)
        BY <2>3 DEF decreaseLiquidity
      <3> HIDE DEF txs
      <3> QED BY <2>1, <3>1
    <2> QED BY <1>4, <2>2, <2>3
  <1>5. ASSUME NEW p, NEW map, collectFees(p, map) PROVE TasksOnce
    <2> DEFINE request == [Request("fees", p) EXCEPT !.resolved = map = None]
    <2>1. Return(request, CollectFeesThrows(p, map), <<CollectFeesTx(chain, cached, p, map)>>)
      BY <1>5 DEF collectFees
    <2>2. DOMAIN request = RequestFields /\ request.kind = "fees"
      BY RequestIs
    <2> HIDE DEF request
    <2> QED BY <1>2, <2>1, <2>2
  <1>6. ASSUME NEW p, NEW asked, NEW map, collectRewards(p, asked, map) PROVE TasksOnce
    <2> DEFINE f == CollectRewardsFactory(chain, cached, p, asked, map)
               request == [Request("rewards", p) EXCEPT !.resolved = map = None]
    <2>1. Return(request, f.thrown, build(f))
      BY <1>6 DEF collectRewards
    <2>2. DOMAIN request = RequestFields /\ request.kind = "rewards"
      BY RequestIs
    <2> HIDE DEF f, request
    <2> QED BY <1>2, <2>1, <2>2
  <1>7. CASE collectAll
    <2> DEFINE all == collectAllForPositionsTxns(chain, cached)
    <2>1. Return(Request("all", None), all.thrown, all.txs)
      BY <1>7 DEF collectAll
    <2>2. ~all.thrown => collectionTasks(cached) = TasksIn(Bodies(all.txs))
      BY AllInTurn
    <2> HIDE DEF all
    <2> QED BY <2>1, <2>2, ReturnTasks, RequestIs
  <1>8. ASSUME NEW r, NEW n, Submit(r, n) \/ Lose(r, n) PROVE TasksOnce
    <2>1. requests' = requests \/ requests' = [requests EXCEPT ![r].failed = TRUE]
      BY <1>8 DEF Submit, Lose
    <2>2. DOMAIN [requests EXCEPT ![r].failed = TRUE] = DOMAIN requests
      OBVIOUS
    <2> QED BY <1>1, <2>1, <2>2
  <1>9. ASSUME NEW p, refreshData(p) PROVE TasksOnce
    BY <1>1, <1>9 DEF refreshData
  <1>10. ASSUME NEW next, Others(next) PROVE TasksOnce
    BY <1>1, <1>10 DEF Others
  <1>11. ASSUME Trade \/ Emission \/ (\E p : Withdraw(p)) \/ \E mint : OpenAccount(mint) PROVE TasksOnce
    BY <1>10, <1>11 DEF Trade, Emission, Withdraw, OpenAccount
  <1> QED BY <1>3, <1>4, <1>5, <1>6, <1>7, <1>8, <1>9, <1>11, Zenon DEF Next

\* What collectAll returns does every task exactly once and in their order, for
\* any number of positions and rewards and any room in a transaction: none is
\* left out or done again where one transaction is full and the next begins
\* (collect-all-txn.ts, the loop over collectionTasks).
THEOREM TasksDone == Spec => EveryTaskOnce
  <1>1. Sound /\ [Next]_vars => [TasksOnce]_vars
    BY StepTasks
  <1>2. EveryTaskOnce <=> [][TasksOnce]_vars
    BY DEF EveryTaskOnce, TasksOnce
  <1> QED BY <1>1, <1>2, WalletsSound, PTL DEF Spec

=============================================================================
