---------------------------- MODULE SwapQuoteProofs ----------------------------
(***************************************************************************)
(* A quote and the swap made from it, in lockstep: on a real pool every    *)
(* iteration of the program repeats one of the quote, in arrays the quote  *)
(* named, unless an exact amount of b is the input.                        *)
(***************************************************************************)
EXTENDS SwapQuote, OperatorProofs, FiniteSetTheorems

-----------------------------------------------------------------------------
(* Bounded sets of integers, and parts of sequences. *)

LEMMA EndsOfInts ==
    ASSUME NEW S, NEW lo \in Int, NEW hi \in Int, S \subseteq lo..hi, S # {}
    PROVE  /\ Min(S) \in S /\ \A x \in S : Min(S) <= x
           /\ Max(S) \in S /\ \A x \in S : x <= Max(S)
  <1> DEFINE U == {x - lo : x \in S}
             D == {hi - x : x \in S}
  <1>0. \A x \in S : x \in Int /\ lo <= x /\ x <= hi
    OBVIOUS
  <1>1. U \subseteq Nat /\ U # {} /\ D \subseteq Nat /\ D # {}
    <2>1. \A x \in S : x - lo \in Nat /\ hi - x \in Nat
      BY <1>0
    <2> QED BY <2>1
  <1>2. PICK u \in U : \A v \in U : u <= v
    <2> HIDE DEF U
    <2> QED BY <1>1, LeastOne
  <1>3. PICK d \in D : \A v \in D : d <= v
    <2> HIDE DEF D
    <2> QED BY <1>1, LeastOne
  <1>4. PICK m \in S : u = m - lo
    OBVIOUS
  <1>5. PICK n \in S : d = hi - n
    OBVIOUS
  <1>6. \A x \in S : m <= x
    <2> TAKE x \in S
    <2>1. x - lo \in U
      OBVIOUS
    <2>2. u <= x - lo
      <3> HIDE DEF U
      <3> QED BY <1>2, <2>1
    <2> QED BY <1>0, <1>4, <2>2
  <1>7. \A x \in S : x <= n
    <2> TAKE x \in S
    <2>1. hi - x \in D
      OBVIOUS
    <2>2. d <= hi - x
      <3> HIDE DEF D
      <3> QED BY <1>3, <2>1
    <2> QED BY <1>0, <1>5, <2>2
  <1>8. \E x \in S : \A y \in S : x <= y
    BY <1>6
  <1>9. \E x \in S : \A y \in S : x >= y
    BY <1>0, <1>7
  <1>10. Min(S) \in S /\ \A y \in S : Min(S) <= y
    BY <1>8 DEF Min
  <1>11. Max(S) \in S /\ \A y \in S : Max(S) >= y
    BY <1>9 DEF Max
  <1> QED BY <1>0, <1>10, <1>11

LEMMA LeadingPart ==
    ASSUME NEW A, NEW s \in Seq(A), NEW set
    PROVE  \E n \in 0..Len(s) : /\ Leading(s, set) = SubSeq(s, 1, n)
                                /\ \A i \in 1..n : s[i] \in set
  <1> DEFINE N == {n \in 0..Len(s) : \A i \in 1..n : s[i] \in set}
  <1>1. Len(s) \in Nat
    BY LenProperties
  <1>2. 0 \in N /\ N \subseteq 0..Len(s)
    BY <1>1
  <1> HIDE DEF N
  <1>3. Max(N) \in N
    <2>1. 0 \in Int /\ Len(s) \in Int /\ N # {}
      BY <1>1, <1>2
    <2> QED BY <1>2, <2>1, EndsOfInts
  <1>4. Leading(s, set) = SubSeq(s, 1, Max(N))
    BY DEF Leading, N
  <1> QED BY <1>3, <1>4 DEF N

LEMMA SelectedPart ==
    ASSUME NEW s, NEW n \in Nat
    PROVE  Selected(s, 1..n) = [k \in 1..n |-> s[k]]
  <1>1. Cardinality(1..n) = n
    BY FS_Interval
  <1>2. \A i \in 1..n : Cardinality({j \in 1..n : j < i}) = i - 1
    <2> TAKE i \in 1..n
    <2>1. {j \in 1..n : j < i} = 1..i - 1
      OBVIOUS
    <2>2. i - 1 \in Int /\ i >= 1
      OBVIOUS
    <2>3. Cardinality(1..i - 1) = i - 1
      <3> DEFINE h == i - 1
      <3>1. h \in Int /\ h >= 0
        BY <2>2
      <3> HIDE DEF h
      <3>2. Cardinality(1..h) = IF 1 > h THEN 0 ELSE h - 1 + 1
        BY <3>1, FS_Interval
      <3>3. Cardinality(1..h) = h
        BY <3>1, <3>2
      <3> QED BY <3>3 DEF h
    <2> QED BY <2>1, <2>3
  <1>3. \A k \in 1..n : (CHOOSE i \in 1..n : Cardinality({j \in 1..n : j < i}) = k - 1) = k
    <2> TAKE k \in 1..n
    <2>1. \A i \in 1..n : Cardinality({j \in 1..n : j < i}) = k - 1 => i = k
      BY <1>2
    <2>2. Cardinality({j \in 1..n : j < k}) = k - 1
      BY <1>2
    <2> DEFINE P(i) == Cardinality({j \in 1..n : j < i}) = k - 1
    <2>3. P(k) /\ \A i \in 1..n : P(i) => i = k
      BY <2>1, <2>2
    <2> HIDE DEF P
    <2>4. (CHOOSE i \in 1..n : P(i)) = k
      BY <2>3
    <2> QED BY <2>4 DEF P
  <1> DEFINE C(k) == CHOOSE i \in 1..n : Cardinality({j \in 1..n : j < i}) = k - 1
  <1>4. Selected(s, 1..n) = [k \in 1..n |-> s[C(k)]]
    BY <1>1 DEF Selected
  <1>5. \A k \in 1..n : C(k) = k
    BY <1>3
  <1> HIDE DEF C
  <1> QED BY <1>4, <1>5

-----------------------------------------------------------------------------
(* Arrays in the order of a swap, one next to the other. *)

InOrder(S, left) ==
    /\ S \in Seq(Starts)
    /\ \E q \in Int : \A i \in 1..Len(S) : S[i] = K * (IF left THEN q - i ELSE q + i)

Holds(start, t) == start <= t /\ t < start + K

LEMMA OrderedArrays ==
    ASSUME NEW S, NEW left \in BOOLEAN, InOrder(S, left)
    PROVE  /\ S \in Seq(Starts) /\ Len(S) \in Nat
           /\ \A i \in 1..Len(S) : S[i] \in Starts /\ S[i] \in Int /\ OnGrid(S[i])
           /\ \A i, j \in 1..Len(S) : i < j => IF left THEN S[j] + K <= S[i] ELSE S[i] + K <= S[j]
           /\ \A i \in 1..Len(S) - 1 : S[i + 1] = IF left THEN S[i] - K ELSE S[i] + K
  <1>1. PICK q \in Int : \A i \in 1..Len(S) : S[i] = K * (IF left THEN q - i ELSE q + i)
    BY DEF InOrder
  <1>2. S \in Seq(Starts) /\ Len(S) \in Nat /\ \A i \in 1..Len(S) : S[i] \in Starts
    BY LenProperties, ElementOfSeq DEF InOrder
  <1>3. \A i \in 1..Len(S) : S[i] \in Int /\ OnGrid(S[i])
    BY <1>2, StartOnGrid
  <1>4. K \in Nat \ {0}
    BY SizeOfArray
  <1>5. \A x, y \in Int : /\ x < y => K * x + K <= K * y
                          /\ K * (x - 1) = K * x - K /\ K * (x + 1) = K * x + K
    <2> TAKE x, y \in Int
    <2>1. K * (x + 1) = K * x + K /\ K * (x - 1) = K * x - K
      BY <1>4
    <2>2. x < y => K * (x + 1) <= K * y
      BY <1>4, Monotone
    <2> QED BY <2>1, <2>2
  <1>6. ASSUME NEW i \in 1..Len(S), NEW j \in 1..Len(S), i < j
        PROVE  IF left THEN S[j] + K <= S[i] ELSE S[i] + K <= S[j]
    <2>1. i \in Int /\ j \in Int
      OBVIOUS
    <2>2. S[i] = K * (IF left THEN q - i ELSE q + i) /\ S[j] = K * (IF left THEN q - j ELSE q + j)
      BY <1>1
    <2>3. CASE left
      <3>1. q - j \in Int /\ q - i \in Int /\ q - j < q - i
        BY <1>6, <2>1
      <3> QED BY <1>5, <2>2, <2>3, <3>1
    <2>4. CASE ~left
      <3>1. q + j \in Int /\ q + i \in Int /\ q + i < q + j
        BY <1>6, <2>1
      <3> QED BY <1>5, <2>2, <2>4, <3>1
    <2> QED BY <2>3, <2>4
  <1>7. ASSUME NEW i \in 1..Len(S) - 1
        PROVE  S[i + 1] = IF left THEN S[i] - K ELSE S[i] + K
    <2>1. i \in 1..Len(S) /\ i + 1 \in 1..Len(S) /\ i \in Int
      BY <1>2
    <2>2. /\ S[i] = K * (IF left THEN q - i ELSE q + i)
          /\ S[i + 1] = K * (IF left THEN q - (i + 1) ELSE q + (i + 1))
      BY <1>1, <2>1
    <2>3. CASE left
      <3>1. q - (i + 1) = (q - i) - 1 /\ q - i \in Int
        BY <2>1
      <3> QED BY <1>5, <2>2, <2>3, <3>1
    <2>4. CASE ~left
      <3>1. q + (i + 1) = (q + i) + 1 /\ q + i \in Int
        BY <2>1
      <3> QED BY <1>5, <2>2, <2>4, <3>1
    <2> QED BY <2>3, <2>4
  <1> QED BY <1>2, <1>3, <1>6, <1>7

LEMMA ArrayOfTick ==
    ASSUME NEW t \in Int
    PROVE  /\ ArrayOf(t) \in Int /\ Holds(ArrayOf(t), t)
           /\ ArrayOf(t) = K * (t \div K) /\ t \div K \in Int
           /\ \A x \in Int : Holds(K * x, t) => x = t \div K
  <1>1. K \in Nat \ {0} /\ TicksPerArray = K
    BY SizeOfArray DEF TicksPerArray, K
  <1> DEFINE q == t \div K
             r == t % K
  <1>2. q \in Int /\ r \in 0..K - 1 /\ t = K * q + r
    BY <1>1, DivMod
  <1>3. ArrayOf(t) = q * K
    BY <1>1 DEF ArrayOf
  <1> HIDE DEF q, r
  <1>4. q * K = K * q /\ K * q \in Int
    BY <1>1, <1>2
  <1>5. r \in Int /\ 0 <= r /\ r < K
    BY <1>1, <1>2
  <1>6. Holds(K * q, t)
    BY <1>1, <1>2, <1>4, <1>5 DEF Holds
  <1>7. ASSUME NEW x \in Int, Holds(K * x, t) PROVE x = q
    <2>1. K * (q + 1) = K * q + K /\ K * (x + 1) = K * x + K /\ K * x \in Int
      BY <1>1, <1>2
    <2>2. K * x < K * (q + 1) /\ K * q < K * (x + 1)
      BY <1>1, <1>4, <1>6, <1>7, <2>1 DEF Holds
    <2>3. x < q + 1 /\ q < x + 1
      BY <1>1, <1>2, <2>2, Monotone
    <2> QED BY <1>2, <2>3
  <1> QED BY <1>2, <1>3, <1>4, <1>6, <1>7 DEF q

\* A tick is in the sequence if one of its arrays holds it.
LEMMA InSequenceHolds ==
    ASSUME NEW S, NEW left \in BOOLEAN, InOrder(S, left), NEW t \in Int
    PROVE  /\ InSequence(S, t) <=> \E i \in 1..Len(S) : Holds(S[i], t)
           /\ \A i \in 1..Len(S) : Holds(S[i], t) => ArrayOf(t) = S[i]
  <1>1. PICK q \in Int : \A i \in 1..Len(S) : S[i] = K * (IF left THEN q - i ELSE q + i)
    BY DEF InOrder
  <1>2. S \in Seq(Starts) /\ Len(S) \in Nat
    BY OrderedArrays
  <1>3. ASSUME NEW i \in 1..Len(S), Holds(S[i], t) PROVE ArrayOf(t) = S[i]
    <2> DEFINE x == IF left THEN q - i ELSE q + i
    <2>1. x \in Int /\ S[i] = K * x
      BY <1>1
    <2> HIDE DEF x
    <2>2. x = t \div K
      BY <1>3, <2>1, ArrayOfTick
    <2> QED BY <2>1, <2>2, ArrayOfTick
  <1>4. Range(S) = {S[i] : i \in 1..Len(S)}
    BY <1>2, LenProperties DEF Range
  <1>5. ASSUME InSequence(S, t) PROVE \E i \in 1..Len(S) : Holds(S[i], t)
    <2>1. ArrayOf(t) \in Range(S)
      BY <1>5 DEF InSequence
    <2>2. PICK i \in 1..Len(S) : ArrayOf(t) = S[i]
      BY <1>4, <2>1
    <2> QED BY <2>2, ArrayOfTick
  <1>6. ASSUME NEW i \in 1..Len(S), Holds(S[i], t) PROVE InSequence(S, t)
    BY <1>3, <1>4, <1>6 DEF InSequence
  <1> QED BY <1>3, <1>5, <1>6

\* A tick between two arrays of the sequence is in one between them.
LEMMA Covered ==
    ASSUME NEW S, NEW left \in BOOLEAN, InOrder(S, left), NEW u \in Int,
           NEW j \in 1..Len(S), NEW k \in 1..Len(S), j <= k,
           IF left THEN S[k] <= u /\ u < S[j] + K ELSE S[j] <= u /\ u < S[k] + K
    PROVE  \E i \in j..k : Holds(S[i], u)
  <1>1. PICK q \in Int : \A i \in 1..Len(S) : S[i] = K * (IF left THEN q - i ELSE q + i)
    BY DEF InOrder
  <1>2. K \in Nat \ {0}
    BY SizeOfArray
  <1> DEFINE y == u \div K
  <1>3. y \in Int /\ ArrayOf(u) = K * y /\ Holds(K * y, u)
    BY ArrayOfTick
  <1> HIDE DEF y
  <1>4. K * (y + 1) = K * y + K /\ K * y \in Int
    BY <1>2, <1>3
  <1>5. CASE left
    <2>1. S[k] = K * (q - k) /\ S[j] = K * (q - j) /\ q - k \in Int /\ q - j \in Int
      BY <1>1, <1>5
    <2>2. K * (q - j + 1) = S[j] + K /\ q - j + 1 \in Int
      BY <1>2, <2>1
    <2>3. K * (q - k) < K * (y + 1) /\ K * y < K * (q - j + 1)
      <3>1. S[k] \in Int /\ S[j] \in Int
        BY OrderedArrays
      <3>2. S[k] < K * y + K /\ K * y < S[j] + K
        BY <1>2, <1>3, <1>4, <1>5, <3>1 DEF Holds
      <3> QED BY <1>4, <2>1, <2>2, <3>2
    <2>4. q - k < y + 1 /\ y < q - j + 1
      BY <1>2, <1>3, <2>1, <2>2, <2>3, Monotone
    <2> DEFINE i == q - y
    <2>5. i \in j..k /\ q - i = y
      BY <1>3, <2>1, <2>4
    <2>6. S[i] = K * (q - i)
      BY <1>1, <1>5, <2>5
    <2> QED BY <1>3, <2>5, <2>6
  <1>6. CASE ~left
    <2>1. S[k] = K * (q + k) /\ S[j] = K * (q + j) /\ q + k \in Int /\ q + j \in Int
      BY <1>1, <1>6
    <2>2. K * (q + k + 1) = S[k] + K /\ q + k + 1 \in Int
      BY <1>2, <2>1
    <2>3. K * (q + j) < K * (y + 1) /\ K * y < K * (q + k + 1)
      <3>1. S[k] \in Int /\ S[j] \in Int
        BY OrderedArrays
      <3>2. S[j] < K * y + K /\ K * y < S[k] + K
        BY <1>2, <1>3, <1>4, <1>6, <3>1 DEF Holds
      <3> QED BY <1>4, <2>1, <2>2, <3>2
    <2>4. q + j < y + 1 /\ y < q + k + 1
      BY <1>2, <1>3, <2>1, <2>2, <2>3, Monotone
    <2> DEFINE i == y - q
    <2>5. i \in j..k /\ q + i = y
      BY <1>3, <2>1, <2>4
    <2>6. S[i] = K * (q + i)
      BY <1>1, <1>6, <2>5
    <2> QED BY <1>3, <2>5, <2>6
  <1> QED BY <1>5, <1>6

-----------------------------------------------------------------------------
(* The search of the SDK. *)

LEMMA SlotOfTick ==
    ASSUME NEW x \in Int
    PROVE  /\ SlotTick(x) \in Int /\ OnGrid(SlotTick(x))
           /\ SlotTick(x) <= x /\ x < SlotTick(x) + TickSpacing
           /\ \A s \in Int : OnGrid(s) => (s <= SlotTick(x) <=> s <= x)
  <1> DEFINE q == x \div TickSpacing
             r == x % TickSpacing
             z == SlotTick(x)
  <1>1. TickSpacing \in Nat \ {0}
    BY SpacingAssumption
  <1>2. q \in Int /\ r \in 0..TickSpacing - 1 /\ x = TickSpacing * q + r
    BY <1>1, DivMod
  <1>3. z = q * TickSpacing
    BY DEF SlotTick
  <1> HIDE DEF q, r, z
  <1>4. z = TickSpacing * q /\ z \in Int
    BY <1>1, <1>2, <1>3
  <1>5. OnGrid(z)
    BY <1>2, <1>4 DEF OnGrid
  <1>6. z <= x /\ x < z + TickSpacing
    <2>1. r \in Int /\ 0 <= r /\ r < TickSpacing
      BY <1>1, <1>2
    <2> QED BY <1>1, <1>2, <1>4, <2>1
  <1>7. ASSUME NEW s \in Int, OnGrid(s) PROVE s <= z <=> s <= x
    <2>1. s <= x => s - TickSpacing < z
      BY <1>1, <1>4, <1>6
    <2>2. s - TickSpacing < z => s <= z
      BY <1>4, <1>5, <1>7, GridStep
    <2> QED BY <1>4, <1>6, <2>1, <2>2
  <1> QED BY <1>4, <1>5, <1>6, <1>7 DEF z

LEMMA SequenceSlots ==
    ASSUME NEW S, NEW left \in BOOLEAN, InOrder(S, left), NEW s
    PROVE  s \in SequenceTicks(S) <=>
               s \in Int /\ OnGrid(s) /\ \E i \in 1..Len(S) : Holds(S[i], s)
  <1>1. /\ Len(S) \in Nat /\ Range(S) = {S[i] : i \in 1..Len(S)}
        /\ \A i \in 1..Len(S) : S[i] \in Int /\ OnGrid(S[i])
    BY OrderedArrays, LenProperties DEF Range
  <1>2. s \in SequenceTicks(S) <=>
            \E i \in 1..Len(S), o \in 0..TICK_ARRAY_SIZE - 1 : s = S[i] + o * TickSpacing
    BY <1>1 DEF SequenceTicks
  <1>3. TickSpacing \in Nat \ {0} /\ TICK_ARRAY_SIZE \in Nat \ {0} /\ K = TICK_ARRAY_SIZE * TickSpacing
    BY SpacingAssumption, TickArrayAssumption, SizeOfArray
  <1>4. ASSUME NEW i \in 1..Len(S), NEW o \in 0..TICK_ARRAY_SIZE - 1, s = S[i] + o * TickSpacing
        PROVE  s \in Int /\ OnGrid(s) /\ Holds(S[i], s)
    <2>1. PICK q \in Int : S[i] = TickSpacing * q
      BY <1>1 DEF OnGrid
    <2>2. o \in Int /\ 0 <= o /\ o < TICK_ARRAY_SIZE
      BY <1>3
    <2>3. s = TickSpacing * (q + o) /\ q + o \in Int
      BY <1>3, <1>4, <2>1, <2>2
    <2>4. TickSpacing * 0 <= TickSpacing * o /\ TickSpacing * o < TickSpacing * TICK_ARRAY_SIZE
      BY <1>3, <2>2, Monotone
    <2>5. o * TickSpacing = TickSpacing * o /\ TickSpacing * o \in Int /\ TickSpacing * 0 = 0
          /\ TickSpacing * TICK_ARRAY_SIZE = K
      BY <1>3, <2>2
    <2>6. s \in Int /\ S[i] <= s /\ s < S[i] + K
      BY <1>1, <1>3, <1>4, <2>4, <2>5
    <2> QED BY <2>3, <2>6 DEF Holds, OnGrid
  <1>5. ASSUME s \in Int, OnGrid(s), NEW i \in 1..Len(S), Holds(S[i], s)
        PROVE  \E o \in 0..TICK_ARRAY_SIZE - 1 : s = S[i] + o * TickSpacing
    BY <1>1, <1>5, SlotOf DEF Holds
  <1> QED BY <1>2, <1>4, <1>5

\* The slots the SDK looks at are those of the sequence at or left of the tick, or right of it.
LEMMA SlotsLookedAt ==
    ASSUME NEW S, NEW left \in BOOLEAN, InOrder(S, left), NEW t \in Int, NEW s
    PROVE  s \in Ahead(S, t, left) <=>
               /\ s \in Int /\ OnGrid(s) /\ \E i \in 1..Len(S) : Holds(S[i], s)
               /\ IF left THEN s <= t ELSE t < s
  <1>1. s \in Ahead(S, t, left) <=>
            /\ s \in SequenceTicks(S)
            /\ IF left THEN s <= SlotTick(t) ELSE s >= SlotTick(t + TickSpacing)
    BY DEF Ahead, SearchFrom
  <1>2. ASSUME s \in Int, OnGrid(s) PROVE s <= SlotTick(t) <=> s <= t
    BY <1>2, SlotOfTick
  <1>3. ASSUME s \in Int, OnGrid(s) PROVE s >= SlotTick(t + TickSpacing) <=> t < s
    <2> DEFINE z == SlotTick(t + TickSpacing)
    <2>1. TickSpacing \in Nat \ {0} /\ t + TickSpacing \in Int
      BY SpacingAssumption
    <2>2. z \in Int /\ OnGrid(z) /\ z <= t + TickSpacing /\ t + TickSpacing < z + TickSpacing
      BY <2>1, SlotOfTick
    <2> HIDE DEF z
    <2>3. z - TickSpacing < s => z <= s
      BY <1>3, <2>2, GridStep
    <2>4. s >= z <=> t < s
      BY <1>3, <2>1, <2>2, <2>3
    <2> QED BY <2>4 DEF z
  <1> QED BY <1>1, <1>2, <1>3, SequenceSlots

LEMMA Clamped ==
    ASSUME NEW x \in Int
    PROVE  /\ Clamp(x) \in Int /\ Clamp(x) \in MIN_TICK_INDEX..MAX_TICK_INDEX
           /\ Clamp(x) = IF x > MAX_TICK_INDEX THEN MAX_TICK_INDEX
                         ELSE IF x < MIN_TICK_INDEX THEN MIN_TICK_INDEX ELSE x
  <1>1. MIN_TICK_INDEX \in Int /\ MAX_TICK_INDEX \in Int /\ MIN_TICK_INDEX < MAX_TICK_INDEX
    BY TickIndexAssumption
  <1> DEFINE y == Min({x, MAX_TICK_INDEX})
  <1>2. y \in Int /\ y = IF x > MAX_TICK_INDEX THEN MAX_TICK_INDEX ELSE x
    BY <1>1, EndsOfPair
  <1>3. Clamp(x) = Max({y, MIN_TICK_INDEX})
    BY DEF Clamp
  <1> HIDE DEF y
  <1>4. Clamp(x) = IF y < MIN_TICK_INDEX THEN MIN_TICK_INDEX ELSE y
    BY <1>1, <1>2, <1>3, EndsOfPair
  <1> QED BY <1>1, <1>2, <1>4

\* Position j of the sequence is where a search from t begins.
Begins(S, t, j, left) == j \in 1..Len(S) /\ in_search_range(S[j], t, TickSpacing, ~left)

LEMMA BeginsIn ==
    ASSUME NEW S, NEW left \in BOOLEAN, InOrder(S, left), NEW t \in Int, NEW j, Begins(S, t, j, left)
    PROVE  /\ j \in 1..Len(S) /\ j \in Int /\ S[j] \in Int
           /\ IF left THEN S[j] <= t /\ t < S[j] + K
                      ELSE S[j] - TickSpacing <= t /\ t < S[j] + K - TickSpacing
  <1>1. j \in 1..Len(S) /\ S[j] \in Int /\ Len(S) \in Nat
    BY OrderedArrays DEF Begins
  <1>2. TickSpacing \in Nat \ {0} /\ K \in Nat \ {0} /\ TicksInArray(TickSpacing) = K
    BY SpacingAssumption, SizeOfArray DEF K
  <1> QED BY <1>1, <1>2 DEF Begins, in_search_range

\* The slots looked at reach up to the end of the last array.
LEMMA AheadEnds ==
    ASSUME NEW S, NEW left \in BOOLEAN, InOrder(S, left), NEW t \in Int, NEW j, Begins(S, t, j, left)
    PROVE  /\ IF left THEN S[Len(S)] \in Ahead(S, t, left)
                      ELSE S[Len(S)] + K - TickSpacing \in Ahead(S, t, left)
           /\ \A s \in Ahead(S, t, left) :
                  s \in Int /\ S[j] \in Int /\ S[Len(S)] \in Int
                  /\ IF left THEN S[Len(S)] <= s ELSE s <= S[Len(S)] + K - TickSpacing
  <1> DEFINE n == Len(S)
  <1>1. /\ n \in Nat /\ \A i \in 1..n : S[i] \in Int /\ OnGrid(S[i])
        /\ \A i, k \in 1..n : i < k => IF left THEN S[k] + K <= S[i] ELSE S[i] + K <= S[k]
    BY OrderedArrays
  <1>2. /\ j \in 1..n /\ j \in Int
        /\ IF left THEN S[j] <= t ELSE t < S[j] + K - TickSpacing
    BY BeginsIn
  <1> HIDE DEF n
  <1>3. n \in 1..n /\ n \in Int
    BY <1>1, <1>2
  <1>4. TickSpacing \in Nat \ {0} /\ K \in Nat \ {0} /\ K >= TickSpacing
    BY SpacingAssumption, SizeOfArray
  <1>5. \A i \in 1..n : S[i] \in Int /\ S[n] \in Int /\ IF left THEN S[n] <= S[i] ELSE S[i] <= S[n]
    <2> TAKE i \in 1..n
    <2>1. i = n \/ i < n
      BY <1>1
    <2> QED BY <1>1, <1>3, <1>4, <2>1
  <1>6. CASE left
    <2>1. S[n] \in Int /\ OnGrid(S[n]) /\ S[n] <= t
      BY <1>1, <1>2, <1>3, <1>5, <1>6
    <2>2. Holds(S[n], S[n])
      BY <1>4, <2>1 DEF Holds
    <2>3. S[n] \in Ahead(S, t, left)
      BY <1>3, <1>6, <2>1, <2>2, SlotsLookedAt DEF n
    <2>4. ASSUME NEW s \in Ahead(S, t, left)
          PROVE  s \in Int /\ S[j] \in Int /\ S[n] \in Int /\ S[n] <= s
      <3>1. s \in Int /\ \E i \in 1..n : Holds(S[i], s)
        BY <2>4, SlotsLookedAt DEF n
      <3>2. PICK i \in 1..n : Holds(S[i], s)
        BY <3>1
      <3> QED BY <1>2, <1>5, <1>6, <3>1, <3>2 DEF Holds
    <2> QED BY <1>6, <2>3, <2>4 DEF n
  <1>7. CASE ~left
    <2> DEFINE e == S[n] + K - TickSpacing
    <2>1. S[n] \in Int /\ OnGrid(S[n]) /\ t < e
      BY <1>1, <1>2, <1>3, <1>4, <1>5, <1>7
    <2>2. e \in Int /\ OnGrid(e)
      <3>1. PICK q \in Int : S[n] = TickSpacing * q
        BY <2>1 DEF OnGrid
      <3>2. e = TickSpacing * (q + TICK_ARRAY_SIZE - 1) /\ q + TICK_ARRAY_SIZE - 1 \in Int
        BY <1>4, <3>1, SizeOfArray, TickArrayAssumption
      <3> QED BY <1>4, <2>1, <3>2 DEF OnGrid
    <2>3. Holds(S[n], e)
      BY <1>4, <2>1 DEF Holds
    <2> HIDE DEF e
    <2>4. e \in Ahead(S, t, left)
      BY <1>3, <1>7, <2>1, <2>2, <2>3, SlotsLookedAt DEF n
    <2>5. ASSUME NEW s \in Ahead(S, t, left)
          PROVE  s \in Int /\ S[j] \in Int /\ S[n] \in Int /\ s <= e
      <3>1. s \in Int /\ OnGrid(s) /\ \E i \in 1..n : Holds(S[i], s)
        BY <2>5, SlotsLookedAt DEF n
      <3>2. PICK i \in 1..n : Holds(S[i], s)
        BY <3>1
      <3>3. s - TickSpacing < e
        BY <1>4, <1>5, <1>7, <3>1, <3>2 DEF Holds, e
      <3>4. s <= e
        BY <2>2, <3>1, <3>3, GridStep
      <3> QED BY <1>2, <1>5, <3>1, <3>4
    <2> QED BY <1>7, <2>4, <2>5 DEF n, e
  <1> QED BY <1>6, <1>7

\* The search of the SDK returns the nearest initialised tick of its arrays, or
\* the end of the last of them.
LEMMA SdkSearch ==
    ASSUME NEW S, NEW left \in BOOLEAN, InOrder(S, left), NEW t \in Int, NEW j, Begins(S, t, j, left),
           NEW next, next = findNextInitializedTickIndex(Ahead(S, t, left), left)
    PROVE  LET seen == Ahead(S, t, left) \cap Initialized
           IN  /\ seen # {} => /\ next \in seen
                               /\ \A u \in seen : IF left THEN u <= next ELSE next <= u
               /\ seen = {} => next = Clamp(IF left THEN S[Len(S)] ELSE S[Len(S)] + K - 1)
  <1> DEFINE ahead == Ahead(S, t, left)
             seen == ahead \cap Initialized
             low == IF left THEN S[Len(S)] ELSE t
             high == IF left THEN t ELSE S[Len(S)] + K - TickSpacing
  <1>1. /\ IF left THEN S[Len(S)] \in ahead ELSE S[Len(S)] + K - TickSpacing \in ahead
        /\ \A s \in ahead : /\ s \in Int /\ S[Len(S)] \in Int
                            /\ IF left THEN S[Len(S)] <= s ELSE s <= S[Len(S)] + K - TickSpacing
    BY AheadEnds
  <1>2. \A s \in ahead : IF left THEN s <= t ELSE t < s
    BY SlotsLookedAt
  <1>3. TickSpacing \in Nat \ {0} /\ K \in Nat \ {0}
    BY SpacingAssumption, SizeOfArray
  <1>4. next = IF seen # {} THEN IF left THEN Max(seen) ELSE Min(seen)
               ELSE Clamp(IF left THEN Min(ahead) ELSE Max(ahead) + TickSpacing - 1)
    BY DEF findNextInitializedTickIndex
  <1> HIDE DEF ahead
  <1>5. S[Len(S)] \in Int
    BY <1>1
  <1>6. low \in Int /\ high \in Int /\ ahead \subseteq low..high /\ ahead # {}
    BY <1>1, <1>2, <1>3, <1>5
  <1> HIDE DEF low, high
  <1>7. ASSUME seen # {}
        PROVE  next \in seen /\ \A u \in seen : IF left THEN u <= next ELSE next <= u
    <2>1. seen \subseteq low..high
      BY <1>6
    <2>2. Min(seen) \in seen /\ Max(seen) \in seen /\ \A u \in seen : Min(seen) <= u /\ u <= Max(seen)
      <3> HIDE DEF seen
      <3> QED BY <1>6, <1>7, <2>1, EndsOfInts
    <2> HIDE DEF seen
    <2> QED BY <1>4, <1>7, <2>2
  <1>8. ASSUME seen = {}
        PROVE  next = Clamp(IF left THEN S[Len(S)] ELSE S[Len(S)] + K - 1)
    <2>1. Min(ahead) \in ahead /\ Max(ahead) \in ahead
          /\ \A u \in ahead : Min(ahead) <= u /\ u <= Max(ahead)
      BY <1>6, EndsOfInts
    <2>2. left => Min(ahead) = S[Len(S)]
      BY <1>1, <2>1
    <2>3. ~left => Max(ahead) = S[Len(S)] + K - TickSpacing
      BY <1>1, <1>3, <1>5, <2>1
    <2>4. ~left => Max(ahead) + TickSpacing - 1 = S[Len(S)] + K - 1
      BY <1>3, <1>5, <2>3
    <2> QED BY <1>4, <1>8, <2>2, <2>4
  <1> QED BY <1>7, <1>8 DEF ahead

\* It touches the arrays from the first to that of the tick found, or all of them.
LEMMA TouchedAre ==
    ASSUME NEW S, NEW left \in BOOLEAN, InOrder(S, left), NEW t \in Int, NEW j, Begins(S, t, j, left),
           NEW next, next = findNextInitializedTickIndex(Ahead(S, t, left), left)
    PROVE  \E k \in j..Len(S) :
               /\ Touched(Ahead(S, t, left), next, left) = {S[i] : i \in j..k}
               /\ IF Ahead(S, t, left) \cap Initialized # {} THEN Holds(S[k], next) ELSE k = Len(S)
  <1> DEFINE n == Len(S)
             ahead == Ahead(S, t, left)
             seen == ahead \cap Initialized
             within == {s \in ahead : seen # {} => IF left THEN s >= next ELSE s <= next}
  <1>1. /\ n \in Nat /\ \A i \in 1..n : S[i] \in Int /\ OnGrid(S[i])
        /\ \A i, k \in 1..n : i < k => IF left THEN S[k] + K <= S[i] ELSE S[i] + K <= S[k]
    BY OrderedArrays
  <1>2. /\ j \in 1..n /\ j \in Int
        /\ IF left THEN S[j] <= t /\ t < S[j] + K ELSE t < S[j] + K - TickSpacing
        /\ IF left THEN TRUE ELSE S[j] - TickSpacing <= t
    BY BeginsIn
  <1>3. TickSpacing \in Nat \ {0} /\ K \in Nat \ {0} /\ K >= TickSpacing
    BY SpacingAssumption, SizeOfArray
  <1>4. \A s \in ahead : /\ s \in Int /\ OnGrid(s) /\ (\E i \in 1..n : Holds(S[i], s))
                         /\ IF left THEN s <= t ELSE t < s
    BY SlotsLookedAt
  <1>5. \A s \in Int : OnGrid(s) /\ (\E i \in 1..n : Holds(S[i], s)) /\ (IF left THEN s <= t ELSE t < s)
                          => s \in ahead
    BY SlotsLookedAt
  <1>6. seen # {} => next \in seen
    BY SdkSearch
  <1>7. Touched(ahead, next, left) = {ArrayOf(s) : s \in within}
    BY DEF Touched
  <1>8. \A i \in 1..n, s \in Int : Holds(S[i], s) => ArrayOf(s) = S[i]
    BY InSequenceHolds
  <1> HIDE DEF n, ahead
  <1>9. \A i, k \in 1..n : i <= k => IF left THEN S[k] <= S[i] ELSE S[i] <= S[k]
    <2> TAKE i, k \in 1..n
    <2>1. i = k \/ i < k \/ k < i
      BY <1>1
    <2> QED BY <1>1, <1>3, <2>1
  \* A slot ahead is not in an array before the first.
  <1>10. ASSUME NEW s \in ahead, NEW i \in 1..n, Holds(S[i], s) PROVE i \in j..n
    <2>1. i \in Int /\ i <= n /\ (i < j \/ j <= i)
      BY <1>1, <1>2
    <2>2. ASSUME i < j PROVE FALSE
      <3>1. S[i] \in Int /\ S[j] \in Int /\ IF left THEN S[j] + K <= S[i] ELSE S[i] + K <= S[j]
        BY <1>1, <1>2, <2>2
      <3>2. CASE left
        BY <1>2, <1>3, <1>4, <1>10, <3>1, <3>2 DEF Holds
      <3>3. CASE ~left
        <4>1. s < S[j] /\ s \in Int /\ S[j] - TickSpacing <= t /\ t < s
          BY <1>2, <1>3, <1>4, <1>10, <3>1, <3>3 DEF Holds
        <4>2. S[j] <= s
          <5>1. S[j] - TickSpacing < s
            BY <1>2, <1>3, <3>1, <4>1
          <5>2. OnGrid(S[j]) /\ OnGrid(s)
            BY <1>1, <1>2, <1>4
          <5> QED BY <3>1, <4>1, <5>1, <5>2, GridStep
        <4> QED BY <3>1, <4>1, <4>2
      <3> QED BY <3>2, <3>3
    <2> QED BY <1>1, <1>2, <2>1, <2>2
  \* The slot of each array that is ahead: its first to the left, its last to the right.
  <1> DEFINE slot(i) == IF left THEN S[i] ELSE S[i] + K - TickSpacing
  <1>11. ASSUME NEW i \in j..n PROVE slot(i) \in ahead /\ slot(i) \in Int /\ Holds(S[i], slot(i))
    <2>1. i \in 1..n /\ S[i] \in Int /\ OnGrid(S[i]) /\ S[j] \in Int
      BY <1>1, <1>2
    <2>2. IF left THEN S[i] <= S[j] ELSE S[j] <= S[i]
      BY <1>2, <1>9, <2>1
    <2>3. slot(i) \in Int /\ Holds(S[i], slot(i))
      BY <1>3, <2>1 DEF Holds
    <2>4. OnGrid(slot(i))
      <3>1. PICK q \in Int : S[i] = TickSpacing * q
        BY <2>1 DEF OnGrid
      <3>2. CASE left
        BY <2>1, <3>2
      <3>3. CASE ~left
        <4>1. slot(i) = TickSpacing * (q + TICK_ARRAY_SIZE - 1) /\ q + TICK_ARRAY_SIZE - 1 \in Int
          BY <1>3, <3>1, <3>3, SizeOfArray, TickArrayAssumption
        <4> QED BY <4>1 DEF OnGrid
      <3> QED BY <3>2, <3>3
    <2>5. IF left THEN slot(i) <= t ELSE t < slot(i)
      BY <1>2, <1>3, <2>1, <2>2
    <2> QED BY <1>5, <2>1, <2>3, <2>4, <2>5
  <1>12. CASE seen = {}
    <2>1. \A s \in ahead : ArrayOf(s) \in {S[i] : i \in j..n}
      BY <1>4, <1>8, <1>10
    <2>2. \A i \in j..n : S[i] \in {ArrayOf(s) : s \in ahead}
      <3> TAKE i \in j..n
      <3>1. i \in 1..n
        BY <1>1, <1>2
      <3>2. ArrayOf(slot(i)) = S[i] /\ slot(i) \in ahead
        BY <1>8, <1>11, <3>1
      <3> QED BY <3>2
    <2>3. {ArrayOf(s) : s \in within} = {S[i] : i \in j..n}
      BY <1>12, <2>1, <2>2
    <2>4. n \in j..n
      BY <1>1, <1>2
    <2> QED BY <1>7, <1>12, <2>3, <2>4 DEF n, ahead
  <1>13. CASE seen # {}
    <2>1. next \in ahead /\ next \in Int
      BY <1>4, <1>6, <1>13
    <2>2. PICK k \in 1..n : Holds(S[k], next)
      BY <1>4, <2>1
    <2>3. k \in j..n /\ k \in Int /\ S[k] \in Int
      BY <1>1, <1>10, <2>1, <2>2
    <2>4. within = {s \in ahead : IF left THEN s >= next ELSE s <= next}
      BY <1>13
    <2> HIDE DEF within, slot
    <2>5. ASSUME NEW s \in within PROVE ArrayOf(s) \in {S[i] : i \in j..k}
      <3>1. s \in ahead /\ s \in Int /\ IF left THEN s >= next ELSE s <= next
        BY <1>4, <2>4
      <3>2. PICK i \in 1..n : Holds(S[i], s)
        BY <1>4, <3>1
      <3>3. i \in j..n /\ ArrayOf(s) = S[i] /\ S[i] \in Int
        BY <1>1, <1>8, <1>10, <3>1, <3>2
      <3>4. ~(k < i)
        <4> SUFFICES ASSUME k < i PROVE FALSE
          OBVIOUS
        <4>1. IF left THEN S[i] + K <= S[k] ELSE S[k] + K <= S[i]
          BY <1>1, <2>2
        <4> QED BY <1>3, <2>1, <2>2, <2>3, <3>1, <3>2, <3>3, <4>1 DEF Holds
      <3>5. i \in j..k
        BY <1>2, <2>3, <3>3, <3>4
      <3> QED BY <3>3, <3>5
    <2>6. ASSUME NEW i \in j..k PROVE S[i] \in {ArrayOf(s) : s \in within}
      <3>1. i \in j..n /\ i \in 1..n /\ i \in Int /\ (i = k \/ i < k)
        BY <1>1, <1>2, <2>3
      <3>2. CASE i = k
        <4>1. next \in within
          BY <2>1, <2>4
        <4>2. ArrayOf(next) = S[i]
          BY <1>8, <2>1, <2>2, <3>2
        <4> QED BY <4>1, <4>2
      <3>3. CASE i < k
        <4>1. slot(i) \in ahead /\ slot(i) \in Int /\ ArrayOf(slot(i)) = S[i] /\ Holds(S[i], slot(i))
          BY <1>8, <1>11, <3>1
        <4>2. S[i] \in Int /\ IF left THEN S[k] + K <= S[i] ELSE S[i] + K <= S[k]
          BY <1>1, <2>2, <3>1, <3>3
        <4>3. IF left THEN slot(i) >= next ELSE slot(i) <= next
          BY <1>3, <2>1, <2>2, <2>3, <4>1, <4>2 DEF Holds
        <4>4. slot(i) \in within
          BY <2>4, <4>1, <4>3
        <4> QED BY <4>1, <4>4
      <3> QED BY <3>1, <3>2, <3>3
    <2>7. {ArrayOf(s) : s \in within} = {S[i] : i \in j..k}
      BY <2>5, <2>6
    <2> QED BY <1>7, <1>13, <2>2, <2>3, <2>7 DEF n, ahead
  <1> QED BY <1>12, <1>13

-----------------------------------------------------------------------------
(* The search of the program, in the arrays the SDK touched. *)

LEMMA FirstArrays ==
    ASSUME NEW S, NEW left \in BOOLEAN, InOrder(S, left), NEW m \in 0..Len(S),
           NEW A, A = SubSeq(S, 1, m)
    PROVE  /\ InOrder(A, left) /\ Len(A) = m
           /\ \A i \in 1..m : A[i] = S[i]
  <1>1. S \in Seq(Starts) /\ Len(S) \in Nat /\ m \in Nat
    BY OrderedArrays
  <1>2. A = [i \in 1..m |-> S[i]]
    BY <1>1
  <1>3. \A i \in 1..m : A[i] = S[i] /\ S[i] \in Starts
    BY <1>1, <1>2, ElementOfSeq
  <1>4. A \in Seq(Starts) /\ Len(A) = m
    BY <1>1, <1>2, <1>3
  <1>5. PICK q \in Int : \A i \in 1..Len(S) : S[i] = K * (IF left THEN q - i ELSE q + i)
    BY DEF InOrder
  <1>6. \A i \in 1..m : A[i] = K * (IF left THEN q - i ELSE q + i)
    BY <1>1, <1>3, <1>5
  <1> QED BY <1>3, <1>4, <1>6 DEF InOrder

\* From an array it may begin in, the search of the program succeeds.
LEMMA ProgramFinds ==
    ASSUME NEW A, NEW left \in BOOLEAN, InOrder(A, left), NEW initialized \in SUBSET Usable,
           NEW t \in Int, NEW j, Begins(A, t, j, left), Reached(initialized, t, left, t), NEW r,
           r = get_next_initialized_tick_index(A, initialized, t, TickSpacing, left, j)
    PROVE  /\ ~r.error /\ Sound(r, A, initialized, t, left, j)
           /\ Holds(A[r.array_index], r.tick_index)
           /\ \/ r.tick_index \in initialized
              \/ /\ r.tick_index = EdgeTick(A[r.array_index], TickSpacing, left)
                 /\ IsEdge(A, r.array_index, TickSpacing, left)
  <1> DEFINE n == Len(A)
             x(i) == At(A, j, t, left, i)
             searchable(i) == in_search_range(A[i], x(i), TickSpacing, ~left)
             ahead(i) == SlotsAhead(A[i], initialized, x(i), TickSpacing, left)
             stops == {i \in j..Len(A) :
                         ~searchable(i) \/ ahead(i) # {} \/ IsEdge(A, i, TickSpacing, left)}
             i == Min(stops)
             start == A[i]
  <1>1. r = IF j > n THEN SearchError
            ELSE IF ~searchable(i) THEN SearchError
            ELSE IF ahead(i) # {} THEN Found(i, Nearest(start, initialized, x(i), left))
            ELSE Found(i, EdgeTick(start, TickSpacing, left))
    BY DEF get_next_initialized_tick_index, At, Nearest
  <1>2. /\ A \in Seq(Starts) /\ n \in Nat
        /\ \A h \in 1..n : A[h] \in Int /\ OnGrid(A[h])
        /\ \A h \in 1..n - 1 : A[h + 1] = IF left THEN A[h] - K ELSE A[h] + K
    BY OrderedArrays
  <1>3. j \in 1..n /\ j \in Nat \ {0} /\ in_search_range(A[j], t, TickSpacing, ~left)
    BY <1>2, BeginsIn DEF Begins
  <1>4. TickSpacing \in Nat \ {0} /\ K \in Nat \ {0} /\ K >= TickSpacing /\ TicksInArray(TickSpacing) = K
    BY SpacingAssumption, SizeOfArray DEF K
  <1> HIDE DEF n
  <1>5. ASSUME NEW h \in j..n PROVE searchable(h)
    <2>1. CASE h = j
      <3>1. x(h) = t
        BY <2>1 DEF At, SearchIndex
      <3> QED BY <1>3, <2>1, <3>1
    <2>2. CASE h # j
      <3>1. h - 1 \in 1..n - 1 /\ h \in 1..n /\ h - 1 + 1 = h
        BY <1>2, <1>3, <2>2
      <3>2. A[h] = (IF left THEN A[h - 1] - K ELSE A[h - 1] + K) /\ A[h] \in Int
        BY <1>2, <3>1
      <3>3. A[h - 1] \in Int
        BY <1>2, <3>1
      <3>4. x(h) = IF left THEN A[h - 1] - 1 ELSE A[h - 1] + K - 1
        BY <1>4, <2>2 DEF At, SearchIndex
      <3> HIDE DEF x
      <3>5. CASE left
        <4>1. x(h) = A[h] + K - 1 /\ x(h) \in Int
          BY <1>4, <3>2, <3>3, <3>4, <3>5
        <4> QED BY <1>4, <3>2, <3>5, <4>1 DEF in_search_range
      <3>6. CASE ~left
        <4>1. x(h) = A[h] - 1 /\ x(h) \in Int
          BY <1>4, <3>2, <3>3, <3>4, <3>6
        <4> QED BY <1>4, <3>2, <3>6, <4>1 DEF in_search_range
      <3> QED BY <3>5, <3>6
    <2> QED BY <2>1, <2>2
  <1>6. i \in stops /\ \A h \in stops : i <= h
    <2>1. n \in stops
      BY <1>2, <1>3 DEF IsEdge, n
    <2>2. stops \subseteq j..n
      BY DEF n
    <2> HIDE DEF stops
    <2>3. stops \subseteq Nat /\ stops # {}
      BY <1>2, <1>3, <2>1, <2>2
    <2> QED BY <2>3, LeastOne
  <1>7. i \in j..n /\ i \in 1..n
    <2>1. i \in j..n
      BY <1>6 DEF n
    <2> QED BY <1>2, <1>3, <2>1
  <1>8. \A h \in j..i - 1 : Passes(A, initialized, j, t, left, h)
    <2> SUFFICES ASSUME NEW h \in j..i - 1 PROVE Passes(A, initialized, j, t, left, h)
      OBVIOUS
    <2>1. h \notin stops /\ h \in j..n
      <3> HIDE DEF stops, i
      <3> QED BY <1>2, <1>3, <1>6, <1>7
    <2> QED BY <2>1 DEF Passes, n
  <1>9. searchable(i)
    BY <1>5, <1>7
  <1>10. ~(j > n)
    BY <1>2, <1>3
  <1>11. i \in stops
    BY <1>6
  <1>12. ahead(i) # {} \/ IsEdge(A, i, TickSpacing, left)
    BY <1>9, <1>11
  <1> HIDE DEF i
  <1>13. Reached(initialized, t, left, x(i))
    <2>1. i \in j..Len(A)
      BY <1>7 DEF n
    <2> QED BY <1>2, <1>3, <1>8, <2>1, ReachesArray
  <1>14. start \in Int /\ OnGrid(start)
    BY <1>2, <1>7
  <1> DEFINE y == x(i)
             f == IF ahead(i) # {} THEN Nearest(start, initialized, y, left)
                  ELSE EdgeTick(start, TickSpacing, left)
  <1>15. r = Found(i, f)
    BY <1>1, <1>9, <1>10
  <1>16. ~r.error /\ r.array_index = i /\ r.tick_index = f
    BY <1>15 DEF Found
  <1>17. y \in Int /\ IF left THEN MIN_TICK_INDEX <= y ELSE y < MAX_TICK_INDEX
    BY <1>13 DEF Reached
  <1>18. Sound(r, A, initialized, t, left, j)
    BY <1>2, <1>3, <1>16, SearchSound
  <1>19. CASE ahead(i) # {}
    <2> DEFINE g == Nearest(start, initialized, y, left)
    <2>1. g \in initialized /\ start <= g /\ g < start + K
      BY <1>9, <1>14, <1>17, <1>19, ArrayFound
    <2>2. f = g
      BY <1>19
    <2> HIDE DEF f, g, y
    <2> QED BY <1>16, <1>18, <2>1, <2>2 DEF Holds
  <1>20. CASE ahead(i) = {}
    <2> DEFINE g == EdgeTick(start, TickSpacing, left)
    <2>1. /\ g \in Int
          /\ left => start <= g /\ g <= y
          /\ ~left => y < g /\ g < start + K
      BY <1>9, <1>14, <1>17, EdgeSound
    <2>2. f = g
      BY <1>20
    <2>3. IF left THEN y < start + K ELSE start - TickSpacing <= y
      BY <1>4, <1>9, <1>14, <1>17 DEF in_search_range
    <2>4. start <= g /\ g < start + K
      <3>1. CASE left
        <4> HIDE DEF g, y
        <4> QED BY <1>4, <1>14, <1>17, <2>1, <2>3, <3>1
      <3>2. CASE ~left
        <4>1. g = IF start + K > MAX_TICK_INDEX THEN MAX_TICK_INDEX ELSE start + K - 1
          BY <1>4, <3>2 DEF EdgeTick, is_max_tick_array
        <4>2. start <= MAX_TICK_INDEX /\ MAX_TICK_INDEX \in Int
          <5>1. start \in Starts
            BY <1>2, <1>7, ElementOfSeq DEF n
          <5>2. MAX_TICK_INDEX \in Int /\ MinArrayStart(TickSpacing) \in Int
            BY <1>4, TickIndexAssumption DEF MinArrayStart
          <5> QED BY <1>14, <5>1, <5>2 DEF Starts
        <4> HIDE DEF g, y
        <4> QED BY <1>4, <1>14, <2>1, <3>2, <4>1, <4>2
      <3> QED BY <3>1, <3>2
    <2> HIDE DEF f, g, y
    <2>5. f = EdgeTick(start, TickSpacing, left)
      BY <2>2 DEF g
    <2> QED BY <1>12, <1>16, <1>18, <1>20, <2>2, <2>4, <2>5 DEF Holds
  <1> QED BY <1>19, <1>20

LEMMA FindsInitialized ==
    ASSUME NEW A, NEW left \in BOOLEAN, InOrder(A, left), Initialized \in SUBSET Usable,
           NEW t \in Int, NEW j, Begins(A, t, j, left), Reached(Initialized, t, left, t), NEW r,
           r = get_next_initialized_tick_index(A, Initialized, t, TickSpacing, left, j)
    PROVE  /\ ~r.error /\ Sound(r, A, Initialized, t, left, j)
           /\ Holds(A[r.array_index], r.tick_index)
           /\ \/ r.tick_index \in Initialized
              \/ /\ r.tick_index = EdgeTick(A[r.array_index], TickSpacing, left)
                 /\ IsEdge(A, r.array_index, TickSpacing, left)
  <1>1. PICK I : I = Initialized
    OBVIOUS
  <1>2. I \in SUBSET Usable /\ Reached(I, t, left, t)
        /\ r = get_next_initialized_tick_index(A, I, t, TickSpacing, left, j)
    BY <1>1
  <1>3. /\ ~r.error /\ Sound(r, A, I, t, left, j)
        /\ Holds(A[r.array_index], r.tick_index)
        /\ \/ r.tick_index \in I
           \/ /\ r.tick_index = EdgeTick(A[r.array_index], TickSpacing, left)
              /\ IsEdge(A, r.array_index, TickSpacing, left)
    BY <1>2, ProgramFinds
  <1> QED BY <1>1, <1>3

\* In the arrays up to that of the tick the SDK found, it finds the same tick.
LEMMA SearchAgrees ==
    ASSUME NEW S, NEW left \in BOOLEAN, InOrder(S, left), NEW t \in Int, NEW j, Begins(S, t, j, left),
           Initialized \in SUBSET Usable, MIN_TICK_INDEX - 1 <= t, Reached(Initialized, t, left, t),
           NEW next, next = findNextInitializedTickIndex(Ahead(S, t, left), left),
           NEW m \in j..Len(S), NEW k \in j..m,
           IF Ahead(S, t, left) \cap Initialized # {} THEN Holds(S[k], next) ELSE m = Len(S),
           NEW A, InOrder(A, left), Len(A) = m, \A i \in 1..m : A[i] = S[i], NEW r,
           r = get_next_initialized_tick_index(A, Initialized, t, TickSpacing, left, j)
    PROVE  /\ ~r.error /\ r.tick_index = next
           /\ Sound(r, A, Initialized, t, left, j)
           /\ r.array_index \in 1..m /\ A[r.array_index] = S[r.array_index]
           /\ Holds(S[r.array_index], next)
  <1> DEFINE n == Len(S)
             ahead == Ahead(S, t, left)
             seen == ahead \cap Initialized
             i == r.array_index
             f == r.tick_index
  <1>1. /\ n \in Nat /\ \A h \in 1..n : S[h] \in Int
        /\ \A h, l \in 1..n : h < l => IF left THEN S[l] + K <= S[h] ELSE S[h] + K <= S[l]
    BY OrderedArrays
  <1>2. j \in 1..n /\ j \in Int /\ m \in 0..n /\ m \in 1..n /\ k \in 1..n /\ k \in 1..m
    BY <1>1, BeginsIn
  <1>3. Len(A) = m /\ \A h \in 1..m : A[h] = S[h]
    OBVIOUS
  <1>4. Begins(A, t, j, left)
    <2>1. j \in 1..m
      BY <1>1, <1>2
    <2> QED BY <1>3, <2>1 DEF Begins
  <1>5. /\ ~r.error /\ Sound(r, A, Initialized, t, left, j) /\ Holds(A[i], f)
        /\ \/ f \in Initialized
           \/ f = EdgeTick(A[i], TickSpacing, left) /\ IsEdge(A, i, TickSpacing, left)
    BY <1>4, FindsInitialized
  <1>6. /\ i \in j..m /\ f \in Int
        /\ IF left THEN MIN_TICK_INDEX <= f /\ f <= t ELSE t < f /\ f <= MAX_TICK_INDEX
        /\ \A u \in Initialized : IF left THEN u <= t => u <= f ELSE t < u => f <= u
    BY <1>3, <1>5 DEF Sound
  <1>7. i \in 1..m /\ i \in 1..n /\ A[i] = S[i] /\ S[i] \in Int /\ S[m] \in Int
    BY <1>1, <1>2, <1>3, <1>6
  <1>8. /\ seen # {} => next \in seen /\ \A u \in seen : IF left THEN u <= next ELSE next <= u
        /\ seen = {} => next = Clamp(IF left THEN S[n] ELSE S[n] + K - 1)
    BY SdkSearch
  <1>9. TickSpacing \in Nat \ {0} /\ K \in Nat \ {0} /\ K >= TickSpacing /\ TicksInArray(TickSpacing) = K
        /\ MIN_TICK_INDEX \in Int /\ MAX_TICK_INDEX \in Int /\ MIN_TICK_INDEX < MAX_TICK_INDEX
    BY SpacingAssumption, SizeOfArray, TickIndexAssumption DEF K
  <1>10. \A h, l \in 1..n : h <= l => IF left THEN S[l] <= S[h] ELSE S[h] <= S[l]
    <2> TAKE h, l \in 1..n
    <2>1. h = l \/ h < l \/ l < h
      BY <1>1
    <2> QED BY <1>1, <1>9, <2>1
  <1>11. \A u \in Initialized : u \in Int /\ OnGrid(u) /\ MIN_TICK_INDEX <= u /\ u <= MAX_TICK_INDEX
    BY UsableOnGrid
  <1>12. f \in Initialized => f \in seen
    BY <1>5, <1>6, <1>7, <1>11, SlotsLookedAt
  <1>13. \A u \in seen : u \in Int /\ u \in Initialized /\ IF left THEN u <= t ELSE t < u
    BY SlotsLookedAt
  <1> HIDE DEF i, f, ahead, n
  <1>14. /\ EdgeTick(S[i], TickSpacing, left)
              = IF left THEN IF S[i] <= MIN_TICK_INDEX THEN MIN_TICK_INDEX ELSE S[i]
                ELSE IF S[i] + K > MAX_TICK_INDEX THEN MAX_TICK_INDEX ELSE S[i] + K - 1
         /\ IsEdge(A, i, TickSpacing, left)
              => \/ left /\ S[i] <= MIN_TICK_INDEX
                 \/ ~left /\ S[i] + K > MAX_TICK_INDEX
                 \/ i = m
    BY <1>3, <1>7, <1>9 DEF EdgeTick, IsEdge, is_min_tick_array, is_max_tick_array
  <1>15. CASE seen # {}
    <2>1. /\ next \in Initialized /\ next \in Int /\ MIN_TICK_INDEX <= next /\ next <= MAX_TICK_INDEX
          /\ IF left THEN next <= t ELSE t < next
      BY <1>8, <1>11, <1>13, <1>15
    <2>2. IF left THEN next <= f ELSE f <= next
      BY <1>6, <2>1
    <2>3. CASE f \in Initialized
      <3>1. IF left THEN f <= next ELSE next <= f
        BY <1>8, <1>12, <1>15, <2>3
      <3>2. f = next
        BY <1>6, <2>1, <2>2, <3>1
      <3> QED BY <1>5, <1>7, <3>2 DEF i, f
    <2>4. CASE f \notin Initialized
      <3>1. f = EdgeTick(S[i], TickSpacing, left) /\ IsEdge(A, i, TickSpacing, left)
        BY <1>5, <1>7, <2>4 DEF i, f
      <3>2. Holds(S[k], next)
        BY <1>15 DEF ahead
      <3>3. S[k] \in Int /\ k <= m /\ IF left THEN S[m] <= S[k] ELSE S[k] <= S[m]
        BY <1>1, <1>2, <1>10
      <3>4. f = next
        <4>1. CASE left
          <5>1. f = IF S[i] <= MIN_TICK_INDEX THEN MIN_TICK_INDEX ELSE S[i]
            BY <1>14, <3>1, <4>1
          <5>2. S[i] <= MIN_TICK_INDEX \/ S[i] = S[m]
            BY <1>14, <3>1, <4>1
          <5>3. S[m] <= next
            <6>1. S[k] <= next /\ S[m] <= S[k]
              BY <3>2, <3>3, <4>1 DEF Holds
            <6> QED BY <1>7, <2>1, <3>3, <6>1
          <5>4. next <= f
            BY <2>2, <4>1
          <5> QED BY <1>6, <1>7, <1>9, <2>1, <5>1, <5>2, <5>3, <5>4
        <4>2. CASE ~left
          <5>1. f = IF S[i] + K > MAX_TICK_INDEX THEN MAX_TICK_INDEX ELSE S[i] + K - 1
            BY <1>14, <3>1, <4>2
          <5>2. S[i] + K > MAX_TICK_INDEX \/ S[i] = S[m]
            BY <1>14, <3>1, <4>2
          <5>3. next < S[m] + K
            BY <1>7, <1>9, <2>1, <3>2, <3>3, <4>2 DEF Holds
          <5>4. f <= next
            BY <2>2, <4>2
          <5> QED BY <1>6, <1>7, <1>9, <2>1, <5>1, <5>2, <5>3, <5>4
        <4> QED BY <4>1, <4>2
      <3> QED BY <1>5, <1>7, <3>4 DEF i, f
    <2> QED BY <2>3, <2>4
  <1>16. CASE seen = {}
    <2>1. f = EdgeTick(S[i], TickSpacing, left) /\ IsEdge(A, i, TickSpacing, left)
      BY <1>5, <1>7, <1>12, <1>16 DEF i, f
    <2>2. m = n
      BY <1>16 DEF n, ahead
    <2> DEFINE e == IF left THEN S[n] ELSE S[n] + K - 1
    <2>3. S[n] \in Int /\ e \in Int /\ IF left THEN S[n] <= S[i] ELSE S[i] <= S[n]
      <3>1. n \in 1..n /\ i <= n
        BY <1>1, <1>2, <1>7, <2>2
      <3> QED BY <1>1, <1>7, <1>9, <1>10, <3>1
    <2>4. next = Clamp(e)
      BY <1>8, <1>16
    <2>5. Clamp(e) = IF e > MAX_TICK_INDEX THEN MAX_TICK_INDEX
                     ELSE IF e < MIN_TICK_INDEX THEN MIN_TICK_INDEX ELSE e
      BY <2>3, Clamped
    <2>6. Holds(S[i], f)
      BY <1>5, <1>7 DEF i, f
    <2>7. f = next
      <3>1. CASE left
        <4>1. e = S[n]
          BY <3>1
        <4>2. f <= MAX_TICK_INDEX
          <5>1. S[i] \in Starts
            BY <1>7, OrderedArrays DEF n
          <5>2. MinArrayStart(TickSpacing) \in Int
            BY <1>9 DEF MinArrayStart
          <5>3. S[i] <= MAX_TICK_INDEX
            BY <1>7, <1>9, <5>1, <5>2 DEF Starts
          <5> QED BY <1>7, <1>9, <1>14, <2>1, <3>1, <5>3
        <4> HIDE DEF e
        <4>3. f = IF S[i] <= MIN_TICK_INDEX THEN MIN_TICK_INDEX ELSE S[i]
          BY <1>14, <2>1, <3>1
        <4>4. S[i] <= MIN_TICK_INDEX \/ i = n
          BY <1>14, <2>1, <2>2, <3>1
        <4>5. S[n] <= S[i]
          BY <2>3, <3>1
        <4> QED BY <1>6, <1>7, <1>9, <2>3, <2>4, <2>5, <4>1, <4>2, <4>3, <4>4, <4>5
      <3>2. CASE ~left
        <4>1. e = S[n] + K - 1
          BY <3>2
        <4>2. MIN_TICK_INDEX <= f
          BY <1>6, <1>9, <3>2
        <4> HIDE DEF e
        <4>3. f = IF S[i] + K > MAX_TICK_INDEX THEN MAX_TICK_INDEX ELSE S[i] + K - 1
          BY <1>14, <2>1, <3>2
        <4>4. S[i] + K > MAX_TICK_INDEX \/ i = n
          BY <1>14, <2>1, <2>2, <3>2
        <4>5. S[i] <= S[n]
          BY <2>3, <3>2
        <4>6. /\ next = IF e > MAX_TICK_INDEX THEN MAX_TICK_INDEX
                        ELSE IF e < MIN_TICK_INDEX THEN MIN_TICK_INDEX ELSE e
              /\ f \in Int /\ S[i] \in Int /\ S[n] \in Int /\ e \in Int
          BY <1>6, <1>7, <2>3, <2>4, <2>5
        <4>7. CASE S[i] + K > MAX_TICK_INDEX
          BY <1>9, <4>1, <4>3, <4>5, <4>6, <4>7
        <4>8. CASE ~(S[i] + K > MAX_TICK_INDEX)
          <5>1. S[i] = S[n] /\ f = S[i] + K - 1
            BY <4>3, <4>4, <4>8
          <5>2. f = e
            BY <4>1, <5>1
          <5> QED BY <1>9, <4>2, <4>6, <4>8, <5>1, <5>2
        <4> QED BY <4>7, <4>8
      <3> QED BY <3>1, <3>2
    <2> QED BY <1>5, <1>7, <2>7 DEF i, f
  <1> QED BY <1>15, <1>16

-----------------------------------------------------------------------------
(* The array a swap goes on in. *)

LEMMA HoldsBegins ==
    ASSUME NEW S, NEW left \in BOOLEAN, InOrder(S, left), NEW t \in Int, NEW i \in 1..Len(S)
    PROVE  /\ SearchFrom(t, left) \in Int
           /\ Holds(S[i], SearchFrom(t, left)) <=> Begins(S, t, i, left)
  <1>1. S[i] \in Int
    BY OrderedArrays
  <1>2. TickSpacing \in Nat \ {0} /\ K \in Nat \ {0} /\ TicksInArray(TickSpacing) = K
    BY SpacingAssumption, SizeOfArray DEF K
  <1>3. CASE left
    <2>1. SearchFrom(t, left) = t
      BY <1>3 DEF SearchFrom
    <2>2. Begins(S, t, i, left) <=> S[i] <= t /\ t < S[i] + K
      BY <1>1, <1>2, <1>3 DEF Begins, in_search_range
    <2> QED BY <2>1, <2>2 DEF Holds
  <1>4. CASE ~left
    <2>1. SearchFrom(t, left) = t + TickSpacing
      BY <1>4 DEF SearchFrom
    <2>2. Begins(S, t, i, left) <=> S[i] - TickSpacing <= t /\ t < S[i] + K - TickSpacing
      BY <1>1, <1>2, <1>4 DEF Begins, in_search_range
    <2> QED BY <1>1, <1>2, <2>1, <2>2 DEF Holds
  <1> QED BY <1>3, <1>4

\* A swap goes on in the sequence where it can begin in one of its arrays.
LEMMA SequenceBegins ==
    ASSUME NEW S, NEW left \in BOOLEAN, InOrder(S, left), NEW t \in Int
    PROVE  InSequence(S, SearchFrom(t, left)) <=> \E j \in 1..Len(S) : Begins(S, t, j, left)
  <1>1. SearchFrom(t, left) \in Int
    BY SpacingAssumption DEF SearchFrom
  <1>2. InSequence(S, SearchFrom(t, left)) <=> \E i \in 1..Len(S) : Holds(S[i], SearchFrom(t, left))
    BY <1>1, InSequenceHolds
  <1> QED BY <1>2, HoldsBegins

LEMMA Advance ==
    ASSUME NEW S, NEW left \in BOOLEAN, InOrder(S, left), NEW next \in Int, OnGrid(next),
           NEW i \in 1..Len(S), Holds(S[i], next),
           NEW t \in Int, t = (IF left THEN next - 1 ELSE next), InSequence(S, SearchFrom(t, left))
    PROVE  Begins(S, t, ArrayAfter(S[i], i, next, TickSpacing, left), left)
  <1> DEFINE n == Len(S)
             x == SearchFrom(t, left)
             o == tick_offset(S[i], next, TickSpacing)
  <1>1. /\ n \in Nat /\ \A h \in 1..n : S[h] \in Int /\ OnGrid(S[h])
        /\ \A h, k \in 1..n : h < k => IF left THEN S[k] + K <= S[h] ELSE S[h] + K <= S[k]
        /\ \A h \in 1..n - 1 : S[h + 1] = IF left THEN S[h] - K ELSE S[h] + K
    BY OrderedArrays
  <1>2. TickSpacing \in Nat \ {0} /\ K \in Nat \ {0} /\ K >= TickSpacing
        /\ K = TICK_ARRAY_SIZE * TickSpacing /\ TICK_ARRAY_SIZE \in Nat \ {0}
    BY SpacingAssumption, SizeOfArray, TickArrayAssumption
  <1>3. PICK j \in 1..n : Begins(S, t, j, left)
    BY SequenceBegins
  <1>4. Holds(S[j], x) /\ x \in Int
    BY <1>3, HoldsBegins
  <1>5. x = IF left THEN next - 1 ELSE next + TickSpacing
    BY DEF SearchFrom
  <1>6. S[i] \in Int /\ S[j] \in Int /\ i \in Int /\ j \in Int /\ i <= n /\ j <= n /\ 1 <= i /\ 1 <= j
    BY <1>1, <1>3
  <1>7. o \in Int /\ \A h \in Int : h <= o <=> S[i] + h * TickSpacing <= next
    BY <1>6, OffsetOrders
  <1> HIDE DEF n, x, o
  <1>8. CASE left
    <2>0. 0 * TickSpacing = 0 /\ 1 * TickSpacing = TickSpacing
      BY <1>2
    <2>1. 0 <= o
      <3>1. 0 <= o <=> S[i] + 0 * TickSpacing <= next
        BY <1>7
      <3> QED BY <1>6, <2>0, <3>1 DEF Holds
    <2>2. o = 0 <=> next < S[i] + TickSpacing
      <3>1. 1 <= o <=> S[i] + TickSpacing <= next
        <4>1. 1 <= o <=> S[i] + 1 * TickSpacing <= next
          BY <1>7
        <4> QED BY <2>0, <4>1
      <3> QED BY <1>2, <1>6, <1>7, <2>1, <3>1
    <2>3. CASE o = 0
      <3>1. next = S[i]
        <4>1. next - TickSpacing < S[i]
          BY <1>2, <1>6, <2>2, <2>3
        <4>2. next <= S[i]
          BY <1>1, <1>6, <4>1, GridStep DEF n
        <4> QED BY <1>6, <4>2 DEF Holds
      <3>2. x = S[i] - 1
        BY <1>5, <1>8, <3>1
      <3>3. ~(j < i)
        BY <1>1, <1>2, <1>4, <1>6, <1>8, <3>2 DEF Holds
      <3>4. j # i
        BY <1>4, <1>6, <3>2 DEF Holds
      <3>5. ~(i + 1 < j)
        <4> SUFFICES ASSUME i + 1 < j PROVE FALSE
          OBVIOUS
        <4>1. i \in 1..n - 1 /\ i + 1 \in 1..n
          BY <1>1, <1>6
        <4>2. S[i + 1] = S[i] - K /\ S[j] + K <= S[i + 1]
          BY <1>1, <1>3, <1>8, <4>1
        <4> QED BY <1>2, <1>4, <1>6, <3>2, <4>2 DEF Holds
      <3>6. j = i + 1
        BY <1>6, <3>3, <3>4, <3>5
      <3> QED BY <1>3, <1>8, <2>3, <3>6 DEF ArrayAfter, o
    <2>4. CASE o # 0
      <3>1. S[i] <= x /\ x < S[i] + K
        BY <1>2, <1>5, <1>6, <1>8, <2>2, <2>4 DEF Holds
      <3>2. Begins(S, t, i, left)
        BY <3>1, HoldsBegins DEF Holds, x
      <3> QED BY <1>8, <2>4, <3>2 DEF ArrayAfter, o
    <2> QED BY <2>3, <2>4
  <1>9. CASE ~left
    <2> DEFINE l == TICK_ARRAY_SIZE - 1
    <2>1. l \in Int /\ l * TickSpacing = K - TickSpacing
      BY <1>2
    <2>2. o <= l
      <3>1. (l + 1) * TickSpacing = K /\ l + 1 \in Int
        BY <1>2
      <3> HIDE DEF l
      <3>2. ~(l + 1 <= o)
        BY <1>2, <1>6, <1>7, <3>1, SMTT(60) DEF Holds
      <3> QED BY <1>7, <2>1, <3>2
    <2> HIDE DEF l
    <2>3. o = l <=> S[i] + K - TickSpacing <= next
      <3>1. l <= o <=> S[i] + K - TickSpacing <= next
        BY <1>2, <1>6, <1>7, <2>1
      <3> QED BY <1>7, <2>1, <2>2, <3>1
    <2>4. CASE o = l
      <3>1. S[i] + K <= x /\ x < S[i] + K + TickSpacing
        BY <1>2, <1>5, <1>6, <1>9, <2>3, <2>4 DEF Holds
      <3>2. ~(j < i)
        BY <1>1, <1>2, <1>4, <1>6, <1>9, <3>1 DEF Holds
      <3>3. j # i
        BY <1>2, <1>4, <1>6, <3>1 DEF Holds
      <3>4. ~(i + 1 < j)
        <4> SUFFICES ASSUME i + 1 < j PROVE FALSE
          OBVIOUS
        <4>1. i \in 1..n - 1 /\ i + 1 \in 1..n
          BY <1>1, <1>6
        <4>2. S[i + 1] = S[i] + K /\ S[i + 1] + K <= S[j]
          BY <1>1, <1>3, <1>9, <4>1
        <4> QED BY <1>2, <1>4, <1>6, <3>1, <4>2, SMTT(60) DEF Holds
      <3>5. j = i + 1
        BY <1>6, <3>2, <3>3, <3>4
      <3> QED BY <1>3, <1>9, <2>4, <3>5 DEF ArrayAfter, o, l
    <2>5. CASE o # l
      <3>1. S[i] <= x /\ x < S[i] + K
        BY <1>2, <1>5, <1>6, <1>9, <2>3, <2>5 DEF Holds
      <3>2. Begins(S, t, i, left)
        BY <3>1, HoldsBegins DEF Holds, x
      <3> QED BY <1>9, <2>5, <3>2 DEF ArrayAfter, o, l
    <2> QED BY <2>4, <2>5
  <1> QED BY <1>8, <1>9

-----------------------------------------------------------------------------
(* Liquidity between initialised ticks. *)

LEMMA DepthTyped ==
    ASSUME NEW p, NEW depth, NEW below, RealPool(p, depth, below)
    PROVE  /\ DOMAIN p.net \subseteq Usable
           /\ \A t \in MIN_TICK_INDEX - 1..MAX_TICK_INDEX :
                  depth[t] \in U128 /\ depth[t] \in Nat /\ depth[t] \in Int
           /\ \A t \in MIN_TICK_INDEX..MAX_TICK_INDEX :
                  /\ below[t] \in Nat /\ below[t] \in Int
                  /\ t \in DOMAIN p.net => p.net[t] \in Int /\ depth[t] = depth[t - 1] + p.net[t]
                  /\ t \notin DOMAIN p.net => depth[t] = depth[t - 1]
           /\ \A t \in MIN_TICK_INDEX + 1..MAX_TICK_INDEX :
                  below[t] = below[t - 1] + depth[t - 1] * (SqrtPrice[t] - SqrtPrice[t - 1])
  <1>1. /\ DOMAIN p.net \subseteq Usable /\ p.net \in [DOMAIN p.net -> Int]
        /\ depth \in [MIN_TICK_INDEX - 1..MAX_TICK_INDEX -> U128]
        /\ below \in [MIN_TICK_INDEX..MAX_TICK_INDEX -> Nat]
        /\ \A t \in MIN_TICK_INDEX..MAX_TICK_INDEX :
               depth[t] = depth[t - 1] + (IF t \in DOMAIN p.net THEN p.net[t] ELSE 0)
    BY Zenon DEF RealPool
  <1>2. \A t \in MIN_TICK_INDEX + 1..MAX_TICK_INDEX :
            below[t] = below[t - 1] + depth[t - 1] * (SqrtPrice[t] - SqrtPrice[t - 1])
    BY Zenon DEF RealPool
  <1>3. \A t \in MIN_TICK_INDEX - 1..MAX_TICK_INDEX :
            depth[t] \in U128 /\ depth[t] \in Nat /\ depth[t] \in Int
    BY <1>1, Unsigned
  <1>4. \A t \in MIN_TICK_INDEX..MAX_TICK_INDEX :
            /\ below[t] \in Nat /\ below[t] \in Int
            /\ t \in DOMAIN p.net => p.net[t] \in Int /\ depth[t] = depth[t - 1] + p.net[t]
            /\ t \notin DOMAIN p.net => depth[t] = depth[t - 1]
    <2> TAKE t \in MIN_TICK_INDEX..MAX_TICK_INDEX
    <2>1. t - 1 \in MIN_TICK_INDEX - 1..MAX_TICK_INDEX
      BY TickIndexAssumption
    <2> QED BY <1>1, <1>3, <2>1
  <1> QED BY <1>1, <1>2, <1>3, <1>4

LEMMA DepthConstant ==
    ASSUME NEW p, NEW depth, NEW below, RealPool(p, depth, below),
           NEW s \in MIN_TICK_INDEX - 1..MAX_TICK_INDEX, NEW t \in s..MAX_TICK_INDEX,
           \A u \in DOMAIN p.net : ~(s < u /\ u <= t)
    PROVE  depth[t] = depth[s]
  <1> USE TickIndexAssumption
  <1> DEFINE D == {i \in 0..t - s : depth[s + i] # depth[s]}
  <1>1. D = {}
    <2> SUFFICES ASSUME D # {} PROVE FALSE
      OBVIOUS
    <2>1. D \subseteq Nat
      OBVIOUS
    <2> DEFINE m == Min(D)
    <2>2. m \in D /\ \A i \in D : m <= i
      BY <2>1, LeastOne
    <2> HIDE DEF m
    <2>3. m \in 0..t - s /\ depth[s + m] # depth[s]
      BY <2>2
    <2>4. m # 0
      BY <2>3
    <2>5. m - 1 \in 0..t - s /\ m - 1 \notin D
      BY <2>2, <2>3, <2>4
    <2>6. depth[s + (m - 1)] = depth[s]
      BY <2>5
    <2> DEFINE v == s + m
    <2>7. v \in MIN_TICK_INDEX..MAX_TICK_INDEX /\ v - 1 = s + (m - 1) /\ s < v /\ v <= t
      BY <2>3, <2>4
    <2> HIDE DEF v
    <2>8. v \notin DOMAIN p.net
      BY <2>7
    <2>9. depth[v] = depth[v - 1]
      BY <2>7, <2>8, DepthTyped
    <2> QED BY <2>3, <2>6, <2>7, <2>9 DEF v
  <1>2. t - s \in 0..t - s /\ s + (t - s) = t
    OBVIOUS
  <1>3. depth[s + (t - s)] = depth[s]
    <2>1. t - s \notin D
      BY <1>1
    <2> QED BY <1>2, <2>1
  <1> QED BY <1>2, <1>3

\* Between initialised ticks, what is held of b grows by the liquidity at each price.
LEMMA BelowLinear ==
    ASSUME NEW p, NEW depth, NEW below, RealPool(p, depth, below),
           NEW s \in MIN_TICK_INDEX..MAX_TICK_INDEX, NEW t \in s..MAX_TICK_INDEX,
           \A u \in DOMAIN p.net : ~(s < u /\ u <= t)
    PROVE  below[t] = below[s] + depth[s] * (SqrtPrice[t] - SqrtPrice[s])
  <1> USE TickIndexAssumption
  <1> DEFINE R(i) == below[s + i] = below[s] + depth[s] * (SqrtPrice[s + i] - SqrtPrice[s])
             D == {i \in 0..t - s : ~R(i)}
  <1>1. \A v \in MIN_TICK_INDEX..MAX_TICK_INDEX : below[v] \in Int /\ depth[v] \in Int /\ SqrtPrice[v] \in Int
    BY DepthTyped, TickPrices
  <1>2. D = {}
    <2> SUFFICES ASSUME D # {} PROVE FALSE
      OBVIOUS
    <2>1. D \subseteq Nat
      OBVIOUS
    <2> DEFINE m == Min(D)
    <2>2. m \in D /\ \A i \in D : m <= i
      <3> HIDE DEF R
      <3> QED BY <2>1, LeastOne
    <2> HIDE DEF m
    <2>3. m \in 0..t - s /\ ~R(m)
      BY <2>2
    <2>4. m # 0
      <3>1. R(0)
        <4>1. s + 0 = s /\ below[s] \in Int /\ depth[s] \in Int /\ SqrtPrice[s] \in Int
          BY <1>1
        <4>2. depth[s] * (SqrtPrice[s] - SqrtPrice[s]) = 0
          BY <4>1
        <4> QED BY <4>1, <4>2
      <3> QED BY <2>3, <3>1
    <2> HIDE DEF R
    <2>5. m - 1 \in 0..t - s /\ m - 1 \notin D
      BY <2>2, <2>3, <2>4
    <2>6. R(m - 1)
      BY <2>5
    <2> DEFINE v == s + m
    <2>7. v \in MIN_TICK_INDEX + 1..MAX_TICK_INDEX /\ v - 1 = s + (m - 1) /\ s < v /\ v <= t
          /\ v \in MIN_TICK_INDEX..MAX_TICK_INDEX /\ v - 1 \in MIN_TICK_INDEX..MAX_TICK_INDEX
      BY <2>3, <2>4
    <2> HIDE DEF v
    <2>8. below[v - 1] = below[s] + depth[s] * (SqrtPrice[v - 1] - SqrtPrice[s])
      BY <2>6, <2>7 DEF R
    <2>9. depth[v - 1] = depth[s]
      <3>1. v - 1 \in s..MAX_TICK_INDEX /\ \A u \in DOMAIN p.net : ~(s < u /\ u <= v - 1)
        <4>1. \A u \in DOMAIN p.net : u \in Int
          BY DepthTyped, UsableOnGrid
        <4> QED BY <2>7, <4>1
      <3>2. s \in MIN_TICK_INDEX - 1..MAX_TICK_INDEX
        OBVIOUS
      <3> QED BY <3>1, <3>2, DepthConstant
    <2>10. below[v] = below[v - 1] + depth[v - 1] * (SqrtPrice[v] - SqrtPrice[v - 1])
      BY <2>7, DepthTyped
    <2> DEFINE a == SqrtPrice[v]
               b == SqrtPrice[v - 1]
               c == SqrtPrice[s]
               d == depth[s]
    <2>11. a \in Int /\ b \in Int /\ c \in Int /\ d \in Int /\ below[s] \in Int
      BY <1>1, <2>7
    <2>12. below[v] = below[s] + d * (b - c) + d * (a - b)
      BY <2>8, <2>9, <2>10
    <2> HIDE DEF a, b, c, d
    <2>13. d * (b - c) + d * (a - b) = d * (a - c) /\ d * (b - c) \in Int /\ d * (a - b) \in Int
      BY <2>11
    <2>14. below[v] = below[s] + d * (a - c)
      <3> DEFINE e == d * (b - c)
                 f == d * (a - b)
                 g == d * (a - c)
      <3>1. e + f = g /\ e \in Int /\ f \in Int /\ below[v] = below[s] + e + f
        BY <2>12, <2>13
      <3> HIDE DEF e, f, g
      <3>2. below[v] = below[s] + g
        BY <2>11, <3>1
      <3> QED BY <3>2 DEF g
    <2> QED BY <2>3, <2>14 DEF R, v, a, c, d
  <1> HIDE DEF R
  <1>3. t - s \in 0..t - s /\ s + (t - s) = t
    OBVIOUS
  <1>4. R(t - s)
    BY <1>2, <1>3
  <1> QED BY <1>3, <1>4 DEF R

-----------------------------------------------------------------------------
(* The arithmetic of the SDK against that of the program. *)

LEMMA MaxPrice ==
    /\ MAX_SQRT_PRICE_X64 \in Nat \ {0} /\ MAX_SQRT_PRICE_X64 \in Int
    /\ MIN_SQRT_PRICE_X64 \in Nat \ {0} /\ MIN_SQRT_PRICE_X64 \in Int
    /\ MIN_SQRT_PRICE_X64 <= MAX_SQRT_PRICE_X64 /\ MAX_SQRT_PRICE_X64 <= U128MAX
    /\ \A p \in 1..MAX_SQRT_PRICE_X64 : p \in Nat \ {0} /\ p \in Int /\ p <= U128MAX
  <1>1. MAX_TICK_INDEX \in MIN_TICK_INDEX..MAX_TICK_INDEX /\ MIN_TICK_INDEX \in MIN_TICK_INDEX..MAX_TICK_INDEX
    BY TickIndexAssumption
  <1>2. /\ MAX_SQRT_PRICE_X64 \in 1..U128MAX /\ MAX_SQRT_PRICE_X64 \in Nat \ {0}
        /\ MIN_SQRT_PRICE_X64 \in Nat \ {0}
    BY <1>1, TickPrices DEF MAX_SQRT_PRICE_X64, MIN_SQRT_PRICE_X64
  <1>3. MIN_SQRT_PRICE_X64 <= MAX_SQRT_PRICE_X64
    BY <1>1, TickIndexAssumption, PriceOrder DEF MAX_SQRT_PRICE_X64, MIN_SQRT_PRICE_X64
  <1> QED BY <1>2, <1>3, Widths

\* Prices are low enough that an amount that is too long to compute is also too large.
LEMMA DeltaAAgrees ==
    ASSUME NEW p \in 1..MAX_SQRT_PRICE_X64, NEW q \in 1..MAX_SQRT_PRICE_X64, NEW L \in Nat,
           NEW up \in BOOLEAN, getAmountDeltaA(p, q, L, up) # Err
    PROVE  /\ get_amount_delta_a(p, q, L, up) = getAmountDeltaA(p, q, L, up)
           /\ getAmountDeltaA(p, q, L, up) \in U64
  <1> DEFINE top == MAX_SQRT_PRICE_X64
             N == L * PriceGap(p, q) * WORD
             d == p * q
             D == DivRound(N, d, up)
             cube == WORD * WORD * WORD
  <1>1. top \in Nat \ {0} /\ top * top <= cube /\ cube \in Nat /\ WORD \in Nat \ {0} /\ U64MAX = WORD - 1
    <2>1. MAX_TICK_INDEX \in MIN_TICK_INDEX..MAX_TICK_INDEX
      BY TickIndexAssumption
    <2>2. top \in Nat \ {0}
      BY <2>1, TickPrices DEF MAX_SQRT_PRICE_X64
    <2> QED BY <2>2, PriceWidthAssumption, WordAssumption DEF MAX_SQRT_PRICE_X64, U64MAX
  <1> HIDE DEF top
  <1>2. p \in Nat \ {0} /\ q \in Nat \ {0} /\ p <= top /\ q <= top
    BY <1>1 DEF top
  <1>3. d \in Nat \ {0}
    BY <1>2, ProductPositive
  <1>4. N \in Nat
    BY <1>1, <1>2, GapNat, ProductNat
  <1>5. d <= cube
    <2>1. p * q <= top * q /\ q * top <= top * top
      BY <1>1, <1>2, ProductMonotone
    <2>2. top * q = q * top /\ q * top \in Int /\ top * top \in Int
      BY <1>1, <1>2
    <2> HIDE DEF cube
    <2>3. d \in Int /\ cube \in Int
      BY <1>1, <1>3
    <2> QED BY <1>1, <2>1, <2>2, <2>3
  <1>6. U256MAX = cube * WORD - 1
    BY DEF U256MAX
  <1>0. getAmountDeltaA(p, q, L, up) = IF d = 0 \/ D > U64MAX THEN Err ELSE D
    BY DEF getAmountDeltaA
  <1> HIDE DEF N, d, D, cube
  <1>7. getAmountDeltaA(p, q, L, up) = D /\ ~(D > U64MAX)
    BY <1>0
  <1>8. D \in Nat /\ (WORD * d <= N => WORD <= D)
    BY <1>1, <1>3, <1>4, Rounding DEF D
  <1>9. ~(N > U256MAX)
    <2> SUFFICES ASSUME N > U256MAX PROVE FALSE
      OBVIOUS
    <2>1. d * WORD <= cube * WORD /\ d * WORD = WORD * d /\ cube * WORD \in Int /\ d * WORD \in Int
      BY <1>1, <1>3, <1>5, ProductMonotone
    <2>2. cube * WORD <= N
      BY <1>4, <1>6, <2>1
    <2>3. WORD * d <= N
      BY <1>4, <2>1, <2>2
    <2> QED BY <1>1, <1>7, <1>8, <2>3
  <1>10. get_amount_delta_a(p, q, L, up) = IF N > U256MAX \/ d = 0 THEN Err ELSE Checked(D, U64MAX)
    BY DEF get_amount_delta_a, N, d, D
  <1>11. Checked(D, U64MAX) = D
    BY <1>1, <1>7, <1>8 DEF Checked
  <1>12. D \in U64
    BY <1>1, <1>7, <1>8 DEF U64
  <1> QED BY <1>3, <1>7, <1>9, <1>10, <1>11, <1>12

LEMMA DeltaBAgrees ==
    ASSUME NEW p \in Nat, NEW q \in Nat, NEW L \in Nat, NEW down, down = FALSE,
           getAmountDeltaB(p, q, L, down) # Err
    PROVE  /\ get_amount_delta_b(p, q, L, down) = getAmountDeltaB(p, q, L, down)
           /\ getAmountDeltaB(p, q, L, down) \in U64
  <1> DEFINE g == PriceGap(p, q)
             n == L * g
             r == n \div WORD
  <1>1. g \in Nat
    BY GapNat
  <1> HIDE DEF g
  <1>2. n \in Nat /\ WORD \in Nat \ {0} /\ U64MAX = WORD - 1 /\ U128MAX = WORD * WORD - 1
    BY <1>1, WordAssumption DEF U64MAX, U128MAX
  <1>3. getAmountDeltaB(p, q, L, down) = IF L = 0 \/ g = 0 THEN 0 ELSE IF n > U128MAX THEN Err ELSE r
    BY DEF getAmountDeltaB, mulShiftRightRoundUpIf, g
  <1>4. n \in Int /\ (L = 0 \/ g = 0 => n = 0)
    BY <1>1
  <1> HIDE DEF n
  <1>5. DivRound(n, WORD, down) = r /\ r \in Nat
    BY <1>2 DEF DivRound
  <1> HIDE DEF r
  <1>6. r * WORD <= n
    BY <1>2, <1>5, RoundedDown
  <1>7. get_amount_delta_b(p, q, L, down) = IF n > U128MAX THEN Err ELSE Checked(r, U64MAX)
    BY <1>5 DEF get_amount_delta_b, checked_mul_shift_right_round_up_if, g, n
  <1>8. ASSUME ~(n > U128MAX) PROVE r <= U64MAX
    <2>1. WORD * WORD \in Int /\ r * WORD \in Int
      BY <1>2, <1>5
    <2>2. r * WORD < WORD * WORD
      <3> DEFINE a == r * WORD
                 b == WORD * WORD
      <3>1. a \in Int /\ b \in Int /\ a <= n /\ U128MAX = b - 1
        BY <1>2, <1>6, <2>1
      <3> HIDE DEF a, b
      <3>2. a < b
        BY <1>2, <1>8, <3>1
      <3> QED BY <3>2 DEF a, b
    <2>3. r < WORD
      BY <1>2, <1>5, <2>2, ProductOrder
    <2> QED BY <1>2, <1>5, <2>3
  <1>9. CASE L = 0 \/ g = 0
    <2>1. n = 0 /\ 0 \div WORD = 0
      BY <1>2, <1>4, <1>9
    <2>2. r = 0 /\ ~(n > U128MAX)
      BY <2>1, Widths DEF r
    <2>3. Checked(r, U64MAX) = 0
      BY <2>2, Widths DEF Checked
    <2> QED BY <1>3, <1>7, <1>9, <2>2, <2>3, Unsigned
  <1>10. CASE ~(L = 0 \/ g = 0)
    <2>1. ~(n > U128MAX)
      BY <1>3, <1>10
    <2>2. r <= U64MAX /\ Checked(r, U64MAX) = r /\ r \in U64
      BY <1>2, <1>5, <1>8, <2>1 DEF Checked, U64
    <2> QED BY <1>3, <1>7, <1>10, <2>1, <2>2
  <1> QED BY <1>9, <1>10

LEMMA DeltaBDown ==
    ASSUME NEW p \in Nat, NEW q \in Nat, NEW L \in Nat, getAmountDeltaB(p, q, L, FALSE) # Err
    PROVE  /\ get_amount_delta_b(p, q, L, FALSE) = getAmountDeltaB(p, q, L, FALSE)
           /\ getAmountDeltaB(p, q, L, FALSE) \in U64
  <1> DEFINE down == FALSE
  <1>1. down = FALSE /\ getAmountDeltaB(p, q, L, down) # Err
    OBVIOUS
  <1> HIDE DEF down
  <1>2. /\ get_amount_delta_b(p, q, L, down) = getAmountDeltaB(p, q, L, down)
        /\ getAmountDeltaB(p, q, L, down) \in U64
    BY <1>1, DeltaBAgrees
  <1> QED BY <1>2 DEF down

LEMMA DeltaBTyped ==
    ASSUME NEW p \in Nat, NEW q \in Nat, NEW L \in Nat, NEW up \in BOOLEAN,
           getAmountDeltaB(p, q, L, up) # Err
    PROVE  getAmountDeltaB(p, q, L, up) \in Nat
  <1> DEFINE g == PriceGap(p, q)
             r == (L * g) \div WORD
  <1>1. g \in Nat
    BY GapNat
  <1>2. r \in Nat
    <2> DEFINE n == L * g
    <2>1. n \in Nat
      BY <1>1, ProductNat
    <2> HIDE DEF n, g
    <2>2. n \div WORD \in Nat
      BY <2>1, WordAssumption
    <2> QED BY <2>2 DEF n
  <1>3. getAmountDeltaB(p, q, L, up) \in {0, Err, r, r + 1}
    BY DEF getAmountDeltaB, mulShiftRightRoundUpIf
  <1> HIDE DEF r
  <1> QED BY <1>2, <1>3

LEMMA FixedAgrees ==
    ASSUME NEW p \in 1..MAX_SQRT_PRICE_X64, NEW q \in 1..MAX_SQRT_PRICE_X64, NEW L \in Nat,
           NEW isInput \in BOOLEAN, NEW aToB \in BOOLEAN, aToB \/ ~isInput,
           getAmountFixedDelta(p, q, L, isInput, aToB) # Err
    PROVE  /\ get_amount_fixed_delta(p, q, L, isInput, aToB) = getAmountFixedDelta(p, q, L, isInput, aToB)
           /\ getAmountFixedDelta(p, q, L, isInput, aToB) \in U64
  <1> DEFINE sdk == getAmountFixedDelta(p, q, L, isInput, aToB)
             program == get_amount_fixed_delta(p, q, L, isInput, aToB)
  <1>1. p \in Nat /\ q \in Nat
    BY MaxPrice
  <1>2. CASE aToB = isInput
    <2>1. sdk = getAmountDeltaA(p, q, L, isInput) /\ program = get_amount_delta_a(p, q, L, isInput)
      BY <1>2 DEF getAmountFixedDelta, get_amount_fixed_delta
    <2> QED BY <2>1, DeltaAAgrees
  <1>3. CASE aToB # isInput
    <2>1. sdk = getAmountDeltaB(p, q, L, FALSE) /\ program = get_amount_delta_b(p, q, L, FALSE)
      BY <1>3 DEF getAmountFixedDelta, get_amount_fixed_delta
    <2>2. sdk # Err
      OBVIOUS
    <2> HIDE DEF sdk, program
    <2>3. program = sdk /\ sdk \in U64
      BY <1>1, <2>1, <2>2, DeltaBDown
    <2> QED BY <2>3 DEF sdk, program
  <1> QED BY <1>2, <1>3

LEMMA UnfixedAgrees ==
    ASSUME NEW p \in 1..MAX_SQRT_PRICE_X64, NEW q \in 1..MAX_SQRT_PRICE_X64, NEW L \in Nat,
           NEW isInput \in BOOLEAN, NEW aToB \in BOOLEAN,
           getAmountUnfixedDelta(p, q, L, isInput, aToB) # Err
    PROVE  /\ getAmountUnfixedDelta(p, q, L, isInput, aToB) \in Nat
           /\ aToB => /\ get_amount_unfixed_delta(p, q, L, isInput, aToB)
                           = getAmountUnfixedDelta(p, q, L, isInput, aToB)
                      /\ getAmountUnfixedDelta(p, q, L, isInput, aToB) \in U64
  <1> DEFINE sdk == getAmountUnfixedDelta(p, q, L, isInput, aToB)
             program == get_amount_unfixed_delta(p, q, L, isInput, aToB)
             up == ~isInput
  <1>1. p \in Nat /\ q \in Nat /\ U64 \subseteq Nat /\ up \in BOOLEAN
    BY MaxPrice, Widths
  <1>2. CASE aToB = isInput
    <2>1. sdk = getAmountDeltaB(p, q, L, up) /\ program = get_amount_delta_b(p, q, L, up)
      BY <1>2 DEF getAmountUnfixedDelta, get_amount_unfixed_delta
    <2>2. aToB => /\ sdk = getAmountDeltaB(p, q, L, FALSE)
                   /\ program = get_amount_delta_b(p, q, L, FALSE)
      BY <1>2 DEF getAmountUnfixedDelta, get_amount_unfixed_delta
    <2>0. sdk # Err
      OBVIOUS
    <2> HIDE DEF up, sdk, program
    <2>3. sdk \in Nat
      BY <1>1, <2>0, <2>1, DeltaBTyped
    <2>4. aToB => program = sdk /\ sdk \in U64
      BY <1>1, <2>0, <2>2, DeltaBDown
    <2> QED BY <2>3, <2>4 DEF sdk, program
  <1>3. CASE aToB # isInput
    <2>1. sdk = getAmountDeltaA(p, q, L, up) /\ program = get_amount_delta_a(p, q, L, up)
      BY <1>3 DEF getAmountUnfixedDelta, get_amount_unfixed_delta
    <2> HIDE DEF up
    <2>2. program = sdk /\ sdk \in U64
      BY <1>1, <2>1, DeltaAAgrees
    <2> QED BY <1>1, <2>2
  <1> QED BY <1>2, <1>3

\* Short of the target, the SDK moves the price as the program does.
LEMMA NextAgrees ==
    ASSUME NEW p \in 1..MAX_SQRT_PRICE_X64, NEW t \in 1..MAX_SQRT_PRICE_X64, NEW L \in Nat,
           NEW m \in Nat, NEW isInput \in BOOLEAN, NEW aToB \in BOOLEAN, aToB \/ ~isInput,
           Towards(p, t, aToB), getAmountFixedDelta(p, t, L, isInput, aToB) # Err,
           m < getAmountFixedDelta(p, t, L, isInput, aToB),
           getNextSqrtPrice(p, L, m, isInput, aToB) # Err
    PROVE  get_next_sqrt_price(p, L, m, isInput, aToB) = getNextSqrtPrice(p, L, m, isInput, aToB)
  <1>1. p \in Nat /\ t \in Nat /\ p <= U128MAX
    BY MaxPrice
  <1>2. CASE isInput = aToB
    <2>1. /\ getNextSqrtPrice(p, L, m, isInput, aToB) = getNextSqrtPriceFromARoundUp(p, L, m, isInput)
          /\ get_next_sqrt_price(p, L, m, isInput, aToB)
               = get_next_sqrt_price_from_a_round_up(p, L, m, isInput)
      BY <1>2 DEF getNextSqrtPrice, get_next_sqrt_price
    <2> DEFINE num == L * p * WORD
               den == IF isInput THEN L * WORD + p * m ELSE L * WORD - p * m
               price == DivRound(num, den, TRUE)
    <2>2. getNextSqrtPriceFromARoundUp(p, L, m, isInput)
            = IF m = 0 THEN p
              ELSE IF p * m > U256MAX \/ num > U256MAX \/ den <= 0 THEN Err
              ELSE IF price < MIN_SQRT_PRICE_X64 \/ price > MAX_SQRT_PRICE_X64 THEN Err
              ELSE price
      BY DEF getNextSqrtPriceFromARoundUp
    <2>3. get_next_sqrt_price_from_a_round_up(p, L, m, isInput)
            = IF m = 0 THEN p
              ELSE IF num > U256MAX \/ den <= 0 THEN Err
              ELSE IF price < MIN_SQRT_PRICE_X64 \/ price > MAX_SQRT_PRICE_X64 THEN Err
              ELSE price
      BY DEF get_next_sqrt_price_from_a_round_up
    <2> HIDE DEF num, den, price
    <2> QED BY <2>1, <2>2, <2>3, Zenon
  <1>3. CASE isInput # aToB
    <2>1. aToB /\ ~isInput
      BY <1>3
    <2>2. /\ getNextSqrtPrice(p, L, m, isInput, aToB) = getNextSqrtPriceFromBRoundDown(p, L, m, FALSE)
          /\ get_next_sqrt_price(p, L, m, isInput, aToB)
               = get_next_sqrt_price_from_b_round_down(p, L, m, FALSE)
          /\ get_amount_fixed_delta(p, t, L, isInput, aToB) = get_amount_delta_b(p, t, L, FALSE)
      BY <2>1 DEF getNextSqrtPrice, get_next_sqrt_price, get_amount_fixed_delta
    <2> DEFINE n == m * WORD
               g == PriceGap(p, t)
               b == get_amount_delta_b(p, t, L, FALSE)
               d == DivRound(n, L, TRUE)
    <2>3. b \in U64 /\ m < b
      <3>1. /\ get_amount_fixed_delta(p, t, L, isInput, aToB) = getAmountFixedDelta(p, t, L, isInput, aToB)
            /\ getAmountFixedDelta(p, t, L, isInput, aToB) \in U64
        BY FixedAgrees
      <3> QED BY <2>2, <3>1
    <2>4. n < L * g
      <3>1. b # Err
        BY <2>3, Unsigned
      <3> QED BY <1>1, <2>3, <3>1, ComparedWithB
    <2>5. n \in Nat /\ g \in Nat /\ t <= p /\ g <= p
      <3>1. n \in Nat /\ g \in Nat
        BY <1>1, GapNat, ProductNat, Widths
      <3>2. t <= p
        BY <2>1 DEF Towards
      <3> QED BY <1>1, <3>1, <3>2 DEF PriceGap
    <2>6. L \in Nat \ {0}
      <3>1. L = 0 => L * g = 0
        BY <2>5
      <3> QED BY <2>4, <2>5, <3>1
    <2> HIDE DEF n, g, b
    <2>7. d \in Nat /\ d <= g
      <3>1. n <= g * L /\ g \in Int
        <4>1. g * L = L * g /\ L * g \in Int
          BY <2>5
        <4> QED BY <2>4, <2>5, <4>1
      <3> QED BY <2>5, <2>6, <3>1, RoundedBelow
    <2>8. /\ getNextSqrtPriceFromBRoundDown(p, L, m, FALSE) = IF d = Err THEN Err ELSE p - d
          /\ get_next_sqrt_price_from_b_round_down(p, L, m, FALSE)
               = IF d = Err THEN Err ELSE Checked(p - d, U128MAX)
      BY <2>6 DEF getNextSqrtPriceFromBRoundDown, get_next_sqrt_price_from_b_round_down,
                  divRoundUpIf, div_round_up_if, n
    <2> HIDE DEF d
    <2>9. Checked(p - d, U128MAX) = p - d
      BY <1>1, <2>5, <2>7, Widths DEF Checked
    <2> QED BY <2>2, <2>8, <2>9
  <1> QED BY <1>2, <1>3

\* A step of the SDK that succeeds, by the values it computes.
StepOf(in, out, next, fee) ==
    [error |-> FALSE, amount_in |-> in, amount_out |-> out, next_price |-> next, fee_amount |-> fee]

Quoted(c, remaining, L, p, t, isInput, aToB, toTarget, calc, next, unfixed, fixed, in, out, fee) ==
    /\ c = StepOf(in, out, next, fee)
    /\ toTarget = getAmountFixedDelta(p, t, L, isInput, aToB) /\ toTarget # Err
    /\ calc = amountCalc(remaining, FeeRate, isInput) /\ calc # Err
    /\ next = IF calc >= toTarget THEN t ELSE getNextSqrtPrice(p, L, calc, isInput, aToB)
    /\ next # Err
    /\ unfixed = getAmountUnfixedDelta(p, next, L, isInput, aToB) /\ unfixed # Err
    /\ fixed = getAmountFixedDelta(p, next, L, isInput, aToB) /\ fixed # Err
    /\ in = IF isInput THEN fixed ELSE unfixed
    /\ out = IF isInput THEN unfixed ELSE IF fixed > remaining THEN remaining ELSE fixed
    /\ IF isInput /\ next # t THEN fee = remaining - in
       ELSE /\ fee = mulDivRoundUpIf(in, FeeRate, FEE_RATE_MUL_VALUE - FeeRate, TRUE, U128MAX)
            /\ fee # Err

LEMMA SdkComputes ==
    ASSUME NEW remaining, NEW L, NEW p, NEW t, NEW isInput \in BOOLEAN, NEW aToB \in BOOLEAN, NEW c,
           c = computeSwapStep(remaining, FeeRate, L, p, t, isInput, aToB), ~c.error
    PROVE  \E toTarget, calc, next, unfixed, fixed, in, out, fee :
              Quoted(c, remaining, L, p, t, isInput, aToB,
                     toTarget, calc, next, unfixed, fixed, in, out, fee)
  <1> DEFINE toTarget == getAmountFixedDelta(p, t, L, isInput, aToB)
             calc == amountCalc(remaining, FeeRate, isInput)
             next == IF calc >= toTarget THEN t ELSE getNextSqrtPrice(p, L, calc, isInput, aToB)
             unfixed == getAmountUnfixedDelta(p, next, L, isInput, aToB)
             moved == getAmountFixedDelta(p, next, L, isInput, aToB)
             fixed == IF next = t THEN toTarget ELSE moved
             in == IF isInput THEN fixed ELSE unfixed
             out == IF isInput THEN unfixed
                    ELSE IF fixed > remaining THEN remaining ELSE fixed
             feeOfIn == mulDivRoundUpIf(in, FeeRate, FEE_RATE_MUL_VALUE - FeeRate, TRUE, U128MAX)
             allIsFee == isInput /\ ~(next = t)
             fee == IF allIsFee THEN remaining - in ELSE feeOfIn
  <1>1. c = IF \/ Err \in {toTarget, calc, next} \/ Err \in {unfixed, fixed}
               \/ ~allIsFee /\ feeOfIn = Err
            THEN StepError
            ELSE [error |-> FALSE, amount_in |-> in, amount_out |-> out,
                  next_price |-> next, fee_amount |-> fee]
    BY Zenon DEF computeSwapStep
  <1>2. fixed = moved
    BY Zenon
  <1>3. /\ in = IF isInput THEN fixed ELSE unfixed
        /\ out = IF isInput THEN unfixed ELSE IF fixed > remaining THEN remaining ELSE fixed
        /\ toTarget = getAmountFixedDelta(p, t, L, isInput, aToB)
        /\ calc = amountCalc(remaining, FeeRate, isInput)
        /\ next = IF calc >= toTarget THEN t ELSE getNextSqrtPrice(p, L, calc, isInput, aToB)
        /\ unfixed = getAmountUnfixedDelta(p, next, L, isInput, aToB)
        /\ fixed = getAmountFixedDelta(p, next, L, isInput, aToB)
        /\ feeOfIn = mulDivRoundUpIf(in, FeeRate, FEE_RATE_MUL_VALUE - FeeRate, TRUE, U128MAX)
    BY <1>2
  <1>4. fee = (IF allIsFee THEN remaining - in ELSE feeOfIn) /\ (allIsFee <=> isInput /\ next # t)
    OBVIOUS
  <1> HIDE DEF toTarget, calc, next, unfixed, moved, fixed, in, out, feeOfIn, allIsFee, fee
  <1>5. ~(\/ Err \in {toTarget, calc, next} \/ Err \in {unfixed, fixed}
          \/ ~allIsFee /\ feeOfIn = Err)
    <2>1. StepError.error
      BY DEF StepError
    <2> QED BY <1>1, <2>1, Zenon
  <1>6. /\ toTarget # Err /\ calc # Err /\ next # Err /\ unfixed # Err /\ fixed # Err
        /\ ~allIsFee => feeOfIn # Err
        /\ c = StepOf(in, out, next, fee)
    BY <1>1, <1>5, Zenon DEF StepOf
  <1>7. IF isInput /\ next # t THEN fee = remaining - in
        ELSE /\ fee = mulDivRoundUpIf(in, FeeRate, FEE_RATE_MUL_VALUE - FeeRate, TRUE, U128MAX)
             /\ fee # Err
    BY <1>3, <1>4, <1>6, Zenon
  <1>8. Quoted(c, remaining, L, p, t, isInput, aToB,
               toTarget, calc, next, unfixed, fixed, in, out, fee)
    BY <1>3, <1>6, <1>7, Zenon DEF Quoted
  <1> QED BY <1>8, Zenon

\* The step of the program, when all that it computes is known.
Prepared(remaining, L, p, t, isInput, aToB, toTarget, calc, next, unfixed, fixed, in, out, fee) ==
    /\ toTarget = get_amount_fixed_delta(p, t, L, isInput, aToB) /\ toTarget # Err
    /\ calc = AmountCalc(remaining, FeeRate, isInput) /\ calc # Err
    /\ next = NextPrice(calc, toTarget, L, p, t, isInput, aToB) /\ next # Err
    /\ unfixed = get_amount_unfixed_delta(p, next, L, isInput, aToB) /\ unfixed # Err
    /\ fixed = get_amount_fixed_delta(p, next, L, isInput, aToB) /\ fixed # Err
    /\ in = IF isInput THEN fixed ELSE unfixed
    /\ out = IF isInput THEN unfixed ELSE IF fixed > remaining THEN remaining ELSE fixed
    /\ fee = StepFee(remaining, in, FeeRate, isInput, next = t) /\ fee # Err

LEMMA ProgramComputes ==
    ASSUME NEW remaining, NEW L, NEW p, NEW t, NEW isInput \in BOOLEAN, NEW aToB \in BOOLEAN,
           NEW toTarget, NEW calc, NEW next, NEW unfixed, NEW fixed, NEW in, NEW out, NEW fee,
           Prepared(remaining, L, p, t, isInput, aToB,
                    toTarget, calc, next, unfixed, fixed, in, out, fee)
    PROVE  compute_swap(remaining, FeeRate, L, p, t, isInput, aToB) = StepOf(in, out, next, fee)
  <1>0. /\ toTarget = get_amount_fixed_delta(p, t, L, isInput, aToB) /\ toTarget # Err
        /\ calc = AmountCalc(remaining, FeeRate, isInput) /\ calc # Err
        /\ next = NextPrice(calc, toTarget, L, p, t, isInput, aToB) /\ next # Err
        /\ unfixed = get_amount_unfixed_delta(p, next, L, isInput, aToB) /\ unfixed # Err
        /\ fixed = get_amount_fixed_delta(p, next, L, isInput, aToB) /\ fixed # Err
        /\ in = (IF isInput THEN fixed ELSE unfixed)
        /\ out = (IF isInput THEN unfixed ELSE IF fixed > remaining THEN remaining ELSE fixed)
        /\ fee = StepFee(remaining, in, FeeRate, isInput, next = t) /\ fee # Err
    BY Zenon DEF Prepared
  <1> DEFINE toTarget1 == get_amount_fixed_delta(p, t, L, isInput, aToB)
             calc1 == AmountCalc(remaining, FeeRate, isInput)
             next1 == NextPrice(calc1, toTarget1, L, p, t, isInput, aToB)
             unfixed1 == get_amount_unfixed_delta(p, next1, L, isInput, aToB)
             moved1 == get_amount_fixed_delta(p, next1, L, isInput, aToB)
             fixed1 == IF next1 = t THEN toTarget1 ELSE moved1
             in1 == IF isInput THEN fixed1 ELSE unfixed1
             out1 == IF isInput THEN unfixed1
                     ELSE IF fixed1 > remaining THEN remaining ELSE fixed1
             fee1 == StepFee(remaining, in1, FeeRate, isInput, next1 = t)
  <1>1. compute_swap(remaining, FeeRate, L, p, t, isInput, aToB)
          = IF \/ toTarget1 = Err \/ calc1 = Err \/ next1 = Err
               \/ unfixed1 = Err \/ fixed1 = Err \/ fee1 = Err
            THEN StepError
            ELSE StepOf(in1, out1, next1, fee1)
    BY Zenon DEF compute_swap, StepOf
  <1>2. toTarget1 = toTarget /\ calc1 = calc
    BY <1>0, Zenon
  <1>3. next1 = next
    BY <1>0, <1>2, Zenon
  <1>4. unfixed1 = unfixed /\ moved1 = fixed
    BY <1>0, <1>3, Zenon
  <1>5. fixed1 = fixed
    BY <1>0, <1>2, <1>3, <1>4, Zenon
  <1>6. in1 = in /\ out1 = out
    BY <1>0, <1>4, <1>5, Zenon
  <1>7. fee1 = fee
    BY <1>0, <1>3, <1>6, Zenon
  <1> HIDE DEF toTarget1, calc1, next1, unfixed1, moved1, fixed1, in1, out1, fee1
  <1> QED BY <1>0, <1>1, <1>2, <1>3, <1>4, <1>5, <1>6, <1>7, Zenon

CountedOf(c, isInput) == IF isInput THEN c.amount_out ELSE c.amount_in + c.fee_amount

LEMMA Moved ==
    ASSUME NEW a \in Nat, NEW b \in Nat, NEW c \in Nat, b <= c - a
    PROVE  a + b <= c
  OBVIOUS

SdkFeeOf(in) == mulDivRoundUpIf(in, FeeRate, FEE_RATE_MUL_VALUE - FeeRate, TRUE, U128MAX)

FeeFits(fee, in, remaining) ==
    /\ fee \in Nat
    /\ checked_mul_div_round_up(in, FeeRate, FEE_RATE_MUL_VALUE - FeeRate) = fee
    /\ in * FEE_RATE_MUL_VALUE <= remaining * (FEE_RATE_MUL_VALUE - FeeRate)
         => in + fee <= remaining

LEMMA SdkFee ==
    ASSUME NEW in \in Nat, NEW remaining \in Nat, SdkFeeOf(in) # Err
    PROVE  FeeFits(SdkFeeOf(in), in, remaining)
  <1>0. PICK fee : fee = SdkFeeOf(in)
    OBVIOUS
  <1> DEFINE M == FEE_RATE_MUL_VALUE
             g == M - FeeRate
             n == in * FeeRate
             y == DivRound(n, g, TRUE)
  <1>1. M \in Nat \ {0} /\ g \in Nat \ {0} /\ FeeRate \in Nat /\ M = g + FeeRate
    BY FeeAssumption, QuoteAssumption
  <1>2. /\ fee = IF g = 0 \/ n > U128MAX THEN Err ELSE y
        /\ checked_mul_div_round_up(in, FeeRate, g) = IF g = 0 \/ n > U128MAX THEN Err ELSE y
    BY <1>0 DEF SdkFeeOf, mulDivRoundUpIf, checked_mul_div_round_up, checked_mul_div_round_up_if
  <1>3. n \in Nat
    BY <1>1, ProductNat
  <1> HIDE DEF M, g, n, y
  <1>4. fee = y /\ checked_mul_div_round_up(in, FeeRate, g) = fee
    BY <1>0, <1>2
  <1>5. y \in Nat
    BY <1>1, <1>3, RoundedUp DEF y
  <1>9. fee \in Nat
    BY <1>4, <1>5, Zenon
  <1>6. ASSUME in * M <= remaining * g PROVE in + fee <= remaining
    <2>1. in * M = in * g + n
      BY <1>1 DEF n
    <2>2. n <= (remaining - in) * g
      <3>1. (remaining - in) * g = remaining * g - in * g
        BY <1>1, Distributes
      <3>2. remaining * g \in Int /\ in * g \in Int
        BY <1>1, ProductInt
      <3> QED BY <1>3, <1>6, <2>1, <3>1, <3>2
    <2>3. remaining - in \in Int
      OBVIOUS
    <2>4. fee <= remaining - in
      BY <1>1, <1>3, <1>4, <2>2, <2>3, RoundedBelow DEF y
    <2> QED BY <1>9, <2>4, Moved, Zenon
  <1>7. FeeFits(fee, in, remaining)
    BY <1>4, <1>9, <1>6, Zenon DEF FeeFits, M, g
  <1> QED BY <1>0, <1>7, Zenon

\* What a step of the SDK that succeeds does, and that the program's does the same.
LEMMA SdkStep ==
    ASSUME NEW remaining \in U64, NEW L \in Nat, NEW p \in 1..MAX_SQRT_PRICE_X64,
           NEW t \in 1..MAX_SQRT_PRICE_X64, NEW isInput \in BOOLEAN, NEW aToB \in BOOLEAN,
           aToB \/ ~isInput, Towards(p, t, aToB),
           NEW c, c = computeSwapStep(remaining, FeeRate, L, p, t, isInput, aToB), ~c.error,
           NEW k, k = compute_swap(remaining, FeeRate, L, p, t, isInput, aToB)
    PROVE  /\ Between(c.next_price, p, t, aToB)
           /\ UsedOf(c, isInput) \in 0..remaining
           /\ c.next_price # t => UsedOf(c, isInput) = remaining
           /\ CountedOf(c, isInput) \in Nat
           /\ aToB /\ (isInput \/ CountedOf(c, isInput) <= U64MAX) => k = c
           /\ ~isInput /\ ~k.error => k.next_price = c.next_price /\ k.amount_out = c.amount_out
  <1>1. PICK toTarget, calc, next, unfixed, fixed, in, out, fee :
            Quoted(c, remaining, L, p, t, isInput, aToB,
                   toTarget, calc, next, unfixed, fixed, in, out, fee)
    BY SdkComputes
  <1>2. /\ toTarget = getAmountFixedDelta(p, t, L, isInput, aToB) /\ toTarget # Err
        /\ calc = amountCalc(remaining, FeeRate, isInput) /\ calc # Err
        /\ next = (IF calc >= toTarget THEN t ELSE getNextSqrtPrice(p, L, calc, isInput, aToB))
        /\ next # Err
        /\ unfixed = getAmountUnfixedDelta(p, next, L, isInput, aToB) /\ unfixed # Err
        /\ fixed = getAmountFixedDelta(p, next, L, isInput, aToB) /\ fixed # Err
        /\ in = (IF isInput THEN fixed ELSE unfixed)
        /\ out = (IF isInput THEN unfixed ELSE IF fixed > remaining THEN remaining ELSE fixed)
        /\ IF isInput /\ next # t THEN fee = remaining - in
           ELSE /\ fee = mulDivRoundUpIf(in, FeeRate, FEE_RATE_MUL_VALUE - FeeRate, TRUE, U128MAX)
                /\ fee # Err
    BY <1>1, Zenon DEF Quoted
  <1>3. c = StepOf(in, out, next, fee)
    BY <1>1, Zenon DEF Quoted
  <1>4. /\ c.amount_in = in /\ c.amount_out = out /\ c.next_price = next /\ c.fee_amount = fee
    BY <1>3 DEF StepOf
  <1>5. remaining \in Nat /\ remaining <= U64MAX /\ U64MAX \in Nat /\ U64 \subseteq Nat
    BY Unsigned, Widths
  <1>6. /\ p \in Nat \ {0} /\ t \in Nat \ {0} /\ p <= MAX_SQRT_PRICE_X64 /\ t <= MAX_SQRT_PRICE_X64
        /\ MAX_SQRT_PRICE_X64 \in Int
    BY MaxPrice
  <1>7. toTarget = get_amount_fixed_delta(p, t, L, isInput, aToB) /\ toTarget \in U64
    BY <1>2, FixedAgrees
  <1>8. calc = AmountCalc(remaining, FeeRate, isInput)
    BY <1>2 DEF amountCalc, AmountCalc, mulDivRoundUpIf, checked_mul_div, checked_mul_div_round_up_if
  <1>9. /\ calc \in Nat
        /\ isInput => calc * FEE_RATE_MUL_VALUE <= remaining * (FEE_RATE_MUL_VALUE - FeeRate)
        /\ ~isInput => calc = remaining
    BY <1>2, <1>5, <1>8, QuoteAssumption, AmountCalcFacts
  <1>10. ASSUME ~(calc >= toTarget)
         PROVE  next = get_next_sqrt_price(p, L, calc, isInput, aToB) /\ calc < toTarget
    <2>1. calc < toTarget
      BY <1>5, <1>7, <1>9, <1>10
    <2>2. next = getNextSqrtPrice(p, L, calc, isInput, aToB)
      BY <1>2, <1>10
    <2> QED BY <1>2, <1>9, <2>1, <2>2, NextAgrees
  <1>11. Between(next, p, t, aToB)
    <2>1. CASE calc >= toTarget
      BY <1>2, <1>6, <2>1 DEF Between, Towards
    <2>2. CASE ~(calc >= toTarget)
      BY <1>2, <1>6, <1>7, <1>9, <1>10, <2>2, PriceStopsShort
    <2> QED BY <2>1, <2>2
  <1>12. next \in 1..MAX_SQRT_PRICE_X64
    BY <1>6, <1>11 DEF Between
  <1>13. fixed = get_amount_fixed_delta(p, next, L, isInput, aToB) /\ fixed \in U64 /\ fixed \in Nat
    <2>1. fixed = getAmountFixedDelta(p, next, L, isInput, aToB) /\ fixed # Err
      BY <1>2, Zenon
    <2>2. /\ get_amount_fixed_delta(p, next, L, isInput, aToB)
                = getAmountFixedDelta(p, next, L, isInput, aToB)
          /\ getAmountFixedDelta(p, next, L, isInput, aToB) \in U64
      BY <1>12, <2>1, FixedAgrees
    <2>3. \A x \in U64 : x \in Nat
      BY Unsigned
    <2> QED BY <2>1, <2>2, <2>3
  <1>14. /\ unfixed \in Nat
         /\ aToB => unfixed = get_amount_unfixed_delta(p, next, L, isInput, aToB) /\ unfixed \in U64
    BY <1>2, <1>12, UnfixedAgrees
  <1>15. (isInput => fixed <= calc) /\ (~isInput /\ next # t => remaining <= fixed)
    <2>1. CASE calc >= toTarget
      BY <1>2, <1>5, <1>7, <1>9, <2>1
    <2>2. CASE ~(calc >= toTarget)
      BY <1>2, <1>6, <1>7, <1>9, <1>10, <1>13, <2>2, PriceStopsShort
    <2> QED BY <2>1, <2>2
  <1>16. in \in Nat /\ out \in Nat
    BY <1>2, <1>5, <1>13, <1>14
  <1>17. ASSUME isInput PROVE in * FEE_RATE_MUL_VALUE <= remaining * (FEE_RATE_MUL_VALUE - FeeRate)
    <2> DEFINE M == FEE_RATE_MUL_VALUE
               r == remaining * (M - FeeRate)
    <2>0. in = fixed
      BY <1>2, <1>17, Zenon
    <2>1. M \in Nat /\ r \in Nat /\ in = fixed /\ fixed <= calc
      <3>1. M \in Nat /\ M - FeeRate \in Nat
        BY FeeAssumption, QuoteAssumption
      <3> QED BY <1>5, <1>15, <1>17, <2>0, <3>1, ProductNat
    <2> HIDE DEF M, r
    <2>2. in * M <= r
      <3>1. calc * M <= r
        BY <1>9, <1>17 DEF M, r
      <3> QED BY <1>9, <1>16, <2>1, <3>1, ProductAtMost
    <2> QED BY <2>2 DEF M, r
  <1>18. ASSUME ~(isInput /\ next # t)
         PROVE  /\ fee \in Nat
                /\ checked_mul_div_round_up(in, FeeRate, FEE_RATE_MUL_VALUE - FeeRate) = fee
                /\ isInput => in + fee <= remaining
    <2>1. fee = mulDivRoundUpIf(in, FeeRate, FEE_RATE_MUL_VALUE - FeeRate, TRUE, U128MAX) /\ fee # Err
      BY <1>2, <1>18, Zenon
    <2>2. /\ fee \in Nat
          /\ checked_mul_div_round_up(in, FeeRate, FEE_RATE_MUL_VALUE - FeeRate) = fee
          /\ in * FEE_RATE_MUL_VALUE <= remaining * (FEE_RATE_MUL_VALUE - FeeRate)
                => in + fee <= remaining
      <3>1. in \in Nat /\ remaining \in Nat
        BY <1>5, <1>16
      <3>2. SdkFeeOf(in) # Err
        BY <2>1, Zenon DEF SdkFeeOf
      <3>3. FeeFits(SdkFeeOf(in), in, remaining)
        BY <3>1, <3>2, SdkFee
      <3>4. SdkFeeOf(in) = fee
        BY <2>1, Zenon DEF SdkFeeOf
      <3>5. FeeFits(fee, in, remaining)
        BY <3>3, <3>4, Zenon
      <3> QED BY <3>5, Zenon DEF FeeFits
    <2> QED BY <1>17, <2>2
  <1>19. ASSUME isInput, next # t PROVE fee = remaining - in /\ fee \in Nat /\ in <= remaining
    <2>1. fee = remaining - in
      BY <1>2, <1>19, Zenon
    <2>2. in <= remaining
      <3> DEFINE M == FEE_RATE_MUL_VALUE
                 r == remaining * (M - FeeRate)
      <3>1. M \in Nat \ {0} /\ remaining * M \in Int /\ r \in Int /\ r <= remaining * M
        <4>1. M \in Nat \ {0} /\ M - FeeRate \in Nat /\ M - FeeRate <= M
          BY FeeAssumption, QuoteAssumption
        <4> HIDE DEF M
        <4>2. (M - FeeRate) * remaining <= M * remaining
          BY <1>5, <4>1, ProductMonotone
        <4>3. (M - FeeRate) * remaining = r /\ M * remaining = remaining * M
          BY <1>5, <4>1, ProductTurned
        <4> QED BY <1>5, <4>1, <4>2, <4>3, ProductInt
      <3>2. in * M <= r /\ in * M \in Int
        BY <1>16, <1>17, <1>19, <3>1
      <3> HIDE DEF M, r
      <3>3. in * M <= remaining * M
        BY <3>1, <3>2
      <3> QED BY <1>5, <1>16, <3>1, <3>3, ProductOrder
    <2> QED BY <1>5, <1>16, <2>1, <2>2
  <1>20. UsedOf(c, isInput) \in 0..remaining /\ (c.next_price # t => UsedOf(c, isInput) = remaining)
    <2>1. CASE isInput
      <3>1. UsedOf(c, isInput) = in + fee
        BY <1>4, <2>1 DEF UsedOf
      <3>2. CASE next # t
        <4>1. fee = remaining - in /\ fee \in Nat /\ in <= remaining
          BY <1>19, <2>1, <3>2
        <4> QED BY <1>5, <1>16, <3>1, <4>1
      <3>3. CASE next = t
        <4>1. fee \in Nat /\ in + fee <= remaining
          BY <1>18, <2>1, <3>3
        <4> QED BY <1>4, <1>5, <1>16, <3>1, <3>3, <4>1
      <3> QED BY <3>2, <3>3
    <2>2. CASE ~isInput
      <3>1. UsedOf(c, isInput) = out /\ out = IF fixed > remaining THEN remaining ELSE fixed
        BY <1>2, <1>4, <2>2 DEF UsedOf
      <3>2. next # t => remaining <= fixed
        BY <1>15, <2>2
      <3> QED BY <1>4, <1>5, <1>13, <3>1, <3>2
    <2> QED BY <2>1, <2>2
  <1>21. CountedOf(c, isInput) \in Nat
    BY <1>4, <1>16, <1>18 DEF CountedOf
  <1>22. ASSUME aToB, isInput \/ CountedOf(c, isInput) <= U64MAX PROVE k = c
    <2>1. fee \in Nat /\ fee <= U64MAX
      <3>1. CASE isInput
        BY <1>5, <1>16, <1>18, <1>19, <3>1
      <3>2. CASE ~isInput
        <4>1. CountedOf(c, isInput) = in + fee /\ fee \in Nat
          BY <1>4, <1>18, <3>2 DEF CountedOf
        <4>2. CountedOf(c, isInput) <= U64MAX
          BY <1>22, <3>2, Zenon
        <4>3. in + fee <= U64MAX
          BY <4>1, <4>2
        <4> QED BY <1>5, <1>16, <4>1, <4>3
      <3> QED BY <3>1, <3>2
    <2>2. StepFee(remaining, in, FeeRate, isInput, next = t) = fee
      <3>1. CASE isInput /\ next # t
        <4>1. fee = remaining - in /\ remaining - in \in U64
          BY <1>5, <1>16, <1>19, <3>1 DEF U64
        <4>2. WrapU64(remaining - in) = remaining - in
          BY <1>5, <1>16, <4>1, Wraps
        <4> QED BY <3>1, <4>1, <4>2 DEF StepFee
      <3>2. CASE ~(isInput /\ next # t)
        <4>1. checked_mul_div_round_up(in, FeeRate, FEE_RATE_MUL_VALUE - FeeRate) = fee
          BY <1>18, <3>2
        <4>2. Checked(fee, U64MAX) = fee
          BY <1>5, <2>1 DEF Checked
        <4> QED BY <3>2, <4>1, <4>2 DEF StepFee
      <3> QED BY <3>1, <3>2
    <2>3. next = NextPrice(calc, toTarget, L, p, t, isInput, aToB)
      BY <1>2, <1>10 DEF NextPrice
    <2>4. fee # Err
      BY <2>1, NoErr
    <2>5. unfixed = get_amount_unfixed_delta(p, next, L, isInput, aToB)
      BY <1>14, <1>22, Zenon
    <2>6. compute_swap(remaining, FeeRate, L, p, t, isInput, aToB) = StepOf(in, out, next, fee)
      <3>1. Prepared(remaining, L, p, t, isInput, aToB,
                     toTarget, calc, next, unfixed, fixed, in, out, fee)
        BY <1>2, <1>7, <1>8, <1>13, <2>2, <2>3, <2>4, <2>5, Zenon DEF Prepared
      <3> QED BY <3>1, ProgramComputes, SMT
    <2> QED BY <1>3, <2>6, Zenon
  <1>23. ASSUME ~isInput, ~k.error PROVE k.next_price = next /\ k.amount_out = out
    <2>1. PICK toTarget1, calc1, unfixed1, fixed1 :
              Computes(k, remaining, FeeRate, L, p, t, isInput, aToB, toTarget1, calc1, unfixed1, fixed1)
      BY <1>23, ComputeSwap
    <2>2. /\ toTarget1 = get_amount_fixed_delta(p, t, L, isInput, aToB)
          /\ calc1 = AmountCalc(remaining, FeeRate, isInput)
          /\ IF calc1 >= toTarget1 THEN k.next_price = t
             ELSE k.next_price = get_next_sqrt_price(p, L, calc1, isInput, aToB)
          /\ fixed1 = get_amount_fixed_delta(p, k.next_price, L, isInput, aToB)
          /\ k.amount_out = IF isInput THEN unfixed1
                            ELSE IF fixed1 > remaining THEN remaining ELSE fixed1
      BY <2>1, Zenon DEF Computes
    <2>3. k.next_price = next
      BY <1>2, <1>7, <1>8, <1>10, <2>2
    <2> QED BY <1>2, <1>13, <1>23, <2>2, <2>3
  <1> QED BY <1>4, <1>11, <1>20, <1>21, <1>22, <1>23

-----------------------------------------------------------------------------
(* Where an iteration of the quote leads. *)

Stepped(next, left) == IF left THEN next - 1 ELSE next

LEMMA NextIs ==
    ASSUME NEW S, NEW left \in BOOLEAN, InOrder(S, left), Initialized \in SUBSET Usable,
           NEW t \in MIN_TICK_INDEX - 1..MAX_TICK_INDEX, NEW j, Begins(S, t, j, left),
           IF left THEN MIN_TICK_INDEX <= t ELSE t < MAX_TICK_INDEX,
           NEW next, next = findNextInitializedTickIndex(Ahead(S, t, left), left)
    PROVE  /\ next \in MIN_TICK_INDEX..MAX_TICK_INDEX
           /\ IF left THEN next <= t ELSE t < next
           /\ \A u \in Initialized : IF left THEN ~(next < u /\ u <= t) ELSE ~(t < u /\ u < next)
           /\ next \in Initialized => next \in Int /\ OnGrid(next)
           /\ \/ next \in Initialized
              \/ next = IF left THEN MIN_TICK_INDEX ELSE MAX_TICK_INDEX
              \/ ~InSequence(S, SearchFrom(Stepped(next, left), left))
  <1> DEFINE n == Len(S)
             r == get_next_initialized_tick_index(S, Initialized, t, TickSpacing, left, j)
  <1>1. /\ MIN_TICK_INDEX \in Int /\ MAX_TICK_INDEX \in Int /\ t \in Int
        /\ MIN_TICK_INDEX - 1 <= t /\ t <= MAX_TICK_INDEX
    BY TickIndexAssumption
  <1>2. Reached(Initialized, t, left, t)
    BY <1>1 DEF Reached
  <1>3. n \in Nat /\ j \in 1..n /\ n \in j..Len(S) /\ \A i \in 1..n : S[i] = S[i]
    BY OrderedArrays, BeginsIn
  <1>4. PICK k \in j..n : IF Ahead(S, t, left) \cap Initialized # {} THEN Holds(S[k], next) ELSE k = n
    BY <1>1, TouchedAre
  <1>5. /\ ~r.error /\ r.tick_index = next /\ Sound(r, S, Initialized, t, left, j)
    <2> DEFINE seen == Ahead(S, t, left) \cap Initialized # {}
    <2>1. IF seen THEN Holds(S[k], next) ELSE n = Len(S)
      BY <1>4
    <2> HIDE DEF seen
    <2>2. k \in j..n /\ Len(S) = n
      BY <1>4
    <2> QED BY <1>1, <1>2, <1>3, <2>1, <2>2, SearchAgrees DEF seen
  <1>6. /\ next \in Int
        /\ IF left THEN MIN_TICK_INDEX <= next /\ next <= t ELSE t < next /\ next <= MAX_TICK_INDEX
        /\ \A u \in Initialized : IF left THEN u <= t => u <= next ELSE t < u => next <= u
    BY <1>5, Zenon DEF Sound
  <1>7. next \in Initialized => next \in Int /\ OnGrid(next)
    BY UsableOnGrid
  <1>8. \A u \in Initialized : u \in Int
    BY UsableOnGrid
  <1>9. ASSUME next \notin Initialized
        PROVE  \/ next = IF left THEN MIN_TICK_INDEX ELSE MAX_TICK_INDEX
               \/ ~InSequence(S, SearchFrom(Stepped(next, left), left))
    <2> DEFINE end == IF left THEN S[n] ELSE S[n] + K - 1
               x == SearchFrom(Stepped(next, left), left)
    <2>1. Ahead(S, t, left) \cap Initialized = {}
      <3>1. Ahead(S, t, left) \cap Initialized # {} => next \in Ahead(S, t, left) \cap Initialized
        BY <1>1, SdkSearch
      <3> QED BY <1>9, <3>1
    <2>2. next = Clamp(end)
      BY <1>1, <2>1, SdkSearch
    <2>3. /\ \A i \in 1..n : S[i] \in Int
          /\ \A h, i \in 1..n : h < i => IF left THEN S[i] + K <= S[h] ELSE S[h] + K <= S[i]
          /\ K \in Nat \ {0} /\ TickSpacing \in Nat \ {0} /\ n \in 1..n
      BY <1>3, OrderedArrays, SizeOfArray, SpacingAssumption
    <2>4. end \in Int
      BY <2>3
    <2>5. next = IF end > MAX_TICK_INDEX THEN MAX_TICK_INDEX
                 ELSE IF end < MIN_TICK_INDEX THEN MIN_TICK_INDEX ELSE end
      <3> HIDE DEF end
      <3> QED BY <2>2, <2>4, Clamped
    <2>6. IF left THEN next = MIN_TICK_INDEX \/ next = S[n]
                  ELSE next = MAX_TICK_INDEX \/ next = S[n] + K - 1
      <3>1. CASE left
        <4>1. S[n] <= t
          <5>1. S[j] <= t
            BY <1>1, <3>1, BeginsIn
          <5>2. n = j \/ S[n] + K <= S[j]
            BY <1>3, <2>3, <3>1
          <5> QED BY <1>1, <1>3, <2>3, <5>1, <5>2
        <4> QED BY <1>1, <2>3, <2>5, <3>1, <4>1
      <3>2. CASE ~left
        <4>1. t < S[n] + K - 1
          <5>1. t < S[j] + K - TickSpacing
            BY <1>1, <3>2, BeginsIn
          <5>2. n = j \/ S[j] + K <= S[n]
            BY <1>3, <2>3, <3>2
          <5> QED BY <1>1, <1>3, <2>3, <5>1, <5>2
        <4> QED BY <1>1, <2>3, <2>5, <3>2, <4>1
      <3> QED BY <3>1, <3>2
    <2>7. ASSUME ~(next = IF left THEN MIN_TICK_INDEX ELSE MAX_TICK_INDEX)
          PROVE  \A i \in 1..n : ~Holds(S[i], x)
      <3> TAKE i \in 1..n
      <3>1. IF left THEN next = S[n] ELSE next = S[n] + K - 1
        BY <2>6, <2>7
      <3>2. i = n \/ (IF left THEN S[n] + K <= S[i] ELSE S[i] + K <= S[n])
        BY <1>3, <2>3
      <3>3. x = IF left THEN next - 1 ELSE next + TickSpacing
        BY DEF SearchFrom, Stepped
      <3> HIDE DEF x
      <3>4. CASE left
        <4>1. x = S[n] - 1 /\ S[n] \in Int /\ S[i] \in Int /\ (i = n \/ S[n] + K <= S[i])
          BY <2>3, <3>1, <3>2, <3>3, <3>4
        <4>2. x < S[i]
          BY <2>3, <4>1
        <4> QED BY <4>1, <4>2 DEF Holds
      <3>5. CASE ~left
        <4>1. /\ x = S[n] + K - 1 + TickSpacing /\ S[n] \in Int /\ S[i] \in Int
              /\ i = n \/ S[i] + K <= S[n]
          BY <2>3, <3>1, <3>2, <3>3, <3>5
        <4>2. x >= S[i] + K
          BY <2>3, <4>1
        <4> QED BY <2>3, <4>1, <4>2 DEF Holds
      <3> QED BY <3>4, <3>5
    <2>8. x \in Int
      BY <1>6, <2>3 DEF SearchFrom, Stepped
    <2> HIDE DEF x
    <2>9. InSequence(S, x) <=> \E i \in 1..Len(S) : Holds(S[i], x)
      BY <2>8, InSequenceHolds
    <2> QED BY <2>7, <2>9 DEF x
  <1> QED BY <1>1, <1>6, <1>7, <1>8, <1>9

\* Where a pool can be with its price at p, and what the positions hold of b.
Placed(t, p, L, depth) ==
    /\ t >= MIN_TICK_INDEX => SqrtPrice[t] <= p
    /\ t < MAX_TICK_INDEX => p <= SqrtPrice[t + 1]
    /\ L = depth[t]

HeldOfB(t, p, L, out, below) ==
    t >= MIN_TICK_INDEX => out * WORD + below[t] + L * (p - SqrtPrice[t]) <= U64MAX * WORD

\* After reaching the next tick.
LEMMA PlacedNext ==
    ASSUME NEW q, NEW depth, NEW below, RealPool(q, depth, below), NEW left \in BOOLEAN,
           NEW t \in MIN_TICK_INDEX - 1..MAX_TICK_INDEX, NEW next \in MIN_TICK_INDEX..MAX_TICK_INDEX,
           IF left THEN next <= t ELSE t < next,
           \A u \in DOMAIN q.net : IF left THEN ~(next < u /\ u <= t) ELSE ~(t < u /\ u < next)
    PROVE  /\ Stepped(next, left) \in MIN_TICK_INDEX - 1..MAX_TICK_INDEX
           /\ Placed(Stepped(next, left), SqrtPrice[next], depth[Stepped(next, left)], depth)
           /\ next \in DOMAIN q.net =>
                  /\ q.net[next] \in Int /\ depth[t] \in Int
                  /\ depth[t] + (IF left THEN -q.net[next] ELSE q.net[next])
                       = depth[Stepped(next, left)]
  <1> USE TickIndexAssumption
  <1>1. \A u \in DOMAIN q.net : u \in Int /\ MIN_TICK_INDEX <= u /\ u <= MAX_TICK_INDEX
    BY DepthTyped, UsableOnGrid
  <1>2. depth[t] \in Int /\ depth[next] \in Int /\ depth[next - 1] \in Int
    BY DepthTyped
  <1>3. next \in DOMAIN q.net => q.net[next] \in Int /\ depth[next] = depth[next - 1] + q.net[next]
    BY DepthTyped
  <1>4. CASE left
    <2>1. next \in MIN_TICK_INDEX - 1..MAX_TICK_INDEX /\ t \in next..MAX_TICK_INDEX
      BY <1>4
    <2>2. \A u \in DOMAIN q.net : ~(next < u /\ u <= t)
      BY <1>4
    <2>3. depth[t] = depth[next]
      BY <2>1, <2>2, DepthConstant
    <2>4. next - 1 >= MIN_TICK_INDEX => SqrtPrice[next - 1] <= SqrtPrice[next]
      BY PriceOrder
    <2>5. SqrtPrice[next] \in Int /\ next - 1 + 1 = next
      BY TickPrices
    <2>6. Placed(next - 1, SqrtPrice[next], depth[next - 1], depth)
      BY <2>4, <2>5 DEF Placed
    <2>7. Stepped(next, left) = next - 1
      BY <1>4 DEF Stepped
    <2>8. next \in DOMAIN q.net =>
              depth[t] + (IF left THEN -q.net[next] ELSE q.net[next]) = depth[next - 1]
      BY <1>2, <1>3, <1>4, <2>3
    <2>9. next - 1 \in MIN_TICK_INDEX - 1..MAX_TICK_INDEX
      OBVIOUS
    <2> QED BY <1>2, <1>3, <2>6, <2>7, <2>8, <2>9, Zenon
  <1>5. CASE ~left
    <2>1. next - 1 \in t..MAX_TICK_INDEX
      BY <1>5
    <2>2. \A u \in DOMAIN q.net : ~(t < u /\ u <= next - 1)
      BY <1>1, <1>5
    <2>3. depth[next - 1] = depth[t]
      BY <2>1, <2>2, DepthConstant
    <2>4. next < MAX_TICK_INDEX => SqrtPrice[next] <= SqrtPrice[next + 1]
      BY PriceOrder
    <2>5. SqrtPrice[next] \in Int
      BY TickPrices
    <2>6. Placed(next, SqrtPrice[next], depth[next], depth)
      BY <2>4, <2>5 DEF Placed
    <2>7. Stepped(next, left) = next
      BY <1>5 DEF Stepped
    <2>8. next \in DOMAIN q.net => depth[t] + q.net[next] = depth[next]
      BY <1>2, <1>3, <2>3
    <2> QED BY <1>2, <1>3, <1>5, <2>6, <2>7, <2>8
  <1> QED BY <1>4, <1>5

\* What is taken of b, on the way down to a price, is no more than what is held there.
LEMMA TakenOfB ==
    ASSUME NEW q, NEW depth, NEW below, RealPool(q, depth, below),
           NEW t \in MIN_TICK_INDEX..MAX_TICK_INDEX, NEW next \in MIN_TICK_INDEX..t,
           \A u \in DOMAIN q.net : ~(next < u /\ u <= t),
           NEW p \in Nat, NEW p2 \in Nat, p2 <= p, SqrtPrice[next] <= p2,
           NEW taken \in Nat, NEW out \in Nat, out * WORD <= depth[t] * (p - p2),
           HeldOfB(t, p, depth[t], taken, below)
    PROVE  /\ taken + out <= U64MAX
           /\ p2 = SqrtPrice[next] =>
                  HeldOfB(next - 1, p2, depth[next - 1], taken + out, below)
  <1> USE TickIndexAssumption
  <1> DEFINE L == depth[t]
             P(s) == SqrtPrice[s]
  <1>1. next \in MIN_TICK_INDEX..MAX_TICK_INDEX /\ t \in next..MAX_TICK_INDEX
        /\ next \in MIN_TICK_INDEX - 1..MAX_TICK_INDEX
    OBVIOUS
  <1>2. L = depth[next] /\ L \in Nat /\ L \in Int
    BY <1>1, DepthConstant, DepthTyped
  <1>3. P(t) \in Nat /\ P(next) \in Nat /\ P(t) \in Int /\ P(next) \in Int
    BY <1>1, TickPrices
  <1>4. below[t] = below[next] + depth[next] * (P(t) - P(next))
    BY <1>1, BelowLinear
  <1>5. below[t] \in Nat /\ below[next] \in Nat
    BY <1>1, DepthTyped
  <1>6. taken * WORD + below[t] + L * (p - P(t)) <= U64MAX * WORD
    BY DEF HeldOfB
  <1> HIDE DEF L, P
  <1>7. taken * WORD + below[next] + L * (p - P(next)) <= U64MAX * WORD
    <2>1. L * (p - P(next)) = L * (P(t) - P(next)) + L * (p - P(t))
      <3>1. L * (p - P(next)) = L * p - L * P(next)
            /\ L * (P(t) - P(next)) = L * P(t) - L * P(next)
            /\ L * (p - P(t)) = L * p - L * P(t)
        BY <1>2, <1>3, Distributes
      <3>2. L * p \in Int /\ L * P(next) \in Int /\ L * P(t) \in Int
        BY <1>2, <1>3, ProductInt
      <3> QED BY <3>1, <3>2
    <2>2. below[t] = below[next] + L * (P(t) - P(next))
      BY <1>2, <1>4
    <2>3. L * (P(t) - P(next)) \in Int /\ L * (p - P(t)) \in Int /\ taken * WORD \in Int
          /\ U64MAX * WORD \in Int
      BY <1>2, <1>3, ProductInt, Widths
    <2> QED BY <1>5, <1>6, <2>1, <2>2, <2>3
  <1>8. L * (p - p2) <= L * (p - P(next))
    <2>1. p - p2 \in Nat /\ p - P(next) \in Nat /\ p - p2 <= p - P(next)
      BY <1>3 DEF P
    <2> QED BY <1>2, <2>1, ProductMonotone
  <1>9. (taken + out) * WORD + below[next] <= U64MAX * WORD
    <2>1. (taken + out) * WORD = taken * WORD + out * WORD
      BY Widths, Distributes
    <2>2. /\ taken * WORD \in Int /\ out * WORD \in Int /\ U64MAX * WORD \in Int
          /\ L * (p - p2) \in Int /\ L * (p - P(next)) \in Int
      BY <1>2, <1>3, ProductInt, Widths
    <2>3. out * WORD <= L * (p - p2)
      BY DEF L
    <2> QED BY <1>5, <1>7, <1>8, <2>1, <2>2, <2>3
  <1>10. taken + out <= U64MAX
    <2>1. (taken + out) * WORD \in Int /\ U64MAX * WORD \in Int
      BY ProductInt, Widths
    <2>2. (taken + out) * WORD <= U64MAX * WORD
      BY <1>5, <1>9, <2>1
    <2> QED BY <2>2, Widths, ProductOrder
  <1>11. ASSUME p2 = P(next), next - 1 >= MIN_TICK_INDEX
         PROVE  (taken + out) * WORD + below[next - 1] + depth[next - 1] * (p2 - P(next - 1))
                  <= U64MAX * WORD
    <2>1. next \in MIN_TICK_INDEX + 1..MAX_TICK_INDEX
      BY <1>11
    <2>2. below[next] = below[next - 1] + depth[next - 1] * (P(next) - P(next - 1))
      BY <2>1, DepthTyped DEF P
    <2>3. /\ below[next - 1] \in Int /\ depth[next - 1] \in Int /\ P(next - 1) \in Int
      BY <2>1, DepthTyped, TickPrices DEF P
    <2>4. depth[next - 1] * (P(next) - P(next - 1)) \in Int
      BY <1>3, <2>3, ProductInt
    <2>5. (taken + out) * WORD \in Int /\ U64MAX * WORD \in Int
      BY ProductInt, Widths
    <2> QED BY <1>5, <1>9, <1>11, <2>2, <2>3, <2>4, <2>5
  <1> QED BY <1>10, <1>11 DEF HeldOfB, P

\* An exact input of a is paid from what is held of b on the way.
LEMMA SdkOutput ==
    ASSUME NEW remaining \in U64, NEW L \in Nat, NEW p \in 1..MAX_SQRT_PRICE_X64,
           NEW t, NEW c, c = computeSwapStep(remaining, FeeRate, L, p, t, TRUE, TRUE), ~c.error,
           c.next_price \in Nat, c.next_price <= p
    PROVE  c.amount_out \in Nat /\ c.amount_out * WORD <= L * (p - c.next_price)
  <1>1. PICK toTarget, calc, next, unfixed, fixed, in, out, fee :
            Quoted(c, remaining, L, p, t, TRUE, TRUE,
                   toTarget, calc, next, unfixed, fixed, in, out, fee)
    <2>1. PICK isInput, aToB : isInput = TRUE /\ aToB = TRUE
      OBVIOUS
    <2>2. isInput \in BOOLEAN /\ aToB \in BOOLEAN
          /\ c = computeSwapStep(remaining, FeeRate, L, p, t, isInput, aToB)
      BY <2>1
    <2>3. \E toTarget, calc, next, unfixed, fixed, in, out, fee :
            Quoted(c, remaining, L, p, t, isInput, aToB,
                   toTarget, calc, next, unfixed, fixed, in, out, fee)
      BY <2>2, SdkComputes
    <2> QED BY <2>1, <2>3
  <1>2. /\ c = StepOf(in, out, next, fee)
        /\ unfixed = getAmountUnfixedDelta(p, next, L, TRUE, TRUE) /\ unfixed # Err
        /\ out = unfixed
    BY <1>1 DEF Quoted
  <1>3. c.amount_out = unfixed /\ c.next_price = next
    <2>1. c = StepOf(in, out, next, fee) /\ out = unfixed
      BY <1>2, Zenon
    <2>2. StepOf(in, out, next, fee).amount_out = out /\ StepOf(in, out, next, fee).next_price = next
      BY DEF StepOf
    <2> QED BY <2>1, <2>2, Zenon
  <1> DEFINE g == PriceGap(p, next)
             n == L * g
  <1>4. g = p - next /\ g \in Nat /\ p \in Nat
    <2>1. next \in Nat /\ next <= p
      BY <1>3, Zenon
    <2>2. p \in Nat
      BY MaxPrice
    <2> QED BY <2>1, <2>2 DEF PriceGap
  <1>5. n \in Nat
    BY <1>4, ProductNat
  <1>6. unfixed = IF L = 0 \/ g = 0 THEN 0 ELSE n \div WORD
    BY <1>2 DEF getAmountUnfixedDelta, getAmountDeltaB, mulShiftRightRoundUpIf
  <1>7. n = L * (p - next)
    BY <1>4
  <1> HIDE DEF g, n
  <1>8. n \div WORD \in Nat /\ (n \div WORD) * WORD <= n
    <2> DEFINE q == n \div WORD
               r == n % WORD
    <2>1. WORD \in Nat \ {0} /\ n \in Int
      BY <1>5, WordAssumption
    <2>2. q \in Int /\ r \in 0..WORD - 1 /\ n = q * WORD + r
      BY <2>1, DivisionOf
    <2>3. q \in Nat
      BY <1>5, <2>1
    <2> HIDE DEF q, r
    <2>4. q * WORD \in Int /\ r \in Nat
      BY <2>1, <2>2, ProductInt
    <2>5. q * WORD <= n
      BY <2>1, <2>2, <2>4
    <2> QED BY <2>3, <2>5 DEF q
  <1>9. unfixed \in Nat /\ unfixed * WORD <= n
    BY <1>5, <1>6, <1>8, Widths
  <1> QED BY <1>3, <1>7, <1>9

-----------------------------------------------------------------------------
(* The states of a quote. *)

NextOf(s) == findNextInitializedTickIndex(Ahead(s.sequence, s.tick, call.aToB), call.aToB)

StepFrom(s) ==
    computeSwapStep(s.remaining, FeeRate, s.liquidity, s.sqrt_price, Target(NextOf(s)),
                    call.isInput, call.aToB)

ReachedBy(s) == StepFrom(s).next_price = SqrtPrice[NextOf(s)]

After(s) ==
    [sequence |-> s.sequence, tradable |-> s.tradable,
     remaining |-> s.remaining - Used(StepFrom(s)),
     calculated |-> s.calculated + Counted(StepFrom(s)),
     sqrt_price |-> StepFrom(s).next_price,
     tick |-> IF ReachedBy(s) THEN Stepped(NextOf(s), call.aToB)
              ELSE tick_index_from_sqrt_price(StepFrom(s).next_price),
     liquidity |-> IF ReachedBy(s) THEN calculateNextLiquidity(s.liquidity, Net(SlotTick(NextOf(s))))
                   ELSE s.liquidity,
     touched |-> s.touched \cup Touched(Ahead(s.sequence, s.tick, call.aToB), NextOf(s), call.aToB)]

Goes(s) == Loops(s) /\ InSequence(s.sequence, SearchFrom(s.tick, call.aToB))

Iterates(s, s2) == Goes(s) /\ ~StepFrom(s).error /\ s2 = After(s)

QuoteStates ==
    [sequence : Seq(Starts), tradable : U64, remaining : U64, calculated : Nat, sqrt_price : Nat,
     tick : MIN_TICK_INDEX - 1..MAX_TICK_INDEX, liquidity : Int, touched : SUBSET Int]

\* Where its liquidity and its tick count, they are those of the pool.
Good(s, S, depth, below) ==
    /\ s \in QuoteStates /\ s.sequence = S /\ s.remaining <= s.tradable
    /\ s.sqrt_price \in MIN_SQRT_PRICE_X64..MAX_SQRT_PRICE_X64
    /\ IF call.aToB THEN call.limit <= s.sqrt_price ELSE s.sqrt_price <= call.limit
    /\ call.aToB /\ call.isInput => s.calculated <= U64MAX
    /\ Goes(s) => /\ Placed(s.tick, s.sqrt_price, s.liquidity, depth)
                  /\ call.aToB /\ call.isInput =>
                         HeldOfB(s.tick, s.sqrt_price, s.liquidity, s.calculated, below)

\* A call that is quoted, and whose iterations the program repeats.
Allowed ==
    /\ call.isInput \in BOOLEAN /\ call.aToB \in BOOLEAN /\ (call.aToB \/ ~call.isInput)
    /\ call.limit \in MIN_SQRT_PRICE_X64..MAX_SQRT_PRICE_X64

LEMMA TargetIs ==
    ASSUME NEW left \in BOOLEAN, left = call.aToB, NEW limit \in MIN_SQRT_PRICE_X64..MAX_SQRT_PRICE_X64,
           limit = call.limit, NEW next \in MIN_TICK_INDEX..MAX_TICK_INDEX,
           NEW p \in Nat, IF left THEN limit <= p /\ SqrtPrice[next] <= p
                          ELSE p <= limit /\ p <= SqrtPrice[next],
           NEW target, target = Target(next)
    PROVE  /\ target \in MIN_SQRT_PRICE_X64..MAX_SQRT_PRICE_X64 /\ target \in 1..MAX_SQRT_PRICE_X64
           /\ target \in Nat
           /\ Towards(p, target, left)
           /\ target = limit \/ target = SqrtPrice[next]
           /\ IF left THEN SqrtPrice[next] <= target /\ limit <= target
                      ELSE target <= SqrtPrice[next] /\ target <= limit
  <1>1. PICK x : x = SqrtPrice[next]
    OBVIOUS
  <1>2. x \in MIN_SQRT_PRICE_X64..MAX_SQRT_PRICE_X64 /\ x \in Int /\ limit \in Int
    BY <1>1, TickPrices, MaxPrice
  <1>3. target = IF left THEN Max({limit, x}) ELSE Min({limit, x})
    BY <1>1 DEF Target
  <1>4. target = IF left THEN IF limit < x THEN x ELSE limit ELSE IF limit > x THEN x ELSE limit
    BY <1>2, <1>3, EndsOfPair, SMTT(60)
  <1> QED BY <1>1, <1>2, <1>4, MaxPrice DEF Towards

\* What an iteration begins with.
Heading(s, S, left, limit, next, target) ==
    /\ s.tick \in MIN_TICK_INDEX - 1..MAX_TICK_INDEX
    /\ IF left THEN MIN_TICK_INDEX <= s.tick ELSE s.tick < MAX_TICK_INDEX
    /\ next \in MIN_TICK_INDEX..MAX_TICK_INDEX
    /\ IF left THEN next <= s.tick ELSE s.tick < next
    /\ \A u \in Initialized : IF left THEN ~(next < u /\ u <= s.tick) ELSE ~(s.tick < u /\ u < next)
    /\ next \in Initialized => next \in Int /\ OnGrid(next)
    /\ \/ next \in Initialized
       \/ next = IF left THEN MIN_TICK_INDEX ELSE MAX_TICK_INDEX
       \/ ~InSequence(S, SearchFrom(Stepped(next, left), left))
    /\ target \in MIN_SQRT_PRICE_X64..MAX_SQRT_PRICE_X64 /\ target \in 1..MAX_SQRT_PRICE_X64
    /\ target \in Nat
    /\ Towards(s.sqrt_price, target, left)
    /\ target = limit \/ target = SqrtPrice[next]
    /\ IF left THEN SqrtPrice[next] <= target /\ limit <= target
               ELSE target <= SqrtPrice[next] /\ target <= limit

LEMMA Heads ==
    ASSUME Allowed, NEW S, NEW depth, NEW below, RealPool(pool, depth, below),
           NEW left \in BOOLEAN, left = call.aToB, InOrder(S, left),
           NEW s, Good(s, S, depth, below), Goes(s),
           NEW limit, limit = call.limit, NEW next, next = NextOf(s), NEW target, target = Target(next)
    PROVE  /\ Heading(s, S, left, limit, next, target)
           /\ Initialized \in SUBSET Usable
           /\ next = findNextInitializedTickIndex(Ahead(S, s.tick, left), left)
           /\ \E j \in 1..Len(S) : Begins(S, s.tick, j, left)
  <1>1. /\ s \in QuoteStates /\ s.sequence = S
        /\ s.sqrt_price \in MIN_SQRT_PRICE_X64..MAX_SQRT_PRICE_X64
        /\ IF left THEN limit <= s.sqrt_price ELSE s.sqrt_price <= limit
        /\ Placed(s.tick, s.sqrt_price, s.liquidity, depth)
        /\ s.sqrt_price # limit /\ InSequence(S, SearchFrom(s.tick, left))
        /\ limit \in MIN_SQRT_PRICE_X64..MAX_SQRT_PRICE_X64
    BY DEF Good, Goes, Loops, Allowed
  <1> DEFINE t == s.tick
             p == s.sqrt_price
  <1>2. t \in MIN_TICK_INDEX - 1..MAX_TICK_INDEX /\ t \in Int /\ p \in Nat
    BY <1>1, TickIndexAssumption DEF QuoteStates
  <1>3. /\ t >= MIN_TICK_INDEX => SqrtPrice[t] <= p
        /\ t < MAX_TICK_INDEX => p <= SqrtPrice[t + 1]
    BY <1>1 DEF Placed
  <1>4. /\ MIN_SQRT_PRICE_X64 = SqrtPrice[MIN_TICK_INDEX] /\ MIN_SQRT_PRICE_X64 \in Int
        /\ MAX_SQRT_PRICE_X64 = SqrtPrice[MAX_TICK_INDEX] /\ MAX_SQRT_PRICE_X64 \in Int
    BY MaxPrice DEF MIN_SQRT_PRICE_X64, MAX_SQRT_PRICE_X64
  <1>5. p \in MIN_SQRT_PRICE_X64..MAX_SQRT_PRICE_X64 /\ limit \in Int /\ p # limit
        /\ MIN_SQRT_PRICE_X64 <= limit /\ limit <= MAX_SQRT_PRICE_X64
        /\ IF left THEN limit <= p ELSE p <= limit
    BY <1>1, <1>4
  <1>6. Initialized \in SUBSET Usable
    BY DEF RealPool, Initialized
  <1>7. PICK j \in 1..Len(S) : Begins(S, t, j, left)
    BY <1>1, <1>2, SequenceBegins
  <1>8. next = findNextInitializedTickIndex(Ahead(S, t, left), left)
    BY <1>1 DEF NextOf
  <1> HIDE DEF t, p
  <1>9. IF left THEN MIN_TICK_INDEX <= t ELSE t < MAX_TICK_INDEX
    <2>1. CASE left
      <3> SUFFICES ASSUME t < MIN_TICK_INDEX PROVE FALSE
        BY <1>2, <2>1, TickIndexAssumption
      <3>1. t + 1 = MIN_TICK_INDEX /\ t < MAX_TICK_INDEX
        BY <1>2, TickIndexAssumption
      <3>2. p <= MIN_SQRT_PRICE_X64
        BY <1>3, <1>4, <3>1
      <3> QED BY <1>4, <1>5, <2>1, <3>2
    <2>2. CASE ~left
      <3> SUFFICES ASSUME ~(t < MAX_TICK_INDEX) PROVE FALSE
        BY <2>2
      <3>1. t = MAX_TICK_INDEX /\ t >= MIN_TICK_INDEX
        BY <1>2, TickIndexAssumption
      <3>2. MAX_SQRT_PRICE_X64 <= p
        BY <1>3, <1>4, <3>1
      <3> QED BY <1>4, <1>5, <2>2, <3>2
    <2> QED BY <2>1, <2>2
  <1>10. /\ next \in MIN_TICK_INDEX..MAX_TICK_INDEX
         /\ IF left THEN next <= t ELSE t < next
         /\ \A u \in Initialized : IF left THEN ~(next < u /\ u <= t) ELSE ~(t < u /\ u < next)
         /\ next \in Initialized => next \in Int /\ OnGrid(next)
         /\ \/ next \in Initialized
            \/ next = IF left THEN MIN_TICK_INDEX ELSE MAX_TICK_INDEX
            \/ ~InSequence(S, SearchFrom(Stepped(next, left), left))
    BY <1>2, <1>6, <1>7, <1>8, <1>9, NextIs
  <1>11. IF left THEN SqrtPrice[next] <= p ELSE p <= SqrtPrice[next]
    <2>1. SqrtPrice[next] \in Int /\ next \in Int
      BY <1>10, TickPrices, TickIndexAssumption
    <2>2. CASE left
      <3>1. t \in MIN_TICK_INDEX..MAX_TICK_INDEX /\ next <= t
        BY <1>2, <1>9, <1>10, <2>2
      <3>2. SqrtPrice[next] <= SqrtPrice[t] /\ SqrtPrice[t] \in Int /\ SqrtPrice[t] <= p
        BY <1>3, <1>10, <3>1, TickPrices, PriceOrder, TickIndexAssumption
      <3> QED BY <1>2, <2>1, <2>2, <3>2
    <2>3. CASE ~left
      <3>1. t + 1 \in MIN_TICK_INDEX..MAX_TICK_INDEX /\ t + 1 <= next
        BY <1>2, <1>9, <1>10, <2>3, TickIndexAssumption
      <3>2. SqrtPrice[t + 1] <= SqrtPrice[next] /\ SqrtPrice[t + 1] \in Int /\ p <= SqrtPrice[t + 1]
        BY <1>3, <1>9, <1>10, <2>3, <3>1, TickPrices, PriceOrder
      <3> QED BY <1>2, <2>1, <2>3, <3>2
    <2> QED BY <2>2, <2>3
  <1>12. /\ target \in MIN_SQRT_PRICE_X64..MAX_SQRT_PRICE_X64 /\ target \in 1..MAX_SQRT_PRICE_X64
         /\ target \in Nat /\ Towards(p, target, left)
         /\ target = limit \/ target = SqrtPrice[next]
         /\ IF left THEN SqrtPrice[next] <= target /\ limit <= target
                    ELSE target <= SqrtPrice[next] /\ target <= limit
    <2>1. limit \in MIN_SQRT_PRICE_X64..MAX_SQRT_PRICE_X64
      BY <1>1
    <2>2. IF left THEN limit <= p /\ SqrtPrice[next] <= p ELSE p <= limit /\ p <= SqrtPrice[next]
      BY <1>5, <1>11
    <2> QED BY <1>2, <1>10, <2>1, <2>2, TargetIs
  <1>13. Heading(s, S, left, limit, next, target)
    BY <1>2, <1>9, <1>10, <1>12, Zenon DEF Heading, t, p
  <1> QED BY <1>6, <1>7, <1>8, <1>13, Zenon DEF t

\* What an iteration computes: c by the SDK, k by the program.
Computed(s, left, isInput, target, c, k) ==
    /\ s.remaining \in U64 /\ s.liquidity \in Nat /\ s.sqrt_price \in Nat
    /\ Between(c.next_price, s.sqrt_price, target, left)
    /\ UsedOf(c, isInput) \in 0..s.remaining
    /\ c.next_price # target => UsedOf(c, isInput) = s.remaining
    /\ CountedOf(c, isInput) \in Nat
    /\ c.next_price \in Nat /\ c.next_price \in MIN_SQRT_PRICE_X64..MAX_SQRT_PRICE_X64
    /\ IF left THEN c.next_price <= s.sqrt_price ELSE s.sqrt_price <= c.next_price
    /\ left /\ isInput =>
           /\ CountedOf(c, isInput) * WORD <= s.liquidity * (s.sqrt_price - c.next_price)
    /\ left /\ (isInput \/ CountedOf(c, isInput) <= U64MAX) => k = c
    /\ ~isInput /\ ~k.error => k.next_price = c.next_price /\ k.amount_out = c.amount_out

ProgramStep(s, target) ==
    compute_swap(s.remaining, FeeRate, s.liquidity, s.sqrt_price, target, call.isInput, call.aToB)

LEMMA Computes2 ==
    ASSUME Allowed, NEW S, NEW depth, NEW below, RealPool(pool, depth, below),
           NEW left \in BOOLEAN, left = call.aToB, NEW isInput \in BOOLEAN, isInput = call.isInput,
           InOrder(S, left), NEW s, Good(s, S, depth, below), Goes(s),
           NEW limit, limit = call.limit, NEW next, next = NextOf(s), NEW target, target = Target(next),
           NEW c, c = StepFrom(s), ~c.error, NEW k, k = ProgramStep(s, target)
    PROVE  Computed(s, left, isInput, target, c, k)
  <1>1. Heading(s, S, left, limit, next, target)
    BY Heads
  <1>2. /\ s \in QuoteStates /\ s.liquidity = depth[s.tick]
        /\ s.sqrt_price \in MIN_SQRT_PRICE_X64..MAX_SQRT_PRICE_X64
    BY DEF Good, Placed
  <1>3. /\ s.tick \in MIN_TICK_INDEX - 1..MAX_TICK_INDEX /\ target \in 1..MAX_SQRT_PRICE_X64
        /\ target \in MIN_SQRT_PRICE_X64..MAX_SQRT_PRICE_X64
        /\ Towards(s.sqrt_price, target, left)
    BY <1>1, Zenon DEF Heading
  <1> DEFINE r == s.remaining
             L == s.liquidity
             p == s.sqrt_price
  <1>4. r \in U64 /\ L \in Nat /\ p \in 1..MAX_SQRT_PRICE_X64 /\ p \in Nat
        /\ p \in MIN_SQRT_PRICE_X64..MAX_SQRT_PRICE_X64
    BY <1>2, <1>3, DepthTyped, MaxPrice DEF QuoteStates
  <1>5. /\ c = computeSwapStep(r, FeeRate, L, p, target, isInput, left)
        /\ k = compute_swap(r, FeeRate, L, p, target, isInput, left)
    BY Zenon DEF StepFrom, ProgramStep
  <1>6. left \/ ~isInput
    BY DEF Allowed
  <1> HIDE DEF r, L, p
  <1>7. Towards(p, target, left)
    BY <1>3 DEF p
  <1>8. /\ Between(c.next_price, p, target, left)
        /\ UsedOf(c, isInput) \in 0..r
        /\ c.next_price # target => UsedOf(c, isInput) = r
        /\ CountedOf(c, isInput) \in Nat
        /\ left /\ (isInput \/ CountedOf(c, isInput) <= U64MAX) => k = c
        /\ ~isInput /\ ~k.error => k.next_price = c.next_price /\ k.amount_out = c.amount_out
    BY <1>3, <1>4, <1>5, <1>6, <1>7, SdkStep
  <1>9. /\ c.next_price \in Nat /\ c.next_price \in MIN_SQRT_PRICE_X64..MAX_SQRT_PRICE_X64
        /\ IF left THEN c.next_price <= p ELSE p <= c.next_price
    BY <1>3, <1>4, <1>7, <1>8, MaxPrice DEF Between, Towards
  <1>10. ASSUME left, isInput PROVE CountedOf(c, isInput) * WORD <= L * (p - c.next_price)
    <2>1. c = computeSwapStep(r, FeeRate, L, p, target, TRUE, TRUE)
      BY <1>5, <1>10
    <2>2. c.amount_out * WORD <= L * (p - c.next_price)
      <3>1. c.next_price <= p
        BY <1>9, <1>10
      <3> QED BY <1>4, <1>9, <2>1, <3>1, SdkOutput
    <2>3. CountedOf(c, isInput) = c.amount_out
      BY <1>10 DEF CountedOf
    <2> QED BY <2>2, <2>3, Zenon
  <1> QED BY <1>4, <1>8, <1>9, <1>10, Zenon DEF Computed, r, L, p

LEMMA AfterIs ==
    ASSUME NEW left, left = call.aToB, NEW isInput, isInput = call.isInput,
           NEW s, NEW next, next = NextOf(s), NEW c, c = StepFrom(s), NEW s2, s2 = After(s)
    PROVE  /\ s2.sequence = s.sequence /\ s2.tradable = s.tradable
           /\ s2.remaining = s.remaining - UsedOf(c, isInput)
           /\ s2.calculated = s.calculated + CountedOf(c, isInput)
           /\ s2.sqrt_price = c.next_price
           /\ s2.tick = IF c.next_price = SqrtPrice[next] THEN Stepped(next, left)
                        ELSE tick_index_from_sqrt_price(c.next_price)
           /\ s2.liquidity = IF c.next_price = SqrtPrice[next]
                             THEN calculateNextLiquidity(s.liquidity, Net(SlotTick(next)))
                             ELSE s.liquidity
           /\ s2.touched = s.touched \cup Touched(Ahead(s.sequence, s.tick, left), next, left)
           /\ s2 = [sequence |-> s2.sequence, tradable |-> s2.tradable, remaining |-> s2.remaining,
                    calculated |-> s2.calculated, sqrt_price |-> s2.sqrt_price, tick |-> s2.tick,
                    liquidity |-> s2.liquidity, touched |-> s2.touched]
  <1>1. Used(c) = UsedOf(c, isInput) /\ Counted(c) = CountedOf(c, isInput)
    BY DEF Used, Counted, UsedOf, CountedOf
  <1> QED BY <1>1 DEF After, ReachedBy

LEMMA SlotOnGrid == ASSUME NEW x \in Int, OnGrid(x) PROVE SlotTick(x) = x
  <1>1. SlotTick(x) \in Int /\ SlotTick(x) <= x /\ x <= SlotTick(x)
    BY SlotOfTick
  <1> QED BY <1>1

\* A quote that goes on has reached an initialised tick, and crossed it.
LEMMA GoesOn ==
    ASSUME Allowed, NEW S, NEW depth, NEW below, RealPool(pool, depth, below),
           NEW left \in BOOLEAN, left = call.aToB, NEW isInput \in BOOLEAN, isInput = call.isInput,
           InOrder(S, left), NEW s, Good(s, S, depth, below), Goes(s),
           NEW limit, limit = call.limit, NEW next, next = NextOf(s), NEW target, target = Target(next),
           NEW c, c = StepFrom(s), ~c.error, NEW s2, s2 = After(s), Goes(s2)
    PROVE  /\ next \in Initialized /\ c.next_price = SqrtPrice[next]
           /\ s2.tick = Stepped(next, left)
           /\ Placed(s2.tick, s2.sqrt_price, s2.liquidity, depth)
  <1>1. Heading(s, S, left, limit, next, target)
    BY Heads
  <1>2. PICK k : k = ProgramStep(s, target)
    OBVIOUS
  <1>3. Computed(s, left, isInput, target, c, k)
    BY <1>2, Computes2
  <1>4. /\ s2.sequence = s.sequence
        /\ s2.remaining = s.remaining - UsedOf(c, isInput)
        /\ s2.sqrt_price = c.next_price
        /\ s2.tick = IF c.next_price = SqrtPrice[next] THEN Stepped(next, left)
                     ELSE tick_index_from_sqrt_price(c.next_price)
        /\ s2.liquidity = IF c.next_price = SqrtPrice[next]
                          THEN calculateNextLiquidity(s.liquidity, Net(SlotTick(next)))
                          ELSE s.liquidity
    BY AfterIs
  <1>5. s2.remaining > 0 /\ s2.sqrt_price # limit /\ InSequence(s2.sequence, SearchFrom(s2.tick, left))
    BY DEF Goes, Loops
  <1>6. c.next_price = target
    <2>1. /\ s.remaining \in U64 /\ UsedOf(c, isInput) \in 0..s.remaining
          /\ c.next_price # target => UsedOf(c, isInput) = s.remaining
      BY <1>3, Zenon DEF Computed
    <2>2. s.remaining \in Int
      BY <2>1, Unsigned
    <2> QED BY <1>4, <1>5, <2>1, <2>2
  <1>7. target # limit /\ (target = limit \/ target = SqrtPrice[next])
    BY <1>1, <1>4, <1>5, <1>6, Zenon DEF Heading
  <1>8. c.next_price = SqrtPrice[next] /\ s2.sqrt_price = SqrtPrice[next]
        /\ s2.tick = Stepped(next, left)
        /\ s2.liquidity = calculateNextLiquidity(s.liquidity, Net(SlotTick(next)))
    BY <1>4, <1>6, <1>7, Zenon
  <1>9. next \in Initialized
    <2>1. InSequence(S, SearchFrom(Stepped(next, left), left))
      <3>1. s.sequence = S
        BY DEF Good
      <3> QED BY <1>4, <1>5, <1>8, <3>1, Zenon
    <2>2. next # IF left THEN MIN_TICK_INDEX ELSE MAX_TICK_INDEX
      <3> SUFFICES ASSUME next = IF left THEN MIN_TICK_INDEX ELSE MAX_TICK_INDEX PROVE FALSE
        OBVIOUS
      <3>1. /\ MIN_SQRT_PRICE_X64 = SqrtPrice[MIN_TICK_INDEX] /\ MIN_SQRT_PRICE_X64 \in Int
            /\ MAX_SQRT_PRICE_X64 = SqrtPrice[MAX_TICK_INDEX] /\ MAX_SQRT_PRICE_X64 \in Int
        BY MaxPrice DEF MIN_SQRT_PRICE_X64, MAX_SQRT_PRICE_X64
      <3>2. limit \in MIN_SQRT_PRICE_X64..MAX_SQRT_PRICE_X64
        BY DEF Allowed
      <3>3. IF left THEN limit <= target ELSE target <= limit
        BY <1>1 DEF Heading
      <3>4. target = IF left THEN MIN_SQRT_PRICE_X64 ELSE MAX_SQRT_PRICE_X64
        BY <1>6, <1>8, <3>1
      <3> QED BY <1>7, <3>1, <3>2, <3>3, <3>4
    <2>3. \/ next \in Initialized
          \/ next = IF left THEN MIN_TICK_INDEX ELSE MAX_TICK_INDEX
          \/ ~InSequence(S, SearchFrom(Stepped(next, left), left))
      BY <1>1, Zenon DEF Heading
    <2> QED BY <2>1, <2>2, <2>3, Zenon
  <1>10. /\ s.tick \in MIN_TICK_INDEX - 1..MAX_TICK_INDEX /\ next \in MIN_TICK_INDEX..MAX_TICK_INDEX
         /\ IF left THEN next <= s.tick ELSE s.tick < next
         /\ \A u \in Initialized : IF left THEN ~(next < u /\ u <= s.tick) ELSE ~(s.tick < u /\ u < next)
         /\ next \in Int /\ OnGrid(next)
    BY <1>1, <1>9, Zenon DEF Heading
  <1>11. PICK q : q = pool
    OBVIOUS
  <1>12. RealPool(q, depth, below) /\ Initialized = DOMAIN q.net
    BY <1>11, Zenon DEF Initialized
  <1>13. /\ Placed(Stepped(next, left), SqrtPrice[next], depth[Stepped(next, left)], depth)
         /\ q.net[next] \in Int /\ depth[s.tick] \in Int
         /\ depth[s.tick] + (IF left THEN -q.net[next] ELSE q.net[next]) = depth[Stepped(next, left)]
    <2>1. \A u \in DOMAIN q.net : IF left THEN ~(next < u /\ u <= s.tick)
                                            ELSE ~(s.tick < u /\ u < next)
      BY <1>10, <1>12, Zenon
    <2>2. next \in DOMAIN q.net
      BY <1>9, <1>12, Zenon
    <2>3. PICK t : t = s.tick
      OBVIOUS
    <2>4. /\ t \in MIN_TICK_INDEX - 1..MAX_TICK_INDEX
          /\ IF left THEN next <= t ELSE t < next
          /\ \A u \in DOMAIN q.net : IF left THEN ~(next < u /\ u <= t) ELSE ~(t < u /\ u < next)
      BY <1>10, <2>1, <2>3
    <2>5. /\ Placed(Stepped(next, left), SqrtPrice[next], depth[Stepped(next, left)], depth)
          /\ q.net[next] \in Int /\ depth[t] \in Int
          /\ depth[t] + (IF left THEN -q.net[next] ELSE q.net[next]) = depth[Stepped(next, left)]
      BY <1>10, <1>12, <2>2, <2>4, PlacedNext
    <2> QED BY <2>3, <2>5
  <1>14. Net(SlotTick(next)) = q.net[next]
    <2>1. SlotTick(next) = next
      BY <1>10, SlotOnGrid
    <2> QED BY <1>9, <1>11, <2>1, Zenon DEF Net
  <1>15. s.liquidity = depth[s.tick]
    BY DEF Good, Placed
  <1>16. s2.liquidity = depth[Stepped(next, left)]
    <2>1. s2.liquidity = IF left THEN depth[s.tick] - q.net[next] ELSE depth[s.tick] + q.net[next]
      BY <1>8, <1>14, <1>15 DEF calculateNextLiquidity
    <2> QED BY <1>13, <2>1
  <1> QED BY <1>8, <1>9, <1>13, <1>16, Zenon

LEMMA GoodNext ==
    ASSUME Allowed, NEW S, NEW depth, NEW below, RealPool(pool, depth, below), InOrder(S, call.aToB),
           NEW s, Good(s, S, depth, below), NEW s2, Iterates(s, s2)
    PROVE  /\ Good(s2, S, depth, below)
           /\ s2.touched = s.touched \cup Touched(Ahead(S, s.tick, call.aToB), NextOf(s), call.aToB)
           /\ s2.tradable = s.tradable /\ s.calculated <= s2.calculated
  <1>1. PICK left, isInput, limit, next, c, q :
            left = call.aToB /\ isInput = call.isInput /\ limit = call.limit
            /\ next = NextOf(s) /\ c = StepFrom(s) /\ q = pool
    OBVIOUS
  <1>2. PICK target : target = Target(next)
    OBVIOUS
  <1>3. PICK k : k = ProgramStep(s, target)
    OBVIOUS
  <1>4. left \in BOOLEAN /\ isInput \in BOOLEAN /\ InOrder(S, left) /\ Goes(s) /\ ~c.error /\ s2 = After(s)
    BY <1>1 DEF Allowed, Iterates
  <1>5. Heading(s, S, left, limit, next, target) /\ Initialized \in SUBSET Usable
        /\ next = findNextInitializedTickIndex(Ahead(S, s.tick, left), left)
        /\ \E j \in 1..Len(S) : Begins(S, s.tick, j, left)
    <2>1. Heading(s, S, left, limit, next, target)
      BY <1>1, <1>2, <1>4, Heads
    <2>2. \E j \in 1..Len(S) : Begins(S, s.tick, j, left)
      BY <1>1, <1>2, <1>4, Heads
    <2>3. next = findNextInitializedTickIndex(Ahead(S, s.tick, left), left)
      BY <1>1, Zenon DEF NextOf, Good
    <2>4. Initialized \in SUBSET Usable
      BY DEF RealPool, Initialized
    <2> QED BY <2>1, <2>2, <2>3, <2>4, Zenon
  <1>6. Computed(s, left, isInput, target, c, k)
    BY <1>1, <1>2, <1>3, <1>4, Computes2
  <1>7. /\ s2.sequence = s.sequence /\ s2.tradable = s.tradable
        /\ s2.remaining = s.remaining - UsedOf(c, isInput)
        /\ s2.calculated = s.calculated + CountedOf(c, isInput)
        /\ s2.sqrt_price = c.next_price
        /\ s2.tick = IF c.next_price = SqrtPrice[next] THEN Stepped(next, left)
                     ELSE tick_index_from_sqrt_price(c.next_price)
        /\ s2.liquidity = IF c.next_price = SqrtPrice[next]
                          THEN calculateNextLiquidity(s.liquidity, Net(SlotTick(next)))
                          ELSE s.liquidity
        /\ s2.touched = s.touched \cup Touched(Ahead(s.sequence, s.tick, left), next, left)
        /\ s2 = [sequence |-> s2.sequence, tradable |-> s2.tradable, remaining |-> s2.remaining,
                 calculated |-> s2.calculated, sqrt_price |-> s2.sqrt_price, tick |-> s2.tick,
                 liquidity |-> s2.liquidity, touched |-> s2.touched]
    BY <1>1, <1>4, AfterIs
  <1>8. /\ s \in QuoteStates /\ s.sequence = S /\ s.remaining <= s.tradable
        /\ left /\ isInput => s.calculated <= U64MAX
        /\ Placed(s.tick, s.sqrt_price, s.liquidity, depth)
        /\ left /\ isInput => HeldOfB(s.tick, s.sqrt_price, s.liquidity, s.calculated, below)
    BY <1>1, <1>4, Zenon DEF Good
  <1>9. /\ s.sequence \in Seq(Starts) /\ s.tradable \in U64 /\ s.remaining \in U64
        /\ s.calculated \in Nat /\ s.sqrt_price \in Nat /\ s.liquidity \in Int
        /\ s.touched \in SUBSET Int /\ s.tick \in MIN_TICK_INDEX - 1..MAX_TICK_INDEX
    BY <1>8 DEF QuoteStates
  <1>10. /\ UsedOf(c, isInput) \in 0..s.remaining /\ CountedOf(c, isInput) \in Nat
         /\ c.next_price \in Nat /\ c.next_price \in MIN_SQRT_PRICE_X64..MAX_SQRT_PRICE_X64
         /\ Between(c.next_price, s.sqrt_price, target, left)
         /\ IF left THEN c.next_price <= s.sqrt_price ELSE s.sqrt_price <= c.next_price
         /\ left /\ isInput =>
                CountedOf(c, isInput) * WORD <= s.liquidity * (s.sqrt_price - c.next_price)
    BY <1>6, Zenon DEF Computed
  <1>11. /\ next \in MIN_TICK_INDEX..MAX_TICK_INDEX
         /\ IF left THEN MIN_TICK_INDEX <= s.tick ELSE s.tick < MAX_TICK_INDEX
         /\ IF left THEN next <= s.tick ELSE s.tick < next
         /\ \A u \in Initialized : IF left THEN ~(next < u /\ u <= s.tick) ELSE ~(s.tick < u /\ u < next)
         /\ target \in Nat
         /\ IF left THEN SqrtPrice[next] <= target /\ limit <= target
                    ELSE target <= SqrtPrice[next] /\ target <= limit
    BY <1>5, Zenon DEF Heading
  <1>12. s2.remaining \in U64 /\ s2.remaining <= s2.tradable
    <2>1. \A x \in U64 : x \in Nat /\ x <= U64MAX
      BY Unsigned
    <2>2. /\ s.remaining \in Nat /\ s.remaining <= U64MAX /\ s.tradable \in Nat
      BY <1>9, <2>1
    <2>3. s2.remaining = s.remaining - UsedOf(c, isInput) /\ s2.tradable = s.tradable
      BY <1>7, Zenon
    <2>4. UsedOf(c, isInput) \in 0..s.remaining /\ s.remaining <= s.tradable
      BY <1>8, <1>10, Zenon
    <2>5. s2.remaining \in Nat /\ s2.remaining <= U64MAX /\ s2.remaining <= s2.tradable
      BY <2>2, <2>3, <2>4, Widths
    <2> QED BY <2>5, Widths DEF U64
  <1>13. s2.calculated \in Nat /\ s.calculated <= s2.calculated
    BY <1>7, <1>9, <1>10
  <1>14. /\ s2.sqrt_price \in MIN_SQRT_PRICE_X64..MAX_SQRT_PRICE_X64 /\ s2.sqrt_price \in Nat
         /\ IF left THEN limit <= s2.sqrt_price ELSE s2.sqrt_price <= limit
    <2>1. limit \in Int
      BY <1>1, MaxPrice DEF Allowed
    <2>2. IF left THEN target <= c.next_price ELSE c.next_price <= target
      BY <1>9, <1>10, <1>11 DEF Between
    <2> QED BY <1>7, <1>10, <1>11, <2>1, <2>2
  <1>15. s2.tick \in MIN_TICK_INDEX - 1..MAX_TICK_INDEX
    <2>1. Stepped(next, left) \in MIN_TICK_INDEX - 1..MAX_TICK_INDEX
      BY <1>11, TickIndexAssumption DEF Stepped
    <2>2. tick_index_from_sqrt_price(c.next_price) \in MIN_TICK_INDEX..MAX_TICK_INDEX
      BY <1>10, TickOfPrice
    <2>3. tick_index_from_sqrt_price(c.next_price) \in MIN_TICK_INDEX - 1..MAX_TICK_INDEX
      BY <2>2, TickIndexAssumption
    <2> QED BY <1>7, <2>1, <2>3
  <1>16. s2.liquidity \in Int
    <2>1. Net(SlotTick(next)) \in Int
      BY DEF Net, RealPool, Initialized
    <2>2. calculateNextLiquidity(s.liquidity, Net(SlotTick(next))) \in Int
      BY <1>9, <2>1 DEF calculateNextLiquidity
    <2> QED BY <1>7, <1>9, <2>2
  <1>17. Touched(Ahead(S, s.tick, left), next, left) \subseteq Int
    <2>1. PICK j \in 1..Len(S) : Begins(S, s.tick, j, left)
      BY <1>5
    <2>2. s.tick \in Int
      BY <1>9, TickIndexAssumption
    <2>3. PICK n \in j..Len(S) : Touched(Ahead(S, s.tick, left), next, left) = {S[i] : i \in j..n}
      BY <1>4, <1>5, <2>1, <2>2, TouchedAre
    <2>4. \A i \in j..n : S[i] \in Int
      BY <1>4, OrderedArrays
    <2> QED BY <2>3, <2>4
  <1>18. s2.touched \in SUBSET Int
    BY <1>7, <1>8, <1>9, <1>17
  <1>19. s2 \in QuoteStates
    <2>1. s2.sequence \in Seq(Starts) /\ s2.tradable \in U64
      BY <1>7, <1>9, Zenon
    <2> HIDE <1>1, <1>4
    <2> QED BY <1>7, <1>12, <1>13, <1>14, <1>15, <1>16, <1>18, <2>1, Zenon DEF QuoteStates
  <1>20. ASSUME left, isInput
         PROVE  /\ s2.calculated <= U64MAX
                /\ c.next_price = SqrtPrice[next] =>
                       HeldOfB(next - 1, s2.sqrt_price, depth[next - 1], s2.calculated, below)
    <2> DEFINE taken == s.calculated
               out == CountedOf(c, isInput)
               p == s.sqrt_price
               p2 == c.next_price
               t == s.tick
    <2>1. /\ t \in MIN_TICK_INDEX..MAX_TICK_INDEX /\ next \in MIN_TICK_INDEX..t
          /\ p \in Nat /\ p2 \in Nat /\ p2 <= p /\ taken \in Nat /\ out \in Nat
      <3>1. p \in Nat /\ p2 \in Nat /\ p2 <= p /\ taken \in Nat /\ out \in Nat
        BY <1>9, <1>10, <1>20, Zenon
      <3>2. MIN_TICK_INDEX <= t /\ t \in MIN_TICK_INDEX - 1..MAX_TICK_INDEX /\ next <= t
        BY <1>9, <1>11, <1>20, Zenon
      <3> QED BY <1>11, <3>1, <3>2, TickIndexAssumption
    <2>2. SqrtPrice[next] <= p2
      <3>1. target <= p2 /\ SqrtPrice[next] <= target
        BY <1>9, <1>10, <1>11, <1>20 DEF Between
      <3>2. SqrtPrice[next] \in Int
        BY <1>11, TickPrices
      <3> QED BY <1>11, <2>1, <3>1, <3>2
    <2>3. s.liquidity = depth[t]
      BY <1>8 DEF Placed
    <2>4. /\ out * WORD <= depth[t] * (p - p2)
          /\ HeldOfB(t, p, depth[t], taken, below)
      BY <1>8, <1>10, <1>20, <2>3
    <2>5. RealPool(q, depth, below) /\ Initialized = DOMAIN q.net
      BY <1>1, Zenon DEF Initialized
    <2>6. \A u \in DOMAIN q.net : ~(next < u /\ u <= t)
      BY <1>11, <1>20, <2>5
    <2> HIDE DEF taken, out, p, p2, t
    <2>7. /\ taken + out <= U64MAX
          /\ p2 = SqrtPrice[next] => HeldOfB(next - 1, p2, depth[next - 1], taken + out, below)
      BY <2>1, <2>2, <2>4, <2>5, <2>6, TakenOfB
    <2>8. s2.calculated = taken + out /\ s2.sqrt_price = p2 /\ c.next_price = p2
      BY <1>7 DEF taken, out, p2
    <2> QED BY <2>7, <2>8, Zenon
  <1>21. ASSUME Goes(s2)
         PROVE  /\ Placed(s2.tick, s2.sqrt_price, s2.liquidity, depth)
                /\ left /\ isInput =>
                       HeldOfB(s2.tick, s2.sqrt_price, s2.liquidity, s2.calculated, below)
    <2>1. /\ c.next_price = SqrtPrice[next] /\ s2.tick = Stepped(next, left)
          /\ Placed(s2.tick, s2.sqrt_price, s2.liquidity, depth)
      BY <1>1, <1>2, <1>4, <1>21, GoesOn
    <2>2. s2.liquidity = depth[s2.tick]
      BY <2>1 DEF Placed
    <2>3. left => s2.tick = next - 1
      BY <2>1 DEF Stepped
    <2> QED BY <1>20, <2>1, <2>2, <2>3, Zenon
  <1>22. Good(s2, S, depth, below)
    <2>1. s2.sequence = S
      BY <1>7, <1>8
    <2>2. /\ IF call.aToB THEN call.limit <= s2.sqrt_price ELSE s2.sqrt_price <= call.limit
          /\ call.aToB /\ call.isInput => s2.calculated <= U64MAX
      BY <1>1, <1>14, <1>20
    <2>3. Goes(s2) => /\ Placed(s2.tick, s2.sqrt_price, s2.liquidity, depth)
                      /\ call.aToB /\ call.isInput =>
                             HeldOfB(s2.tick, s2.sqrt_price, s2.liquidity, s2.calculated, below)
      BY <1>1, <1>21
    <2> QED BY <1>12, <1>14, <1>19, <2>1, <2>2, <2>3, Zenon DEF Good
  <1> QED BY <1>1, <1>7, <1>8, <1>13, <1>22

\* An initialised tick that the search returns is one of the slots it looked at.
LEMMA SeenIs ==
    ASSUME NEW S, NEW left \in BOOLEAN, InOrder(S, left), Initialized \in SUBSET Usable,
           NEW t \in MIN_TICK_INDEX - 1..MAX_TICK_INDEX, NEW j, Begins(S, t, j, left),
           IF left THEN MIN_TICK_INDEX <= t ELSE t < MAX_TICK_INDEX,
           NEW next, next = findNextInitializedTickIndex(Ahead(S, t, left), left),
           next \in Initialized
    PROVE  Ahead(S, t, left) \cap Initialized # {}
  <1> DEFINE n == Len(S)
             r == get_next_initialized_tick_index(S, Initialized, t, TickSpacing, left, j)
  <1>1. /\ MIN_TICK_INDEX \in Int /\ MAX_TICK_INDEX \in Int /\ t \in Int
        /\ MIN_TICK_INDEX - 1 <= t /\ t <= MAX_TICK_INDEX
    BY TickIndexAssumption
  <1>2. Reached(Initialized, t, left, t)
    BY <1>1 DEF Reached
  <1>3. n \in Nat /\ j \in 1..n /\ n \in j..Len(S) /\ \A i \in 1..n : S[i] = S[i]
    BY OrderedArrays, BeginsIn
  <1>4. PICK k \in j..n : IF Ahead(S, t, left) \cap Initialized # {} THEN Holds(S[k], next) ELSE k = n
    BY <1>1, TouchedAre
  <1>5. r.array_index \in 1..n /\ Holds(S[r.array_index], next)
    <2> DEFINE seen == Ahead(S, t, left) \cap Initialized # {}
    <2>1. IF seen THEN Holds(S[k], next) ELSE n = Len(S)
      BY <1>4
    <2> HIDE DEF seen
    <2>2. k \in j..n /\ Len(S) = n
      BY <1>4
    <2> QED BY <1>1, <1>2, <1>3, <2>1, <2>2, SearchAgrees DEF seen
  <1>6. next \in Int /\ OnGrid(next)
    BY UsableOnGrid
  <1>7. IF left THEN next <= t ELSE t < next
    BY NextIs
  <1>8. next \in Ahead(S, t, left)
    <2>1. \E i \in 1..Len(S) : Holds(S[i], next)
      BY <1>5
    <2> QED BY <1>1, <1>6, <1>7, <2>1, SlotsLookedAt
  <1> QED BY <1>8

\* The arrays touched are the first of the sequence, and the quote goes on in
\* one of them or in the one after them.
Prefix(s, S, m) ==
    /\ s.touched = {S[i] : i \in 1..m}
    /\ Goes(s) => \E j \in 1..m + 1 : Begins(S, s.tick, j, call.aToB)

LEMMA TouchesNext ==
    ASSUME Allowed, NEW S, NEW depth, NEW below, RealPool(pool, depth, below), InOrder(S, call.aToB),
           NEW s, Good(s, S, depth, below), NEW s2, Iterates(s, s2),
           NEW m \in 0..Len(S), Prefix(s, S, m)
    PROVE  \E m2 \in 1..Len(S) : Prefix(s2, S, m2)
  <1>1. PICK left, isInput, limit, next, c :
            left = call.aToB /\ isInput = call.isInput /\ limit = call.limit
            /\ next = NextOf(s) /\ c = StepFrom(s)
    OBVIOUS
  <1>2. PICK target : target = Target(next)
    OBVIOUS
  <1>4. left \in BOOLEAN /\ isInput \in BOOLEAN /\ InOrder(S, left) /\ Goes(s) /\ ~c.error /\ s2 = After(s)
    BY <1>1 DEF Allowed, Iterates
  <1>5. Heading(s, S, left, limit, next, target)
    BY <1>1, <1>2, <1>4, Heads
  <1>6. /\ s.tick \in MIN_TICK_INDEX - 1..MAX_TICK_INDEX /\ s.tick \in Int
        /\ IF left THEN MIN_TICK_INDEX <= s.tick ELSE s.tick < MAX_TICK_INDEX
        /\ next \in Initialized => next \in Int /\ OnGrid(next)
    BY <1>5, TickIndexAssumption DEF Heading
  <1>7. next = findNextInitializedTickIndex(Ahead(S, s.tick, left), left) /\ s.sequence = S
    BY <1>1, Zenon DEF NextOf, Good
  <1>8. Initialized \in SUBSET Usable
    BY DEF RealPool, Initialized
  <1>9. PICK j \in 1..m + 1 : Begins(S, s.tick, j, left)
    BY <1>1, <1>4, Zenon DEF Prefix
  <1>10. PICK k \in j..Len(S) :
             /\ Touched(Ahead(S, s.tick, left), next, left) = {S[i] : i \in j..k}
             /\ IF Ahead(S, s.tick, left) \cap Initialized # {} THEN Holds(S[k], next) ELSE k = Len(S)
    BY <1>4, <1>6, <1>7, <1>9, TouchedAre
  <1>11. Len(S) \in Nat /\ m \in Nat /\ j \in 1..Len(S) /\ k \in 1..Len(S)
    BY <1>4, <1>6, <1>9, <1>10, OrderedArrays, BeginsIn
  <1> DEFINE m2 == IF k > m THEN k ELSE m
  <1>12. m2 \in 1..Len(S) /\ k <= m2 /\ k + 1 \in 1..m2 + 1 /\ k \in 1..m2 + 1
    BY <1>11
  <1>13. s2.touched = {S[i] : i \in 1..m2}
    <2>1. s2.touched = s.touched \cup Touched(Ahead(S, s.tick, left), next, left)
      BY <1>1, GoodNext
    <2>2. s2.touched = {S[i] : i \in 1..m} \cup {S[i] : i \in j..k}
      BY <1>10, <2>1, Zenon DEF Prefix
    <2>3. \A i : i \in 1..m2 <=> i \in 1..m \/ i \in j..k
      BY <1>9, <1>11
    <2> HIDE DEF m2
    <2> QED BY <2>2, <2>3
  <1>14. ASSUME Goes(s2) PROVE \E h \in 1..m2 + 1 : Begins(S, s2.tick, h, call.aToB)
    <2>1. next \in Initialized /\ s2.tick = Stepped(next, left)
      BY <1>1, <1>2, <1>4, <1>14, GoesOn
    <2>2. Holds(S[k], next)
      <3>1. Ahead(S, s.tick, left) \cap Initialized # {}
        BY <1>4, <1>6, <1>7, <1>8, <1>9, <2>1, SeenIs
      <3> QED BY <1>10, <3>1
    <2>3. InSequence(S, SearchFrom(s2.tick, left))
      <3>1. s2.sequence = S
        BY <1>4, <1>7 DEF After
      <3> QED BY <1>1, <1>14, <3>1, Zenon DEF Goes
    <2>4. PICK t : t = s2.tick
      OBVIOUS
    <2>5. t \in Int /\ t = (IF left THEN next - 1 ELSE next) /\ InSequence(S, SearchFrom(t, left))
      BY <1>6, <2>1, <2>3, <2>4 DEF Stepped
    <2>6. Begins(S, t, ArrayAfter(S[k], k, next, TickSpacing, left), left)
      BY <1>4, <1>6, <1>11, <2>1, <2>2, <2>5, Advance
    <2>7. ArrayAfter(S[k], k, next, TickSpacing, left) \in {k, k + 1}
      BY DEF ArrayAfter
    <2> HIDE DEF m2
    <2> QED BY <1>1, <1>12, <2>4, <2>6, <2>7
  <1> QED BY <1>12, <1>13, <1>14, Zenon DEF Prefix

-----------------------------------------------------------------------------
(* The program repeats an iteration of the quote. *)

FirstOf(A, S, left, m) == InOrder(A, left) /\ Len(A) = m /\ \A i \in 1..m : A[i] = S[i]

LEMMA FirstOfArrays ==
    ASSUME NEW S, NEW left \in BOOLEAN, InOrder(S, left), NEW m \in 0..Len(S)
    PROVE  FirstOf(SubSeq(S, 1, m), S, left, m)
  BY FirstArrays DEF FirstOf

Finds(found, S, A, m, next) ==
    /\ ~found.error /\ found.tick_index = next
    /\ found.array_index \in 1..m /\ A[found.array_index] = S[found.array_index]
    /\ Holds(S[found.array_index], next)
    /\ next \in Initialized => has_tick(A[found.array_index], next, TickSpacing)

LEMMA TradeFinds ==
    ASSUME Allowed, NEW S, NEW depth, NEW below, RealPool(pool, depth, below),
           NEW left \in BOOLEAN, left = call.aToB, InOrder(S, left), NEW s, Good(s, S, depth, below),
           NEW s2, Iterates(s, s2),
           NEW m \in 0..Len(S), s2.touched \subseteq {S[i] : i \in 1..m},
           NEW A, FirstOf(A, S, left, m),
           NEW t, t = s.tick, NEW next, next = NextOf(s), NEW j, Begins(S, t, j, left),
           NEW found, found = get_next_initialized_tick_index(A, Initialized, t, TickSpacing, left, j)
    PROVE  Finds(found, S, A, m, next)
  <1>1. PICK isInput, limit : isInput = call.isInput /\ limit = call.limit
    OBVIOUS
  <1>2. PICK target : target = Target(next)
    OBVIOUS
  <1>3. left \in BOOLEAN /\ InOrder(S, left) /\ Goes(s) /\ Begins(S, t, j, left)
    BY DEF Allowed, Iterates
  <1>4. Heading(s, S, left, limit, next, target)
    BY <1>1, <1>2, <1>3, Heads
  <1>5. /\ t \in MIN_TICK_INDEX - 1..MAX_TICK_INDEX /\ t \in Int /\ MIN_TICK_INDEX - 1 <= t
        /\ IF left THEN MIN_TICK_INDEX <= t ELSE t < MAX_TICK_INDEX
    BY <1>1, <1>4, TickIndexAssumption DEF Heading
  <1>6. next = findNextInitializedTickIndex(Ahead(S, t, left), left)
    BY Zenon DEF NextOf, Good
  <1>7. Initialized \in SUBSET Usable
    BY DEF RealPool, Initialized
  <1>8. PICK k \in j..Len(S) :
            /\ Touched(Ahead(S, t, left), next, left) = {S[i] : i \in j..k}
            /\ IF Ahead(S, t, left) \cap Initialized # {} THEN Holds(S[k], next) ELSE k = Len(S)
    BY <1>3, <1>5, <1>6, TouchedAre
  <1>9. Len(S) \in Nat /\ m \in Nat /\ j \in 1..Len(S) /\ k \in 1..Len(S)
    BY <1>3, <1>5, <1>8, OrderedArrays, BeginsIn
  <1>10. k \in 1..m
    <2>1. s2.touched = s.touched \cup Touched(Ahead(S, t, left), next, left)
      BY <1>1, GoodNext
    <2>2. S[k] \in {S[i] : i \in j..k}
      BY <1>8, <1>9
    <2>3. PICK i \in 1..m : S[k] = S[i]
      <3>1. S[k] \in s2.touched
        BY <1>8, <2>1, <2>2
      <3>2. S[k] \in {S[i] : i \in 1..m}
        BY <3>1
      <3> QED BY <3>2
    <2>4. /\ S[k] \in Int /\ S[i] \in Int
          /\ k < i => IF left THEN S[i] + K <= S[k] ELSE S[k] + K <= S[i]
          /\ i < k => IF left THEN S[k] + K <= S[i] ELSE S[i] + K <= S[k]
      BY <1>3, <1>9, OrderedArrays
    <2>5. k = i
      BY <1>9, <2>3, <2>4, SizeOfArray
    <2> QED BY <2>5
  <1>12. Reached(Initialized, t, left, t)
    BY <1>5 DEF Reached
  <1>13. /\ ~found.error /\ found.tick_index = next
         /\ Sound(found, A, Initialized, t, left, j)
         /\ found.array_index \in 1..m /\ A[found.array_index] = S[found.array_index]
         /\ Holds(S[found.array_index], next)
    <2>1. m \in j..Len(S) /\ k \in j..m
      BY <1>8, <1>9, <1>10
    <2>2. IF Ahead(S, t, left) \cap Initialized # {} THEN Holds(S[k], next) ELSE m = Len(S)
      BY <1>8, <1>9, <1>10
    <2>3. found = get_next_initialized_tick_index(A, Initialized, t, TickSpacing, left, j)
      BY <1>1
    <2>4. InOrder(A, left) /\ Len(A) = m /\ \A i \in 1..m : A[i] = S[i]
      BY Zenon DEF FirstOf
    <2> QED BY <1>3, <1>5, <1>6, <1>7, <1>12, <2>1, <2>2, <2>3, <2>4, SearchAgrees
  <1>14. next \in Initialized => has_tick(A[found.array_index], next, TickSpacing)
    BY <1>13 DEF Sound
  <1> QED BY <1>13, <1>14, Zenon DEF Finds

\* The program's swap x is where the quote was at s.
Follows(x, s, S) ==
    /\ x.remaining = s.remaining /\ x.sqrt_price = s.sqrt_price
    /\ call.aToB => x.calculated = s.calculated
    /\ Goes(s) => /\ x.tick = s.tick /\ x.liquidity = s.liquidity
                  /\ Begins(S, x.tick, x.index, call.aToB)

Lands(S, s, s2, found, d) ==
    /\ ~found.error /\ found.tick_index = NextOf(s)
    /\ LiquidityAfter(found, d) \in U128
    /\ Goes(s2) =>
           /\ d.next_price = SqrtPrice[NextOf(s)] /\ s2.tick = TickAfter(NextOf(s), call.aToB)
           /\ LiquidityAfter(found, d) = s2.liquidity
           /\ Begins(S, s2.tick, ArrayAfter(trade.arrays[found.array_index], found.array_index,
                                            NextOf(s), TickSpacing, call.aToB), call.aToB)

LEMMA TradeLands ==
    ASSUME Allowed, NEW S, NEW depth, NEW below, RealPool(pool, depth, below), InOrder(S, call.aToB),
           NEW s, Good(s, S, depth, below), NEW s2, Iterates(s, s2),
           NEW m \in 0..Len(S), s2.touched \subseteq {S[i] : i \in 1..m},
           Follows(trade, s, S), trade.arrays = SubSeq(S, 1, m),
           NEW found, found = get_next_initialized_tick_index(trade.arrays, Initialized, trade.tick,
                                                              TickSpacing, call.aToB, trade.index),
           NEW c, c = StepFrom(s), NEW d, d.next_price = c.next_price
    PROVE  Lands(S, s, s2, found, d)
  <1>1. PICK left, isInput, limit, next, t, q :
            left = call.aToB /\ isInput = call.isInput /\ limit = call.limit
            /\ next = NextOf(s) /\ t = s.tick /\ q = pool
    OBVIOUS
  <1>2. PICK target, A, a, j : target = Target(next) /\ A = trade.arrays /\ a = found.array_index
                               /\ j = trade.index
    OBVIOUS
  <1>3. left \in BOOLEAN /\ isInput \in BOOLEAN /\ InOrder(S, left) /\ Goes(s) /\ ~c.error
        /\ s2 = After(s)
    BY <1>1 DEF Allowed, Iterates
  <1>4. /\ trade.tick = t /\ trade.liquidity = s.liquidity /\ Begins(S, t, j, call.aToB)
    BY <1>1, <1>2, <1>3 DEF Follows
  <1>5. /\ ~found.error /\ found.tick_index = next
        /\ a \in 1..m /\ A[a] = S[a] /\ Holds(S[a], next)
        /\ next \in Initialized => has_tick(A[a], next, TickSpacing)
    <2>1. found = get_next_initialized_tick_index(A, Initialized, t, TickSpacing, left, j)
      BY <1>1, <1>2, <1>4, Zenon
    <2>2. A = SubSeq(S, 1, m)
      BY <1>2, Zenon
    <2>3. FirstOf(A, S, left, m)
      <3>1. FirstOf(SubSeq(S, 1, m), S, left, m)
        BY <1>3, FirstOfArrays
      <3> QED BY <2>2, <3>1, Zenon
    <2>4. Begins(S, t, j, left)
      BY <1>1, <1>4
    <2>5. Finds(found, S, A, m, next)
      BY <1>1, <1>3, <2>1, <2>3, <2>4, TradeFinds
    <2> QED BY <1>2, <2>5, Zenon DEF Finds
  <1>6. Heading(s, S, left, limit, next, target)
    BY <1>1, <1>2, <1>3, Heads
  <1>7. /\ t \in MIN_TICK_INDEX - 1..MAX_TICK_INDEX /\ next \in MIN_TICK_INDEX..MAX_TICK_INDEX
        /\ IF left THEN next <= t ELSE t < next
        /\ \A u \in Initialized : IF left THEN ~(next < u /\ u <= t) ELSE ~(t < u /\ u < next)
        /\ next \in Initialized => next \in Int /\ OnGrid(next)
    BY <1>1, <1>6, Zenon DEF Heading
  <1>8. RealPool(q, depth, below) /\ Initialized = DOMAIN q.net
    BY <1>1, Zenon DEF Initialized
  <1>9. /\ Stepped(next, left) \in MIN_TICK_INDEX - 1..MAX_TICK_INDEX
        /\ next \in Initialized =>
               /\ q.net[next] \in Int /\ depth[t] \in Int
               /\ depth[t] + (IF left THEN -q.net[next] ELSE q.net[next]) = depth[Stepped(next, left)]
    <2>1. \A u \in DOMAIN q.net : IF left THEN ~(next < u /\ u <= t) ELSE ~(t < u /\ u < next)
      BY <1>7, <1>8, Zenon
    <2>2. /\ Stepped(next, left) \in MIN_TICK_INDEX - 1..MAX_TICK_INDEX
          /\ next \in DOMAIN q.net =>
               /\ q.net[next] \in Int /\ depth[t] \in Int
               /\ depth[t] + (IF left THEN -q.net[next] ELSE q.net[next]) = depth[Stepped(next, left)]
      BY <1>3, <1>7, <1>8, <2>1, PlacedNext
    <2> QED BY <1>8, <2>2
  <1>10. depth[t] \in U128 /\ depth[Stepped(next, left)] \in U128 /\ trade.liquidity = depth[t]
    <2>1. s.liquidity = depth[s.tick]
      BY <1>3 DEF Good, Placed
    <2> QED BY <1>1, <1>4, <1>7, <1>8, <1>9, <2>1, DepthTyped
  <1> DEFINE crossed == Crossed(found, d)
             net == IF crossed THEN Net(next) ELSE 0
  <1>11. LiquidityAfter(found, d) = Checked(depth[t] + (IF left THEN -net ELSE net), U128MAX)
    BY <1>1, <1>5, <1>10 DEF LiquidityAfter, add_liquidity_delta
  <1>12. \A x \in U128 : Checked(x, U128MAX) = x
    BY Unsigned, Widths DEF Checked
  <1>13. net = IF crossed /\ next \in Initialized THEN q.net[next] ELSE 0
    BY <1>1 DEF Net
  <1> HIDE DEF crossed, net
  <1>14. LiquidityAfter(found, d) = IF crossed /\ next \in Initialized
                                    THEN depth[Stepped(next, left)] ELSE depth[t]
    <2>1. CASE crossed /\ next \in Initialized
      <3>1. depth[t] + (IF left THEN -net ELSE net) = depth[Stepped(next, left)]
        BY <1>9, <1>13, <2>1
      <3> QED BY <1>10, <1>11, <1>12, <2>1, <3>1
    <2>2. CASE ~(crossed /\ next \in Initialized)
      <3>1. net = 0 /\ depth[t] \in Int
        BY <1>10, <1>13, <2>2, Unsigned
      <3>2. depth[t] + (IF left THEN -net ELSE net) = depth[t]
        BY <3>1
      <3> QED BY <1>10, <1>11, <1>12, <2>2, <3>2
    <2> QED BY <2>1, <2>2
  <1>15. LiquidityAfter(found, d) \in U128
    BY <1>10, <1>14
  <1>16. ASSUME Goes(s2)
         PROVE  /\ d.next_price = SqrtPrice[next] /\ s2.tick = TickAfter(next, left)
                /\ LiquidityAfter(found, d) = s2.liquidity
                /\ Begins(S, s2.tick, ArrayAfter(A[a], a, next, TickSpacing, left), left)
    <2>1. /\ next \in Initialized /\ c.next_price = SqrtPrice[next] /\ s2.tick = Stepped(next, left)
          /\ Placed(s2.tick, s2.sqrt_price, s2.liquidity, depth)
      BY <1>1, <1>2, <1>3, <1>16, GoesOn
    <2>2. crossed
      BY <1>2, <1>5, <2>1 DEF Crossed, sqrt_price_from_tick_index, crossed
    <2>3. LiquidityAfter(found, d) = s2.liquidity
      BY <1>14, <2>1, <2>2 DEF Placed
    <2>4. s2.tick = TickAfter(next, left)
      BY <2>1 DEF Stepped, TickAfter
    <2>5. InSequence(S, SearchFrom(s2.tick, left))
      <3>1. s2.sequence = S
        BY <1>3 DEF After, Good
      <3> QED BY <1>1, <1>16, <3>1, Zenon DEF Goes
    <2>6. PICK t2 : t2 = s2.tick
      OBVIOUS
    <2>7. t2 \in Int /\ t2 = (IF left THEN next - 1 ELSE next) /\ InSequence(S, SearchFrom(t2, left))
      BY <1>7, <2>1, <2>5, <2>6 DEF Stepped
    <2>8. a \in 1..Len(S)
      BY <1>3, <1>5, OrderedArrays
    <2>9. Begins(S, t2, ArrayAfter(S[a], a, next, TickSpacing, left), left)
      BY <1>3, <1>5, <1>7, <2>1, <2>7, <2>8, Advance
    <2> QED BY <1>5, <2>1, <2>3, <2>4, <2>6, <2>9
  <1> QED BY <1>1, <1>2, <1>5, <1>15, <1>16 DEF Lands

\* The record of a swap.
Shaped(x) ==
    x = [estimateIn |-> x.estimateIn, estimateOut |-> x.estimateOut, threshold |-> x.threshold,
         arrays |-> x.arrays, tradable |-> x.tradable, remaining |-> x.remaining,
         calculated |-> x.calculated, sqrt_price |-> x.sqrt_price, tick |-> x.tick,
         liquidity |-> x.liquidity, index |-> x.index, cause |-> x.cause]

SameQuote(x, y) ==
    /\ x.estimateIn = y.estimateIn /\ x.estimateOut = y.estimateOut /\ x.threshold = y.threshold
    /\ x.arrays = y.arrays /\ x.tradable = y.tradable

Moves(x, found, d, next) ==
    /\ Shaped(x) /\ SameQuote(x, trade) /\ x.cause = trade.cause
    /\ x.remaining = trade.remaining - Used(d)
    /\ x.calculated = trade.calculated + Counted(d)
    /\ x.sqrt_price = d.next_price
    /\ x.liquidity = LiquidityAfter(found, d)
    /\ d.next_price = SqrtPrice[next] =>
           /\ x.tick = TickAfter(next, call.aToB)
           /\ x.index = ArrayAfter(trade.arrays[found.array_index], found.array_index, next,
                                        TickSpacing, call.aToB)

LEMMA TradeFields ==
    ASSUME Shaped(trade), NEW found, NEW d, NEW next, found.tick_index = next, TradeIterates(found, d)
    PROVE  Moves(trade', found, d, next)
  <1>1. PICK used, counted, liquidity, index, tick, price, t :
            /\ used = Used(d) /\ counted = Counted(d) /\ liquidity = LiquidityAfter(found, d)
            /\ index = ArrayAfter(trade.arrays[found.array_index], found.array_index, next,
                                  TickSpacing, call.aToB)
            /\ tick = TickAfter(next, call.aToB) /\ price = d.next_price
            /\ t = tick_index_from_sqrt_price(d.next_price)
    OBVIOUS
  <1>2. trade' = [trade EXCEPT
                    !.remaining = trade.remaining - used,
                    !.calculated = trade.calculated + counted,
                    !.liquidity = liquidity,
                    !.index = IF price = SqrtPrice[next] THEN index ELSE trade.index,
                    !.tick = IF price = SqrtPrice[next] THEN tick
                             ELSE IF price # trade.sqrt_price THEN t ELSE trade.tick,
                    !.sqrt_price = price]
    BY <1>1 DEF TradeIterates, sqrt_price_from_tick_index
  <1> HIDE DEF Shaped
  <1>3. trade = [estimateIn |-> trade.estimateIn, estimateOut |-> trade.estimateOut,
                 threshold |-> trade.threshold,
         arrays |-> trade.arrays, tradable |-> trade.tradable, remaining |-> trade.remaining,
         calculated |-> trade.calculated, sqrt_price |-> trade.sqrt_price, tick |-> trade.tick,
         liquidity |-> trade.liquidity, index |-> trade.index, cause |-> trade.cause]
    BY DEF Shaped
  <1>4. trade' = [estimateIn |-> trade.estimateIn, estimateOut |-> trade.estimateOut,
                  threshold |-> trade.threshold,
         arrays |-> trade.arrays, tradable |-> trade.tradable, remaining |-> trade.remaining - used,
         calculated |-> trade.calculated + counted, sqrt_price |-> price,
         tick |-> IF price = SqrtPrice[next] THEN tick
                  ELSE IF price # trade.sqrt_price THEN t ELSE trade.tick,
         liquidity |-> liquidity,
         index |-> IF price = SqrtPrice[next] THEN index ELSE trade.index, cause |-> trade.cause]
    BY <1>2, <1>3
  <1>5. /\ SameQuote(trade', trade) /\ trade'.cause = trade.cause
        /\ trade'.remaining = trade.remaining - used
        /\ trade'.calculated = trade.calculated + counted
        /\ trade'.sqrt_price = price
        /\ trade'.liquidity = liquidity
        /\ price = SqrtPrice[next] => trade'.tick = tick /\ trade'.index = index
    BY <1>4 DEF SameQuote
  <1>6. Shaped(trade')
    BY <1>4 DEF Shaped
  <1> QED BY <1>1, <1>5, <1>6 DEF Moves

LEMMA TradeRepeats ==
    ASSUME Allowed, NEW S, NEW depth, NEW below, RealPool(pool, depth, below), InOrder(S, call.aToB),
           NEW s, Good(s, S, depth, below), NEW s2, Iterates(s, s2),
           call.aToB => s2.calculated <= U64MAX,
           NEW m \in 0..Len(S), s2.touched \subseteq {S[i] : i \in 1..m},
           Follows(trade, s, S), Shaped(trade), trade.arrays = SubSeq(S, 1, m),
           NEW found, found = get_next_initialized_tick_index(trade.arrays, Initialized, trade.tick,
                                                              TickSpacing, call.aToB, trade.index),
           NEW d, d = compute_swap(trade.remaining, FeeRate, trade.liquidity, trade.sqrt_price,
                                   Target(found.tick_index), call.isInput, call.aToB)
    PROVE  /\ ~found.error
           /\ call.aToB => ~IterationFails(found, d)
           /\ ~IterationFails(found, d) /\ TradeIterates(found, d) =>
                  /\ Follows(trade', s2, S) /\ Shaped(trade') /\ SameQuote(trade', trade)
                  /\ trade'.cause = trade.cause
  <1>1. PICK left, isInput, limit, next, c :
            left = call.aToB /\ isInput = call.isInput /\ limit = call.limit
            /\ next = NextOf(s) /\ c = StepFrom(s)
    OBVIOUS
  <1>2. PICK target : target = Target(next)
    OBVIOUS
  <1>3. /\ left \in BOOLEAN /\ isInput \in BOOLEAN /\ InOrder(S, left) /\ Goes(s) /\ ~c.error
        /\ s2 = After(s) /\ (left \/ ~isInput)
    BY <1>1 DEF Allowed, Iterates
  <1>4. ~found.error /\ found.tick_index = next
    <2>1. Lands(S, s, s2, found, c)
      BY <1>1, TradeLands
    <2> QED BY <1>1, <2>1, Zenon DEF Lands
  <1>5. /\ trade.remaining = s.remaining /\ trade.sqrt_price = s.sqrt_price
        /\ left => trade.calculated = s.calculated
        /\ trade.liquidity = s.liquidity
    BY <1>1, <1>3 DEF Follows
  <1>6. d = ProgramStep(s, target)
    BY <1>2, <1>4, <1>5, Zenon DEF ProgramStep
  <1>7. Computed(s, left, isInput, target, c, d)
    BY <1>1, <1>2, <1>3, <1>6, Computes2
  <1>8. /\ s.remaining \in U64 /\ UsedOf(c, isInput) \in 0..s.remaining /\ CountedOf(c, isInput) \in Nat
        /\ left /\ (isInput \/ CountedOf(c, isInput) <= U64MAX) => d = c
        /\ ~isInput /\ ~d.error => d.next_price = c.next_price /\ d.amount_out = c.amount_out
    BY <1>7, Zenon DEF Computed
  <1>9. /\ s2.remaining = s.remaining - UsedOf(c, isInput)
        /\ s2.calculated = s.calculated + CountedOf(c, isInput)
        /\ s2.sqrt_price = c.next_price
    BY <1>1, <1>3, AfterIs
  <1>10. Used(d) = UsedOf(d, isInput) /\ Counted(d) = CountedOf(d, isInput)
    BY <1>1 DEF Used, Counted, UsedOf, CountedOf
  <1>11. ASSUME left PROVE d = c
    <2>1. s2.calculated <= U64MAX
      BY <1>1, <1>11
    <2>2. s.calculated \in Nat
      BY DEF Good, QuoteStates
    <2>3. CountedOf(c, isInput) <= U64MAX
      BY <1>8, <1>9, <2>1, <2>2, Widths
    <2> QED BY <1>8, <1>11, <2>3
  <1>12. ASSUME ~d.error
         PROVE  /\ d.next_price = c.next_price /\ Used(d) = UsedOf(c, isInput)
                /\ left => Counted(d) = CountedOf(c, isInput)
    <2>1. CASE left
      BY <1>10, <1>11, <2>1
    <2>2. CASE ~left
      BY <1>3, <1>8, <1>10, <1>12, <2>2 DEF UsedOf
    <2> QED BY <2>1, <2>2
  <1>13. ASSUME d.next_price = c.next_price
         PROVE  /\ LiquidityAfter(found, d) \in U128
                /\ Goes(s2) =>
                      /\ d.next_price = SqrtPrice[next] /\ s2.tick = TickAfter(next, call.aToB)
                      /\ LiquidityAfter(found, d) = s2.liquidity
                      /\ Begins(S, s2.tick, ArrayAfter(trade.arrays[found.array_index],
                                                       found.array_index, next, TickSpacing, call.aToB),
                                call.aToB)
    <2>1. Lands(S, s, s2, found, d)
      BY <1>1, <1>13, TradeLands
    <2> QED BY <1>1, <2>1, Zenon DEF Lands
  <1>14. ASSUME left PROVE ~IterationFails(found, d)
    <2>1. ~d.error /\ d = c
      BY <1>3, <1>11, <1>14
    <2>2. LiquidityAfter(found, d) # Err
      BY <1>13, <2>1, Unsigned
    <2>3. ~(Used(d) > trade.remaining)
      <3>1. \A x \in U64 : x \in Nat
        BY Unsigned
      <3>2. s.remaining \in Nat /\ Used(d) \in 0..s.remaining
        BY <1>8, <1>12, <2>1, <3>1
      <3> QED BY <1>5, <3>2
    <2>4. ~(trade.calculated + Counted(d) > U64MAX)
      <3>1. trade.calculated + Counted(d) = s2.calculated /\ s2.calculated <= U64MAX
        BY <1>1, <1>5, <1>9, <1>12, <1>14, <2>1
      <3>2. s2.calculated \in Nat
        BY <1>8, <1>9 DEF Good, QuoteStates
      <3> QED BY <3>1, <3>2, Widths
    <2> QED BY <2>1, <2>2, <2>3, <2>4 DEF IterationFails
  <1>15. ASSUME ~IterationFails(found, d), TradeIterates(found, d)
         PROVE  /\ Follows(trade', s2, S) /\ Shaped(trade') /\ SameQuote(trade', trade)
                /\ trade'.cause = trade.cause
    <2>1. ~d.error
      BY <1>15, Zenon DEF IterationFails
    <2>2. /\ Shaped(trade') /\ SameQuote(trade', trade) /\ trade'.cause = trade.cause
          /\ trade'.remaining = trade.remaining - Used(d)
          /\ trade'.calculated = trade.calculated + Counted(d)
          /\ trade'.sqrt_price = d.next_price
          /\ trade'.liquidity = LiquidityAfter(found, d)
          /\ d.next_price = SqrtPrice[next] =>
                 /\ trade'.tick = TickAfter(next, call.aToB)
                 /\ trade'.index = ArrayAfter(trade.arrays[found.array_index], found.array_index, next,
                                              TickSpacing, call.aToB)
      <3>1. Moves(trade', found, d, next)
        BY <1>4, <1>15, TradeFields
      <3> QED BY <3>1, Zenon DEF Moves
    <2>3. /\ trade'.remaining = s2.remaining /\ trade'.sqrt_price = s2.sqrt_price
          /\ call.aToB => trade'.calculated = s2.calculated
      BY <1>1, <1>5, <1>9, <1>12, <2>1, <2>2
    <2>4. ASSUME Goes(s2)
          PROVE  /\ trade'.tick = s2.tick /\ trade'.liquidity = s2.liquidity
                 /\ Begins(S, trade'.tick, trade'.index, call.aToB)
      <3>1. d.next_price = c.next_price
        BY <1>12, <2>1
      <3>2. /\ d.next_price = SqrtPrice[next] /\ s2.tick = TickAfter(next, call.aToB)
            /\ LiquidityAfter(found, d) = s2.liquidity
            /\ Begins(S, s2.tick, ArrayAfter(trade.arrays[found.array_index],
                                             found.array_index, next, TickSpacing, call.aToB),
                      call.aToB)
        BY <1>13, <2>4, <3>1
      <3> QED BY <2>2, <3>2, Zenon
    <2> QED BY <2>2, <2>3, <2>4, Zenon DEF Follows
  <1> QED BY <1>1, <1>4, <1>14, <1>15

-----------------------------------------------------------------------------
(* The arrays fetched, touched and sent. *)

LEMMA SubSeqOf ==
    ASSUME NEW A, NEW s \in Seq(A), NEW n \in 0..Len(s)
    PROVE  /\ SubSeq(s, 1, n) \in Seq(A) /\ Len(SubSeq(s, 1, n)) = n /\ n \in Nat
           /\ \A i \in 1..n : SubSeq(s, 1, n)[i] = s[i]
  <1>1. Len(s) \in Nat /\ n \in Nat
    BY LenProperties
  <1>2. SubSeq(s, 1, n) = [i \in 1..n |-> s[i]]
    BY <1>1
  <1>3. \A i \in 1..n : s[i] \in A
    BY <1>1, ElementOfSeq
  <1> QED BY <1>1, <1>2, <1>3

LEMMA SequenceFetched ==
    ASSUME NEW depth, NEW below, RealPool(pool, depth, below), NEW left \in BOOLEAN, left = call.aToB,
           NEW S, S = Existing(getTickArrayPublicKeys(pool.tick, call.aToB))
    PROVE  InOrder(S, left) /\ Len(S) \in 0..MAX_SWAP_TICK_ARRAYS
  <1> DEFINE M == MAX_SWAP_TICK_ARRAYS
             from == IF left THEN pool.tick ELSE pool.tick + TickSpacing
             f == from \div K
             base == [i \in 1..M |-> (f + (IF left THEN 1 - i ELSE i - 1)) * K]
             keys == getTickArrayPublicKeys(pool.tick, left)
  <1>1. M \in Nat /\ K \in Nat \ {0} /\ TickSpacing \in Nat \ {0} /\ TicksPerArray = K
    BY QuoteAssumption, SizeOfArray, SpacingAssumption DEF TicksPerArray, K
  <1>2. from \in Int /\ pool.arrays \subseteq Starts
    BY <1>1, TickIndexAssumption DEF RealPool
  <1>3. f \in Int
    <2> HIDE DEF from
    <2> QED BY <1>1, <1>2, DivMod
  <1>4. keys = Leading(base, StartRange)
    <2>1. base = [i \in 1..MAX_SWAP_TICK_ARRAYS |->
                     getStartTickIndex(from, IF left THEN 1 - i ELSE i - 1)]
      BY <1>1, Zenon DEF getStartTickIndex
    <2> HIDE DEF base
    <2> QED BY <2>1, Zenon DEF getTickArrayPublicKeys
  <1> HIDE DEF f, keys, from
  <1>5. base \in Seq(Int) /\ Len(base) = M
        /\ \A i \in 1..M : base[i] = (f + (IF left THEN 1 - i ELSE i - 1)) * K
    <2>1. \A i \in 1..M : (f + (IF left THEN 1 - i ELSE i - 1)) * K \in Int
      BY <1>1, <1>3, ProductInt
    <2> QED BY <1>1, <2>1
  <1> HIDE DEF M, base
  <1>6. PICK n \in 0..M : keys = SubSeq(base, 1, n)
    BY <1>4, <1>5, LeadingPart
  <1>7. n \in 0..Len(base)
    BY <1>5
  <1>8. keys \in Seq(Int) /\ Len(keys) = n /\ \A i \in 1..n : keys[i] = base[i]
    BY <1>5, <1>6, <1>7, SubSeqOf
  <1>9. S = Leading(keys, pool.arrays)
    BY Zenon DEF Existing, keys
  <1>10. PICK n2 \in 0..n : S = SubSeq(keys, 1, n2) /\ \A i \in 1..n2 : keys[i] \in pool.arrays
    BY <1>8, <1>9, LeadingPart
  <1>11. n2 \in 0..Len(keys) /\ n2 \in 0..M
    BY <1>1, <1>8 DEF M
  <1>12. S \in Seq(Int) /\ Len(S) = n2 /\ \A i \in 1..n2 : S[i] = keys[i]
    BY <1>8, <1>10, <1>11, SubSeqOf
  <1>13. S \in Seq(Starts)
    <2>1. \A i \in 1..Len(S) : S[i] \in Starts
      BY <1>2, <1>10, <1>12
    <2> QED BY <1>12, <2>1
  <1>14. \A i \in 1..Len(S) : S[i] = (f + (IF left THEN 1 - i ELSE i - 1)) * K
    BY <1>1, <1>5, <1>8, <1>12 DEF M
  <1>15. \E q \in Int : \A i \in 1..Len(S) : S[i] = K * (IF left THEN q - i ELSE q + i)
    <2> DEFINE q == IF left THEN f + 1 ELSE f - 1
    <2>1. q \in Int
      BY <1>3
    <2>2. \A i \in 1..Len(S) : S[i] = K * (IF left THEN q - i ELSE q + i)
      <3> TAKE i \in 1..Len(S)
      <3>1. f + (IF left THEN 1 - i ELSE i - 1) = IF left THEN q - i ELSE q + i
        BY <1>3, <1>11, <1>12
      <3>2. (IF left THEN q - i ELSE q + i) \in Int
        BY <1>3, <1>11, <1>12
      <3> HIDE DEF q
      <3> QED BY <1>1, <1>14, <3>1, <3>2, ProductTurned
    <2> HIDE DEF q
    <2> QED BY <2>1, <2>2
  <1>16. InOrder(S, left)
    BY <1>13, <1>15, Zenon DEF InOrder
  <1> QED BY <1>11, <1>12, <1>16 DEF M

\* Padding the list and dropping what is repeated leaves the arrays touched.
LEMMA ArraysSent ==
    ASSUME NEW S, NEW left \in BOOLEAN, InOrder(S, left), NEW m \in 1..Len(S),
           Len(S) \in 0..MAX_SWAP_TICK_ARRAYS,
           quote.sequence = S, quote.touched = {S[i] : i \in 1..m}
    PROVE  Distinct(Padded(TouchedArrays)) = SubSeq(S, 1, m)
  <1> DEFINE M == MAX_SWAP_TICK_ARRAYS
             T == TouchedArrays
             P == Padded(T)
             D == {i \in 1..Len(P) : \A j \in 1..i - 1 : P[j] # P[i]}
  <1>1. M \in Nat /\ Len(S) \in Nat /\ Len(S) <= M /\ m \in Nat /\ m >= 1 /\ m <= Len(S)
    BY QuoteAssumption, OrderedArrays
  <1>2. \A i, j \in 1..Len(S) : S[i] = S[j] => i = j
    <2> TAKE i, j \in 1..Len(S)
    <2>1. /\ S[i] \in Int /\ S[j] \in Int /\ K \in Nat \ {0}
          /\ j < i => IF left THEN S[i] + K <= S[j] ELSE S[j] + K <= S[i]
          /\ i < j => IF left THEN S[j] + K <= S[i] ELSE S[i] + K <= S[j]
      BY OrderedArrays, SizeOfArray
    <2> QED BY <1>1, <2>1
  <1>3. T = [k \in 1..m |-> S[k]]
    <2>1. {i \in 1..Len(S) : S[i] \in quote.touched} = 1..m
      BY <1>1, <1>2
    <2>2. T = Selected(S, {i \in 1..Len(S) : S[i] \in quote.touched})
      BY Zenon DEF TouchedArrays
    <2>3. Selected(S, 1..m) = [k \in 1..m |-> S[k]]
      BY <1>1, SelectedPart
    <2> QED BY <2>1, <2>2, <2>3, Zenon
  <1> HIDE DEF T
  <1>4. Len(T) = m
    BY <1>1, <1>3
  <1>5. P = [i \in 1..M |-> T[Min({i, Len(T)})]]
    BY Zenon DEF Padded
  <1>6. \A i \in 1..M : Min({i, m}) = IF i <= m THEN i ELSE m
    <2> TAKE i \in 1..M
    <2>1. i \in Int /\ m \in Int /\ (i <= m \/ i >= m)
      BY <1>1
    <2>2. (i >= m => Min({i, m}) = m) /\ (i <= m => Min({i, m}) = i)
      BY <2>1, EndsOfPair
    <2> QED BY <2>1, <2>2
  <1>7. \A i \in 1..M : T[Min({i, Len(T)})] = IF i <= m THEN S[i] ELSE S[m]
    BY <1>1, <1>3, <1>4, <1>6
  <1> HIDE DEF P, M
  <1>8. Len(P) = M /\ \A i \in 1..M : P[i] = IF i <= m THEN S[i] ELSE S[m]
    BY <1>1, <1>5, <1>7
  <1>9. D = 1..m
    <2>1. \A i \in 1..M : (\A j \in 1..i - 1 : P[j] # P[i]) <=> i <= m
      <3> TAKE i \in 1..M
      <3>1. CASE i <= m
        <4>1. \A j \in 1..i - 1 : P[j] = S[j] /\ P[i] = S[i] /\ j \in 1..Len(S) /\ i \in 1..Len(S) /\ j # i
          BY <1>1, <1>8, <3>1
        <4> QED BY <1>2, <3>1, <4>1
      <3>2. CASE ~(i <= m)
        <4>1. m \in 1..i - 1 /\ m \in 1..M /\ P[m] = S[m] /\ P[i] = S[m]
          BY <1>1, <1>8, <3>2
        <4> QED BY <3>2, <4>1
      <3> QED BY <3>1, <3>2
    <2>2. Len(P) = M
      BY <1>8
    <2> QED BY <1>1, <2>1, <2>2
  <1>10. Distinct(P) = [k \in 1..m |-> P[k]]
    <2>1. Distinct(P) = Selected(P, D)
      BY Zenon DEF Distinct
    <2>2. Selected(P, 1..m) = [k \in 1..m |-> P[k]]
      BY <1>1, SelectedPart
    <2> HIDE DEF D
    <2> QED BY <1>9, <2>1, <2>2, Zenon
  <1>11. [k \in 1..m |-> P[k]] = [k \in 1..m |-> S[k]]
    BY <1>1, <1>8
  <1>12. SubSeq(S, 1, m) = [k \in 1..m |-> S[k]]
    <2>1. S \in Seq(Starts)
      BY OrderedArrays
    <2> QED BY <1>1, <2>1
  <1> QED BY <1>10, <1>11, <1>12, Zenon DEF P, T

-----------------------------------------------------------------------------
(* While the pool and the call stay, so does what they lead to. *)

LEMMA KeptSearch ==
    ASSUME pool' = pool, call' = call
    PROVE  \A s, S, q : /\ NextOf(s)' = NextOf(s) /\ Goes(s)' = Goes(s)
                        /\ StepFrom(s)' = StepFrom(s)
  <1>1. Initialized' = Initialized
    BY DEF Initialized
  <1>2. \A t : Target(t)' = Target(t)
    BY DEF Target
  <1> QED BY <1>1, <1>2 DEF NextOf, Goes, Loops, StepFrom, findNextInitializedTickIndex

LEMMA KeptStates ==
    ASSUME pool' = pool, call' = call
    PROVE  /\ \A s, s2 : Iterates(s, s2)' = Iterates(s, s2)
           /\ \A s, S, depth, below : Good(s, S, depth, below)' = Good(s, S, depth, below)
           /\ \A s, S, m : Prefix(s, S, m)' = Prefix(s, S, m)
           /\ \A x, s, S : Follows(x, s, S)' = Follows(x, s, S)
           /\ Allowed' = Allowed
  <1>1. \A s : NextOf(s)' = NextOf(s) /\ Goes(s)' = Goes(s) /\ StepFrom(s)' = StepFrom(s)
    BY KeptSearch
  <1>2. Initialized' = Initialized
    BY DEF Initialized
  <1>3. \A t : Net(t)' = Net(t)
    BY <1>2 DEF Net
  <1>4. \A c : Used(c)' = Used(c) /\ Counted(c)' = Counted(c)
    BY DEF Used, Counted
  <1>5. \A s : ReachedBy(s)' = ReachedBy(s)
    BY <1>1 DEF ReachedBy
  <1>6. \A s : calculateNextLiquidity(s.liquidity, Net(SlotTick(NextOf(s))))'
                 = calculateNextLiquidity(s.liquidity, Net(SlotTick(NextOf(s))))
    BY <1>1, <1>3 DEF calculateNextLiquidity
  <1>7. \A s : Touched(Ahead(s.sequence, s.tick, call.aToB), NextOf(s), call.aToB)'
                 = Touched(Ahead(s.sequence, s.tick, call.aToB), NextOf(s), call.aToB)
    BY <1>1, <1>2 DEF Touched
  <1>8. \A s : After(s)' = After(s)
    BY <1>1, <1>4, <1>5, <1>6, <1>7 DEF After
  <1>9. \A s, s2 : Iterates(s, s2)' = Iterates(s, s2)
    BY <1>1, <1>8 DEF Iterates
  <1>10. \A s, S, depth, below : Good(s, S, depth, below)' = Good(s, S, depth, below)
    BY <1>1 DEF Good
  <1>11. \A s, S, m : Prefix(s, S, m)' = Prefix(s, S, m)
    BY <1>1 DEF Prefix
  <1>12. \A x, s, S : Follows(x, s, S)' = Follows(x, s, S)
    BY <1>1 DEF Follows
  <1> QED BY <1>9, <1>10, <1>11, <1>12 DEF Allowed

-----------------------------------------------------------------------------
(* What goes into a swap and comes out of it, transfer fees included. *)

LEMMA CallFields ==
    ASSUME CallsTyped, call \in Calls
    PROVE  /\ call.amount \in U64 /\ call.isInput \in BOOLEAN /\ call.aToB \in BOOLEAN
           /\ call.feeIn \in FeeSettings /\ call.feeOut \in FeeSettings
           /\ call.slippage.denominator \in Nat \ {0}
           /\ call.slippage.numerator \in 0..call.slippage.denominator
  BY DEF CallsTyped

LEMMA IncludedFits ==
    ASSUME NEW fee \in FeeSettings, NEW n \in U64, NEW s,
           s = calculateTransferFeeIncludedAmount(fee, n), s # Err
    PROVE  s <= U64MAX
  <1>1. n \in Nat /\ n <= U64MAX /\ U64MAX \in Nat /\ fee.maximum_fee \in Nat
    BY Unsigned, Widths, FeeTypes
  <1>2. fee.basis_points # ONE_IN_BASIS_POINTS => BeforeFee(fee, n) \in Nat
    BY <1>1, LeastBeforeFee
  <1>3. s = IF fee.basis_points = 0 \/ n = 0 THEN n
            ELSE IF \/ fee.basis_points = ONE_IN_BASIS_POINTS
                    \/ BeforeFee(fee, n) - n >= fee.maximum_fee
                 THEN Checked(n + fee.maximum_fee, U64MAX)
            ELSE Checked(BeforeFee(fee, n), U64MAX)
    BY DEF calculateTransferFeeIncludedAmount, BeforeFee
  <1> QED BY <1>1, <1>2, <1>3 DEF Checked

\* The SDK and the program compute a swap with the same amount.
LEMMA AmountsAgree ==
    ASSUME CallsTyped, call \in Calls, call.amount > 0, Tradable # Err, call.isInput => Tradable > 0
    PROVE  Tradable \in U64 /\ Tradable > 0 /\ ProgramAmount = Tradable
  <1>1. PICK x, fin, fout : x = call.amount /\ fin = call.feeIn /\ fout = call.feeOut
    OBVIOUS
  <1>2. x \in U64 /\ x \in Nat /\ x > 0 /\ x <= U64MAX /\ fin \in FeeSettings /\ fout \in FeeSettings
    BY <1>1, CallFields, Unsigned
  <1>3. CASE call.isInput
    <2>1. Tradable = calculateTransferFeeExcludedAmount(fin, x)
          /\ ProgramAmount = calculate_transfer_fee_excluded_amount(fin, x)
      BY <1>1, <1>3 DEF Tradable, ProgramAmount
    <2>2. Tradable = x - calculate_fee(fin, x) /\ ProgramAmount = x - calculate_fee(fin, x)
      BY <2>1, Zenon DEF calculateTransferFeeExcludedAmount, calculate_transfer_fee_excluded_amount
    <2>3. ProgramAmount \in Nat
      BY <1>2, <2>1, FeeLeavesNat
    <2>4. calculate_fee(fin, x) \in Nat
      <3>1. RateFee(fin, x) \in Nat /\ fin.maximum_fee \in Nat
            /\ calculate_fee(fin, x) = IF RateFee(fin, x) < fin.maximum_fee
                                       THEN RateFee(fin, x) ELSE fin.maximum_fee
        BY <1>2, FeeOf, FeeTypes
      <3> QED BY <3>1
    <2>5. Tradable \in Nat /\ Tradable <= U64MAX
      BY <1>2, <2>2, <2>3, <2>4, Widths
    <2> QED BY <1>3, <2>2, <2>5, Widths DEF U64
  <1>4. CASE ~call.isInput
    <2>1. Tradable = calculateTransferFeeIncludedAmount(fout, x)
          /\ ProgramAmount = calculate_transfer_fee_included_amount(fout, x)
      BY <1>1, <1>4 DEF Tradable, ProgramAmount
    <2>2. PICK s : s = Tradable
      OBVIOUS
    <2>3. s = calculateTransferFeeIncludedAmount(fout, x) /\ s # Err
      BY <2>1, <2>2
    <2>4. s <= U64MAX
      BY <1>2, <2>3, IncludedFits
    <2>5. x <= x
      BY <1>2
    <2>6. calculate_transfer_fee_included_amount(fout, x) = s /\ x <= s /\ s \in U64
      BY <1>2, <2>3, <2>4, <2>5, IncludedWithin
    <2>7. s > 0
      BY <1>2, <2>6, Unsigned
    <2> QED BY <2>1, <2>2, <2>6, <2>7
  <1> QED BY <1>3, <1>4

LEMMA EstimateTyped ==
    ASSUME CallsTyped, call \in Calls, NEW S, NEW depth, NEW below, Good(quote, S, depth, below)
    PROVE  EstimateIn \in Int
  <1>1. PICK fee, needed :
            /\ fee = call.feeIn
            /\ needed = (IF call.isInput THEN quote.tradable - quote.remaining ELSE quote.calculated)
    OBVIOUS
  <1>2. fee \in FeeSettings /\ needed \in Nat /\ call.amount \in Nat
    <2>1. quote.tradable \in U64 /\ quote.remaining \in U64 /\ quote.remaining <= quote.tradable
          /\ quote.calculated \in Nat
      BY DEF Good, QuoteStates
    <2> QED BY <1>1, <2>1, CallFields, Unsigned
  <1>3. calculateTransferFeeIncludedAmount(fee, needed) \in Int
    <2>1. fee.basis_points # ONE_IN_BASIS_POINTS => BeforeFee(fee, needed) \in Nat
      BY <1>2, LeastBeforeFee
    <2>2. fee.maximum_fee \in Nat
      BY <1>2, FeeTypes
    <2>3. calculateTransferFeeIncludedAmount(fee, needed) =
              IF fee.basis_points = 0 \/ needed = 0 THEN needed
              ELSE IF \/ fee.basis_points = ONE_IN_BASIS_POINTS
                      \/ BeforeFee(fee, needed) - needed >= fee.maximum_fee
                   THEN Checked(needed + fee.maximum_fee, U64MAX)
              ELSE Checked(BeforeFee(fee, needed), U64MAX)
      BY DEF calculateTransferFeeIncludedAmount, BeforeFee
    <2>4. \A x \in Int : Checked(x, U64MAX) \in Int
      BY DEF Checked, Err
    <2> QED BY <1>2, <2>1, <2>2, <2>3, <2>4
  <1>4. EstimateIn = IF call.isInput /\ quote.remaining = 0 THEN call.amount
                     ELSE calculateTransferFeeIncludedAmount(fee, needed)
    BY <1>1, Zenon DEF EstimateIn
  <1> QED BY <1>2, <1>3, <1>4

\* What is needed, of an amount and of what is left of it.
LEMMA OutcomesAgree ==
    ASSUME CallsTyped, call \in Calls, NEW S, NEW depth, NEW below, Good(quote, S, depth, below),
           EstimateIn # Err, EstimateIn <= U64MAX
    PROVE  /\ EstimateIn \in Nat /\ EstimateOut \in Nat
           /\ ~call.isInput => quote.calculated <= U64MAX
           /\ trade.remaining = quote.remaining /\ trade.tradable = quote.tradable =>
                  /\ ~call.isInput => ReceivedOut = EstimateOut
                  /\ trade.calculated = quote.calculated =>
                         PaidIn = EstimateIn /\ ReceivedOut = EstimateOut
  <1>1. PICK fin, fout, left, needed, given, x :
            /\ fin = call.feeIn /\ fout = call.feeOut /\ left = quote.tradable - quote.remaining
            /\ needed = (IF call.isInput THEN left ELSE quote.calculated)
            /\ given = (IF call.isInput THEN quote.calculated ELSE left)
            /\ x = EstimateIn
    OBVIOUS
  <1>2. /\ fin \in FeeSettings /\ fout \in FeeSettings /\ left \in Nat /\ needed \in Nat /\ given \in Nat
        /\ call.amount \in Nat
    <2>1. quote.tradable \in U64 /\ quote.remaining \in U64 /\ quote.remaining <= quote.tradable
          /\ quote.calculated \in Nat
      BY DEF Good, QuoteStates
    <2> QED BY <1>1, <2>1, CallFields, Unsigned
  <1>3. EstimateIn = IF call.isInput /\ quote.remaining = 0 THEN call.amount
                     ELSE calculateTransferFeeIncludedAmount(fin, needed)
    BY <1>1, Zenon DEF EstimateIn
  <1>4. EstimateOut = calculate_transfer_fee_excluded_amount(fout, given)
    BY <1>1, Zenon DEF EstimateOut, calculateTransferFeeExcludedAmount,
                       calculate_transfer_fee_excluded_amount
  <1>5. trade.remaining = quote.remaining /\ trade.tradable = quote.tradable =>
            /\ ~call.isInput \/ trade.calculated = quote.calculated =>
                   ReceivedOut = calculate_transfer_fee_excluded_amount(fout, given)
            /\ trade.calculated = quote.calculated =>
                   PaidIn = IF call.isInput /\ quote.remaining = 0 THEN call.amount
                            ELSE calculate_transfer_fee_included_amount(fin, needed)
    BY <1>1, Zenon DEF PaidIn, ReceivedOut
  <1>6. EstimateOut \in Nat
    BY <1>2, <1>4, FeeLeavesNat
  <1>7. CASE call.isInput /\ quote.remaining = 0
    BY <1>2, <1>3, <1>4, <1>5, <1>6, <1>7
  <1>8. CASE ~(call.isInput /\ quote.remaining = 0)
    <2>1. x = calculateTransferFeeIncludedAmount(fin, needed) /\ x # Err /\ x <= U64MAX
          /\ needed <= needed
      BY <1>1, <1>2, <1>3, <1>8
    <2>2. calculate_transfer_fee_included_amount(fin, needed) = x /\ needed <= x /\ x \in U64
      BY <1>2, <2>1, IncludedWithin
    <2>3. x \in Nat /\ needed <= U64MAX
      BY <1>2, <2>2, Unsigned, Widths
    <2> QED BY <1>1, <1>4, <1>5, <1>6, <1>8, <2>2, <2>3
  <1> QED BY <1>7, <1>8

-----------------------------------------------------------------------------
(* The inductive invariant: the states the quote went through, H, lead from  *)
(* the pool's to the quote's, and the program's swap is at one of them.      *)

Fresh(s) ==
    /\ s.remaining = s.tradable /\ s.calculated = 0
    /\ s.sqrt_price = pool.sqrt_price /\ s.tick = pool.tick /\ s.liquidity = pool.liquidity

Path(H, S, depth, below) ==
    /\ quote \in H
    /\ \A s \in H : /\ Good(s, S, depth, below)
                    /\ s.touched \subseteq quote.touched /\ s.calculated <= quote.calculated
                    /\ s.tradable = quote.tradable
    /\ \A s \in H : s = quote \/ \E s2 \in H : Iterates(s, s2)
    /\ \E s \in H : Fresh(s)

\* depth and below are those of RealPool; S is the sequence fetched, of which the
\* quote has touched the first m.
Quotes(H, S, depth, below, m) ==
    /\ Allowed /\ RealPool(pool, depth, below) /\ InOrder(S, call.aToB)
    /\ Len(S) \in 0..MAX_SWAP_TICK_ARRAYS /\ Begins(S, pool.tick, 1, call.aToB)
    /\ m \in 0..Len(S) /\ Prefix(quote, S, m) /\ Path(H, S, depth, below)
    /\ quote.tradable \in U64 /\ quote.tradable > 0 /\ ProgramAmount = quote.tradable

Ended(m) ==
    /\ ~Loops(quote) /\ m >= 1 /\ EstimateIn # Err /\ EstimateIn <= U64MAX
    /\ trade.estimateIn = EstimateIn /\ trade.estimateOut = EstimateOut
    /\ trade.threshold = Threshold(EstimateIn, EstimateOut)

Trades(H, S, m) ==
    /\ Shaped(trade) /\ trade.arrays = SubSeq(S, 1, m) /\ trade.tradable = quote.tradable
    /\ \E s \in H : Follows(trade, s, S)

Quoting(H, S, depth, below, m) ==
    /\ Quotes(H, S, depth, below, m)
    /\ \/ phase = "quoting"
       \/ phase = "sent" /\ Ended(m) /\ trade.arrays = Padded(TouchedArrays)
       \/ phase = "trading" /\ Ended(m) /\ Trades(H, S, m)
       \/ phase = "traded" /\ Ended(m) /\ Trades(H, S, m) /\ ~Loops(trade)

RefusedForPrice == phase = "refused" /\ ~call.aToB /\ trade.cause # "arrays"

SwapInv ==
    /\ pool \in Pools /\ call \in Calls
    /\ \/ InputOfB
       \/ phase \in {"asked", "thrown"}
       \/ RefusedForPrice
       \/ \E H, S, depth, below, m : Quoting(H, S, depth, below, m)

LEMMA SwapInvInit == Init => SwapInv
  BY DEF Init, SwapInv

\* The swap that has come to its end has repeated all of the quote.
LEMMA FollowedToEnd ==
    ASSUME NEW H, NEW S, NEW depth, NEW below, Path(H, S, depth, below), NEW s \in H,
           Follows(trade, s, S), ~Loops(trade)
    PROVE  s = quote
  <1>1. ASSUME NEW s2, Iterates(s, s2) PROVE FALSE
    BY <1>1, Zenon DEF Iterates, Goes, Loops, Follows
  <1> QED BY <1>1, Zenon DEF Path

LEMMA KeptQuotes ==
    ASSUME pool' = pool, call' = call, quote' = quote
    PROVE  /\ \A H, S, depth, below, m : Quotes(H, S, depth, below, m)' = Quotes(H, S, depth, below, m)
           /\ trade' = trade => \A m : Ended(m)' = Ended(m)
           /\ trade' = trade => \A H, S, m : Trades(H, S, m)' = Trades(H, S, m)
           /\ TouchedArrays' = TouchedArrays
           /\ EstimateIn' = EstimateIn /\ EstimateOut' = EstimateOut
           /\ \A x, y : Threshold(x, y)' = Threshold(x, y)
  <1>1. /\ \A s, s2 : Iterates(s, s2)' = Iterates(s, s2)
        /\ \A s, S, depth, below : Good(s, S, depth, below)' = Good(s, S, depth, below)
        /\ \A s, S, m : Prefix(s, S, m)' = Prefix(s, S, m)
        /\ \A x, s, S : Follows(x, s, S)' = Follows(x, s, S)
        /\ Allowed' = Allowed
    BY KeptStates
  <1>2. \A H, S, depth, below : Path(H, S, depth, below)' = Path(H, S, depth, below)
    BY <1>1 DEF Path, Fresh
  <1>3. \A S, m : Prefix(quote, S, m)' = Prefix(quote, S, m)
    BY KeptSearch DEF Prefix
  <1>4. ProgramAmount' = ProgramAmount
    BY DEF ProgramAmount
  <1>5. \A H, S, depth, below, m : Quotes(H, S, depth, below, m)' = Quotes(H, S, depth, below, m)
    BY <1>1, <1>2, <1>3, <1>4 DEF Quotes
  <1>6. /\ TouchedArrays' = TouchedArrays
        /\ EstimateIn' = EstimateIn /\ EstimateOut' = EstimateOut
        /\ \A x, y : Threshold(x, y)' = Threshold(x, y)
    BY DEF TouchedArrays, EstimateIn, EstimateOut, Threshold
  <1>7. trade' = trade => \A m : Ended(m)' = Ended(m)
    BY <1>6 DEF Ended, Loops
  <1>8. trade' = trade => \A H, S, m : Trades(H, S, m)' = Trades(H, S, m)
    BY KeptSearch DEF Trades, Shaped, Follows
  <1> QED BY <1>5, <1>6, <1>7, <1>8

LEMMA FreshGood ==
    ASSUME Allowed, NEW S, NEW depth, NEW below, RealPool(pool, depth, below), InOrder(S, call.aToB),
           IF call.aToB THEN call.limit <= pool.sqrt_price ELSE call.limit >= pool.sqrt_price,
           NEW amount \in U64, NEW q,
           q = [sequence |-> S, tradable |-> amount, remaining |-> amount, calculated |-> 0,
                sqrt_price |-> pool.sqrt_price, tick |-> pool.tick, liquidity |-> pool.liquidity,
                touched |-> {}]
    PROVE  Good(q, S, depth, below) /\ Fresh(q)
  <1>1. PICK p, t, L, limit, left : p = pool.sqrt_price /\ t = pool.tick /\ L = pool.liquidity
                                    /\ limit = call.limit /\ left = call.aToB
    OBVIOUS
  <1>2. /\ q.sequence = S /\ q.tradable = amount /\ q.remaining = amount /\ q.calculated = 0
        /\ q.sqrt_price = p /\ q.tick = t /\ q.liquidity = L /\ q.touched = {}
        /\ q = [sequence |-> S, tradable |-> amount, remaining |-> amount, calculated |-> 0,
                sqrt_price |-> p, tick |-> t, liquidity |-> L, touched |-> {}]
    BY <1>1
  <1>3. /\ p \in MIN_SQRT_PRICE_X64..MAX_SQRT_PRICE_X64
        /\ t \in MIN_TICK_INDEX - 1..MAX_TICK_INDEX
        /\ t >= MIN_TICK_INDEX => SqrtPrice[t] <= p
        /\ t < MAX_TICK_INDEX => p <= SqrtPrice[t + 1]
        /\ depth[t] = L
        /\ t >= MIN_TICK_INDEX => below[t] + L * (p - SqrtPrice[t]) <= U64MAX * WORD
    BY <1>1, Zenon DEF RealPool
  <1>4. p \in Nat /\ p \in Int /\ L \in Int /\ amount \in Int
    BY <1>3, MaxPrice, DepthTyped, Unsigned
  <1>5. S \in Seq(Starts)
    BY DEF InOrder
  <1>6. q \in QuoteStates
    BY <1>2, <1>3, <1>4, <1>5 DEF QuoteStates
  <1>7. IF left THEN limit <= p ELSE p <= limit
    <2>1. limit \in Int
      BY <1>1, MaxPrice DEF Allowed
    <2> QED BY <1>1, <1>4, <2>1
  <1>8. Placed(t, p, L, depth)
    BY <1>3 DEF Placed
  <1>9. HeldOfB(t, p, L, 0, below)
    <2> SUFFICES ASSUME t >= MIN_TICK_INDEX
                 PROVE  0 * WORD + below[t] + L * (p - SqrtPrice[t]) <= U64MAX * WORD
      BY DEF HeldOfB
    <2>1. t \in MIN_TICK_INDEX..MAX_TICK_INDEX
      BY <1>3, TickIndexAssumption
    <2> DEFINE x == L * (p - SqrtPrice[t])
    <2>2. below[t] \in Int /\ x \in Int /\ 0 * WORD = 0
      BY <1>4, <2>1, DepthTyped, TickPrices, ProductInt, Widths
    <2>3. below[t] + x <= U64MAX * WORD
      BY <1>3
    <2> HIDE DEF x
    <2>4. 0 * WORD + below[t] + x <= U64MAX * WORD
      BY <2>2, <2>3
    <2> QED BY <2>4 DEF x
  <1>10. 0 <= U64MAX /\ amount <= amount
    BY <1>4, Widths
  <1>11. Good(q, S, depth, below)
    BY <1>1, <1>2, <1>3, <1>6, <1>7, <1>8, <1>9, <1>10, Zenon DEF Good
  <1>12. Fresh(q)
    BY <1>1, <1>2, Zenon DEF Fresh
  <1> QED BY <1>11, <1>12

LEMMA AskKeeps == ASSUME CallsTyped, PoolsReal, SwapInv, Ask PROVE SwapInv'
  <1>6. PICK S, amount : S = Existing(getTickArrayPublicKeys(pool.tick, call.aToB)) /\ amount = Tradable
    OBVIOUS
  <1>1. StartQuote(S, amount)
    BY <1>6 DEF Ask
  <1>2. pool' = pool /\ call' = call /\ pool \in Pools /\ call \in Calls
    BY <1>1 DEF StartQuote, SwapInv
  <1>3. CASE InputOfB
    BY <1>2, <1>3 DEF SwapInv, InputOfB
  <1>4. CASE ~Quotable(S, amount)
    BY <1>1, <1>2, <1>4 DEF StartQuote, SwapInv
  <1>5. CASE ~InputOfB /\ Quotable(S, amount)
    <2>1. PICK depth, below : RealPool(pool, depth, below)
      BY <1>2 DEF PoolsReal
    <2>2. PICK left, tick : left = call.aToB /\ tick = pool.tick
      OBVIOUS
    <2>3. /\ call.limit \in MIN_SQRT_PRICE_X64..MAX_SQRT_PRICE_X64
          /\ IF call.aToB THEN call.limit <= pool.sqrt_price ELSE call.limit >= pool.sqrt_price
          /\ call.amount > 0 /\ S # <<>> /\ isValidTickArray0(S, tick, left)
          /\ amount # Err /\ (call.isInput => amount > 0)
      BY <1>5, <2>2, Zenon DEF Quotable
    <2>4. left \in BOOLEAN /\ Allowed
      BY <1>2, <1>5, <2>2, <2>3, CallFields DEF Allowed, InputOfB
    <2>5. InOrder(S, left) /\ Len(S) \in 0..MAX_SWAP_TICK_ARRAYS
      BY <2>1, <2>2, <2>4, <1>6, SequenceFetched
    <2>6. S \in Seq(Starts) /\ Len(S) \in Nat
      BY <2>4, <2>5, OrderedArrays
    <2>7. Begins(S, tick, 1, left)
      <3>1. 1 \in 1..Len(S)
        BY <2>3, <2>6
      <3> QED BY <2>3, <3>1 DEF Begins, isValidTickArray0
    <2>8. amount \in U64 /\ amount > 0 /\ ProgramAmount = amount
      BY <1>2, <1>6, <2>3, AmountsAgree
    <2>9. PICK q : q = quote'
      OBVIOUS
    <2>10. /\ q = [sequence |-> S, tradable |-> amount, remaining |-> amount, calculated |-> 0,
                   sqrt_price |-> pool.sqrt_price, tick |-> pool.tick, liquidity |-> pool.liquidity,
                   touched |-> {}]
           /\ phase' = "quoting"
      BY <1>1, <1>5, <2>9, Zenon DEF StartQuote
    <2>11. Good(q, S, depth, below) /\ Fresh(q)
      <3>1. InOrder(S, call.aToB)
        BY <2>2, <2>5
      <3> QED BY <2>1, <2>3, <2>4, <2>8, <2>10, <3>1, FreshGood
    <2>12. q.tradable = amount /\ q.touched = {} /\ q.tick = tick /\ q.calculated \in Nat
      BY <2>2, <2>10
    <2>13. Prefix(q, S, 0)
      <3>1. q.touched = {S[i] : i \in 1..0} /\ 1 \in 1..0 + 1
        BY <2>12
      <3> QED BY <2>2, <2>7, <2>12, <3>1, Zenon DEF Prefix
    <2>14. /\ Good(q, S, depth, below)' /\ Prefix(q, S, 0)' /\ Allowed' /\ Fresh(q)'
           /\ ProgramAmount' = ProgramAmount
      <3>1. /\ Good(q, S, depth, below)' = Good(q, S, depth, below)
            /\ Prefix(q, S, 0)' = Prefix(q, S, 0) /\ Allowed' = Allowed
        BY <1>2, KeptStates
      <3>2. Fresh(q)' = Fresh(q)
        BY <1>2 DEF Fresh
      <3>3. ProgramAmount' = ProgramAmount
        BY <1>2 DEF ProgramAmount
      <3> QED BY <2>4, <2>11, <2>13, <3>1, <3>2, <3>3
    <2>16. Path({q}, S, depth, below)'
      <3>1. \A s \in {q} : /\ Good(s, S, depth, below)'
                           /\ s.touched \subseteq quote'.touched /\ s.calculated <= quote'.calculated
                           /\ s.tradable = quote'.tradable
        BY <2>9, <2>12, <2>14
      <3> QED BY <2>9, <2>14, <3>1, Zenon DEF Path
    <2>17. Quotes({q}, S, depth, below, 0)'
      <3>1. Begins(S, pool.tick, 1, call.aToB)' /\ InOrder(S, call.aToB)' /\ RealPool(pool, depth, below)'
        BY <1>2, <2>1, <2>2, <2>5, <2>7
      <3>2. 0 \in 0..Len(S) /\ Len(S) \in 0..MAX_SWAP_TICK_ARRAYS
        BY <2>5, <2>6
      <3>3. Prefix(quote, S, 0)'
        BY <2>9, <2>14 DEF Prefix
      <3>4. quote'.tradable \in U64 /\ quote'.tradable > 0 /\ ProgramAmount' = quote'.tradable
        BY <2>8, <2>9, <2>12, <2>14
      <3> QED BY <2>14, <2>16, <3>1, <3>2, <3>3, <3>4, Zenon DEF Quotes
    <2>18. Quoting({q}, S, depth, below, 0)'
      BY <2>10, <2>17 DEF Quoting
    <2> QED BY <1>2, <2>18, Zenon DEF SwapInv
  <1> QED BY <1>3, <1>4, <1>5

\* The quote's iteration is the one its states were defined with.
LEMMA QuoteMoves ==
    ASSUME QuoteStep, quote \in QuoteStates
    PROVE  /\ UNCHANGED <<pool, call>>
           /\ \/ phase' = "thrown"
              \/ UNCHANGED <<phase, trade>> /\ Iterates(quote, quote')
  <1>1. Goes(quote)
    BY DEF QuoteStep, Goes
  <1>2. PICK next, c : next = NextOf(quote) /\ c = StepFrom(quote)
    OBVIOUS
  <1>3. QuoteComputes(Ahead(quote.sequence, quote.tick, call.aToB), next, c)
    BY <1>2, Zenon DEF QuoteStep, NextOf, StepFrom
  <1>4. ASSUME QuoteIterates(Ahead(quote.sequence, quote.tick, call.aToB), next, c)
        PROVE  /\ UNCHANGED <<pool, call>>
               /\ UNCHANGED <<phase, trade>> /\ Iterates(quote, quote')
    <2>1. PICK used, counted, liquidity, tick, reached, touched, stopped :
              /\ used = Used(c) /\ counted = Counted(c) /\ reached = (c.next_price = SqrtPrice[next])
              /\ liquidity = calculateNextLiquidity(quote.liquidity, Net(SlotTick(next)))
              /\ tick = tick_index_from_sqrt_price(c.next_price)
              /\ touched = Touched(Ahead(quote.sequence, quote.tick, call.aToB), next, call.aToB)
              /\ stopped = Stepped(next, call.aToB)
      OBVIOUS
    <2>2. quote' = [quote EXCEPT
                      !.remaining = quote.remaining - used, !.calculated = quote.calculated + counted,
                      !.liquidity = IF reached THEN liquidity ELSE quote.liquidity,
                      !.tick = IF reached THEN stopped ELSE tick,
                      !.sqrt_price = c.next_price, !.touched = quote.touched \cup touched]
      BY <1>4, <2>1 DEF QuoteIterates, Stepped
    <2>3. After(quote) =
             [sequence |-> quote.sequence, tradable |-> quote.tradable,
              remaining |-> quote.remaining - used, calculated |-> quote.calculated + counted,
              sqrt_price |-> c.next_price, tick |-> IF reached THEN stopped ELSE tick,
              liquidity |-> IF reached THEN liquidity ELSE quote.liquidity,
              touched |-> quote.touched \cup touched]
      BY <1>2, <2>1 DEF After, ReachedBy
    <2>4. quote = [sequence |-> quote.sequence, tradable |-> quote.tradable,
                   remaining |-> quote.remaining, calculated |-> quote.calculated,
                   sqrt_price |-> quote.sqrt_price, tick |-> quote.tick,
                   liquidity |-> quote.liquidity, touched |-> quote.touched]
      BY DEF QuoteStates
    <2>5. quote' =
             [sequence |-> quote.sequence, tradable |-> quote.tradable,
              remaining |-> quote.remaining - used, calculated |-> quote.calculated + counted,
              sqrt_price |-> c.next_price, tick |-> IF reached THEN stopped ELSE tick,
              liquidity |-> IF reached THEN liquidity ELSE quote.liquidity,
              touched |-> quote.touched \cup touched]
      BY <2>2, <2>4
    <2>6. quote' = After(quote)
      BY <2>3, <2>5
    <2> QED BY <1>1, <1>2, <1>4, <2>6, Zenon DEF QuoteIterates, Iterates
  <1>5. ASSUME ~QuoteIterates(Ahead(quote.sequence, quote.tick, call.aToB), next, c)
        PROVE  UNCHANGED <<pool, call>> /\ phase' = "thrown"
    BY <1>3, <1>5 DEF QuoteComputes
  <1> QED BY <1>4, <1>5

LEMMA QuoteStepKeeps ==
    ASSUME QuoteStep, NEW H, NEW S, NEW depth, NEW below, NEW m, Quotes(H, S, depth, below, m)
    PROVE  /\ UNCHANGED <<pool, call>>
           /\ \/ phase' = "thrown"
              \/ phase' = phase /\ \E H2, m2 : Quotes(H2, S, depth, below, m2)'
  <1>1. PICK o, q, left : o = quote /\ q = quote' /\ left = call.aToB
    OBVIOUS
  <1>2. /\ Allowed /\ RealPool(pool, depth, below) /\ InOrder(S, call.aToB)
        /\ Len(S) \in 0..MAX_SWAP_TICK_ARRAYS /\ Begins(S, pool.tick, 1, call.aToB)
        /\ m \in 0..Len(S) /\ Prefix(o, S, m)
        /\ o.tradable \in U64 /\ o.tradable > 0 /\ ProgramAmount = o.tradable
    BY <1>1, Zenon DEF Quotes
  <1>3. /\ o \in H
        /\ \A s \in H : /\ Good(s, S, depth, below)
                        /\ s.touched \subseteq o.touched /\ s.calculated <= o.calculated
                        /\ s.tradable = o.tradable
        /\ \A s \in H : s = o \/ \E s2 \in H : Iterates(s, s2)
        /\ \E s \in H : Fresh(s)
    BY <1>1, Zenon DEF Quotes, Path
  <1>4. quote \in QuoteStates
    BY <1>1, <1>3 DEF Good
  <1>5. /\ UNCHANGED <<pool, call>>
        /\ \/ phase' = "thrown"
           \/ UNCHANGED <<phase, trade>> /\ Iterates(o, q)
    BY <1>1, <1>4, QuoteMoves
  <1>6. CASE Iterates(o, q) /\ phase' = phase
    <2>1. /\ Good(q, S, depth, below) /\ q.tradable = o.tradable /\ o.calculated <= q.calculated
          /\ q.touched = o.touched \cup Touched(Ahead(S, o.tick, call.aToB), NextOf(o), call.aToB)
      BY <1>2, <1>3, <1>6, GoodNext
    <2>2. PICK m2 \in 1..Len(S) : Prefix(q, S, m2)
      BY <1>2, <1>3, <1>6, TouchesNext
    <2>3. \A s \in H : s.calculated \in Nat
      BY <1>3 DEF Good, QuoteStates
    <2>4. q.calculated \in Nat
      BY <2>1 DEF Good, QuoteStates
    <2> DEFINE H2 == H \cup {q}
    <2>5. \A s \in H2 : /\ Good(s, S, depth, below)
                        /\ s.touched \subseteq q.touched /\ s.calculated <= q.calculated
                        /\ s.tradable = q.tradable
      <3> TAKE s \in H2
      <3>1. CASE s \in H
        <4>1. s.touched \subseteq q.touched
          BY <1>3, <2>1, <3>1
        <4>2. s.calculated <= q.calculated
          BY <1>3, <2>1, <2>3, <2>4, <3>1
        <4> QED BY <1>3, <2>1, <3>1, <4>1, <4>2
      <3>2. CASE s = q
        BY <2>1, <2>4, <3>2
      <3> QED BY <3>1, <3>2
    <2>6. \A s \in H2 : s = q \/ \E s2 \in H2 : Iterates(s, s2)
      BY <1>3, <1>6, Zenon
    <2>7. q \in H2 /\ \E s \in H2 : Fresh(s)
      BY <1>3, Zenon
    <2> HIDE DEF H2
    <2>8. /\ \A s, s2 : Iterates(s, s2)' = Iterates(s, s2)
          /\ \A s : Good(s, S, depth, below)' = Good(s, S, depth, below)
          /\ Prefix(q, S, m2)' = Prefix(q, S, m2)
          /\ Allowed' = Allowed
      BY <1>5, KeptStates
    <2>9. \A s : Fresh(s)' = Fresh(s)
      BY <1>5 DEF Fresh
    <2>10. Path(H2, S, depth, below)'
      <3>1. \A s \in H2 : /\ Good(s, S, depth, below)'
                          /\ s.touched \subseteq quote'.touched /\ s.calculated <= quote'.calculated
                          /\ s.tradable = quote'.tradable
        BY <1>1, <2>5, <2>8
      <3>2. \A s \in H2 : s = quote' \/ \E s2 \in H2 : Iterates(s, s2)'
        BY <1>1, <2>6, <2>8, Zenon
      <3>3. quote' \in H2 /\ \E s \in H2 : Fresh(s)'
        BY <1>1, <2>7, <2>9, Zenon
      <3> QED BY <3>1, <3>2, <3>3, Zenon DEF Path
    <2>11. /\ Begins(S, pool.tick, 1, call.aToB)' /\ InOrder(S, call.aToB)' /\ RealPool(pool, depth, below)'
           /\ ProgramAmount' = ProgramAmount
      BY <1>2, <1>5 DEF ProgramAmount
    <2>12. m2 \in 0..Len(S)
      BY <1>2
    <2>13. Prefix(quote, S, m2)'
      BY <1>1, <2>2, <2>8 DEF Prefix
    <2>14. quote'.tradable \in U64 /\ quote'.tradable > 0 /\ ProgramAmount' = quote'.tradable
      BY <1>1, <1>2, <2>1, <2>11
    <2>15. Quotes(H2, S, depth, below, m2)'
      BY <1>2, <2>8, <2>10, <2>11, <2>12, <2>13, <2>14, Zenon DEF Quotes
    <2> QED BY <1>5, <1>6, <2>15, Zenon
  <1> QED BY <1>5, <1>6

LEMMA FinishQuoteKeeps ==
    ASSUME CallsTyped, call \in Calls, FinishQuote, NEW H, NEW S, NEW depth, NEW below, NEW m,
           Quotes(H, S, depth, below, m)
    PROVE  /\ UNCHANGED <<pool, call>>
           /\ \/ phase' = "thrown"
              \/ Quoting(H, S, depth, below, m)'
  <1>1. UNCHANGED <<pool, call, quote>>
    BY DEF FinishQuote, QuoteEnds
  <1>2. CASE EstimateIn = Err \/ EstimateIn > U64MAX \/ quote.touched = {}
    BY <1>1, <1>2 DEF FinishQuote, QuoteEnds
  <1>3. CASE ~(EstimateIn = Err \/ EstimateIn > U64MAX \/ quote.touched = {})
    <2>1. /\ ~Loops(quote) /\ phase' = "sent"
          /\ trade' = [estimateIn |-> EstimateIn, estimateOut |-> EstimateOut,
                       threshold |-> Threshold(EstimateIn, EstimateOut),
                       arrays |-> Padded(TouchedArrays)]
      BY <1>3, Zenon DEF FinishQuote, QuoteEnds
    <2>2. /\ Quotes(H, S, depth, below, m)' = Quotes(H, S, depth, below, m)
          /\ TouchedArrays' = TouchedArrays
          /\ EstimateIn' = EstimateIn /\ EstimateOut' = EstimateOut
          /\ \A x, y : Threshold(x, y)' = Threshold(x, y)
      BY <1>1, KeptQuotes
    <2>3. m >= 1
      <3>1. quote.touched = {S[i] : i \in 1..m} /\ m \in 0..Len(S) /\ InOrder(S, call.aToB)
        BY Zenon DEF Quotes, Prefix
      <3>2. m \in Int
        BY <3>1
      <3>3. ~(m < 1)
        BY <1>3, <3>1, <3>2
      <3> QED BY <3>2, <3>3
    <2>4. EstimateIn # Err /\ EstimateIn <= U64MAX
      <3>1. Good(quote, S, depth, below)
        BY Zenon DEF Quotes, Path
      <3>2. EstimateIn \in Int /\ ~(EstimateIn > U64MAX) /\ U64MAX \in Int
        BY <1>3, <3>1, EstimateTyped, Widths
      <3> QED BY <1>3, <3>2
    <2>5. Ended(m)'
      <3>1. ~Loops(quote)'
        BY <1>1, <2>1 DEF Loops
      <3>2. /\ trade'.estimateIn = EstimateIn /\ trade'.estimateOut = EstimateOut
            /\ trade'.threshold = Threshold(EstimateIn, EstimateOut)
        BY <2>1
      <3>3. Threshold(EstimateIn, EstimateOut)' = Threshold(EstimateIn, EstimateOut)
        BY <1>1, <2>2 DEF Threshold
      <3> QED BY <2>2, <2>3, <2>4, <3>1, <3>2, <3>3, Zenon DEF Ended
    <2>6. trade'.arrays = Padded(TouchedArrays)'
      BY <2>1, <2>2 DEF Padded
    <2>7. phase' = "sent" /\ Quotes(H, S, depth, below, m)'
      BY <2>1, <2>2
    <2>8. Quoting(H, S, depth, below, m)'
      BY <2>5, <2>6, <2>7, Zenon DEF Quoting
    <2> QED BY <1>1, <2>8
  <1> QED BY <1>2, <1>3

LEMMA SendKeeps ==
    ASSUME Send, NEW H, NEW S, NEW depth, NEW below, NEW m, Quotes(H, S, depth, below, m),
           Ended(m), trade.arrays = Padded(TouchedArrays)
    PROVE  UNCHANGED <<pool, call>> /\ Quoting(H, S, depth, below, m)'
  <1>1. PICK amount, left : amount = ProgramAmount /\ left = call.aToB
    OBVIOUS
  <1>2. Execute(amount)
    BY <1>1, Zenon DEF Send
  <1>3. UNCHANGED <<pool, call, quote>>
    BY <1>2 DEF Execute
  <1>4. /\ Allowed /\ InOrder(S, left) /\ Len(S) \in 0..MAX_SWAP_TICK_ARRAYS
        /\ Begins(S, pool.tick, 1, left)
        /\ m \in 0..Len(S) /\ Prefix(quote, S, m) /\ Path(H, S, depth, below)
        /\ quote.tradable \in U64 /\ quote.tradable > 0 /\ amount = quote.tradable
    BY <1>1, Zenon DEF Quotes
  <1>5. amount \notin {0, Err}
    BY <1>4, Unsigned
  <1>6. PICK t : t = trade'
    OBVIOUS
  <1>7. /\ phase' = "trading"
        /\ t = [estimateIn |-> trade.estimateIn, estimateOut |-> trade.estimateOut,
                threshold |-> trade.threshold, arrays |-> Distinct(trade.arrays),
                tradable |-> amount, remaining |-> amount, calculated |-> 0,
                sqrt_price |-> pool.sqrt_price, tick |-> pool.tick,
                liquidity |-> pool.liquidity, index |-> 1, cause |-> NoValue]
    BY <1>2, <1>5, <1>6, Zenon DEF Execute
  <1>8. /\ t.estimateIn = trade.estimateIn /\ t.estimateOut = trade.estimateOut
        /\ t.threshold = trade.threshold /\ t.arrays = Distinct(trade.arrays)
        /\ t.tradable = amount /\ t.remaining = amount /\ t.calculated = 0
        /\ t.sqrt_price = pool.sqrt_price /\ t.tick = pool.tick
        /\ t.liquidity = pool.liquidity /\ t.index = 1 /\ t.cause = NoValue
    BY <1>7
  <1>9. Shaped(t)
    BY <1>7, <1>8 DEF Shaped
  <1>10. t.arrays = SubSeq(S, 1, m)
    <2>1. m \in 1..Len(S)
      BY <1>4 DEF Ended
    <2>2. quote.sequence = S /\ quote.touched = {S[i] : i \in 1..m}
      BY <1>4, Zenon DEF Path, Good, Prefix
    <2>3. left \in BOOLEAN
      BY <1>1, <1>4 DEF Allowed
    <2>4. Distinct(Padded(TouchedArrays)) = SubSeq(S, 1, m)
      BY <1>4, <2>1, <2>2, <2>3, ArraysSent
    <2> QED BY <1>8, <2>4
  <1>11. \E s \in H : Follows(t, s, S)
    <2>1. PICK s \in H : Fresh(s) /\ s.tradable = quote.tradable
      BY <1>4, Zenon DEF Path
    <2>2. /\ s.remaining = amount /\ s.calculated = 0 /\ s.sqrt_price = pool.sqrt_price
          /\ s.tick = pool.tick /\ s.liquidity = pool.liquidity
      BY <1>4, <2>1 DEF Fresh
    <2>3. Follows(t, s, S)
      BY <1>1, <1>4, <1>8, <2>2, Zenon DEF Follows
    <2> QED BY <2>3
  <1>12. /\ Quotes(H, S, depth, below, m)' = Quotes(H, S, depth, below, m)
         /\ EstimateIn' = EstimateIn /\ EstimateOut' = EstimateOut
    BY <1>3, KeptQuotes
  <1>13. Ended(m)'
    <2>1. Threshold(EstimateIn, EstimateOut)' = Threshold(EstimateIn, EstimateOut)
      BY <1>3, <1>12 DEF Threshold
    <2>2. Loops(quote)' = Loops(quote)
      BY <1>3 DEF Loops
    <2> QED BY <1>6, <1>8, <1>12, <2>1, <2>2, Zenon DEF Ended
  <1>14. Trades(H, S, m)'
    <2>1. \A s : Follows(t, s, S)' = Follows(t, s, S)
      BY <1>3, KeptStates
    <2>2. \E s \in H : Follows(trade, s, S)'
      <3>1. \A s : Follows(trade, s, S)' = Follows(t, s, S)'
        BY <1>6 DEF Follows
      <3> QED BY <1>11, <2>1, <3>1
    <2>3. Shaped(trade)'
      BY <1>6, <1>9 DEF Shaped
    <2>4. trade'.tradable = quote'.tradable
      BY <1>3, <1>4, <1>6, <1>8
    <2> QED BY <1>6, <1>10, <2>2, <2>3, <2>4, Zenon DEF Trades
  <1> QED BY <1>3, <1>7, <1>12, <1>13, <1>14, Zenon DEF Quoting

LEMMA TradeStepKeeps ==
    ASSUME CallsTyped, call \in Calls, TradeStep, NEW H, NEW S, NEW depth, NEW below, NEW m,
           Quotes(H, S, depth, below, m), Ended(m), Trades(H, S, m)
    PROVE  /\ UNCHANGED <<pool, call>>
           /\ RefusedForPrice' \/ Quoting(H, S, depth, below, m)'
  <1>1. PICK found : found = get_next_initialized_tick_index(trade.arrays, Initialized, trade.tick,
                                                            TickSpacing, call.aToB, trade.index)
    OBVIOUS
  <1>2. PICK d : d = compute_swap(trade.remaining, FeeRate, trade.liquidity, trade.sqrt_price,
                                  Target(found.tick_index), call.isInput, call.aToB)
    OBVIOUS
  <1>3. /\ phase = "trading" /\ Loops(trade)
        /\ \/ found.error /\ Refuse("arrays")
           \/ ~found.error /\ TradeComputes(found, d)
    BY <1>1, <1>2, Zenon DEF TradeStep, TradeMoves
  <1>4. UNCHANGED <<pool, call, quote>>
    BY <1>3, Zenon DEF Refuse, TradeComputes
  <1>5. /\ Allowed /\ RealPool(pool, depth, below) /\ InOrder(S, call.aToB)
        /\ m \in 0..Len(S) /\ Prefix(quote, S, m) /\ Path(H, S, depth, below)
    BY Zenon DEF Quotes
  <1>6. PICK s \in H : Follows(trade, s, S)
    BY Zenon DEF Trades
  <1>7. s # quote
    BY <1>3, <1>6, Zenon DEF Follows, Ended, Loops
  <1>8. PICK s2 \in H : Iterates(s, s2)
    BY <1>5, <1>7, Zenon DEF Path
  <1>9. /\ Good(s, S, depth, below) /\ Good(s2, S, depth, below) /\ Good(quote, S, depth, below)
        /\ s2.touched \subseteq quote.touched /\ s2.calculated <= quote.calculated
    BY <1>5, Zenon DEF Path
  <1>10. s2.touched \subseteq {S[i] : i \in 1..m}
    BY <1>5, <1>9 DEF Prefix
  <1>11. call.aToB => s2.calculated <= U64MAX
    <2>1. CASE call.isInput
      BY <1>9, <2>1, Zenon DEF Good
    <2>2. CASE ~call.isInput
      <3>1. quote.calculated <= U64MAX
        BY <1>9, <2>2, OutcomesAgree DEF Ended
      <3>2. s2.calculated \in Nat /\ quote.calculated \in Nat
        BY <1>9 DEF Good, QuoteStates
      <3> QED BY <1>9, <3>1, <3>2, Widths
    <2> QED BY <2>1, <2>2
  <1>12. Shaped(trade) /\ trade.arrays = SubSeq(S, 1, m) /\ trade.tradable = quote.tradable
    BY Zenon DEF Trades
  <1>13. /\ ~found.error
         /\ call.aToB => ~IterationFails(found, d)
         /\ ~IterationFails(found, d) /\ TradeIterates(found, d) =>
                /\ Follows(trade', s2, S) /\ Shaped(trade') /\ SameQuote(trade', trade)
                /\ trade'.cause = trade.cause
    BY <1>1, <1>2, <1>5, <1>6, <1>8, <1>9, <1>10, <1>11, <1>12, TradeRepeats
  <1>14. CASE IterationFails(found, d)
    <2>1. phase' = "refused" /\ trade' = [trade EXCEPT !.cause = "computation"] /\ ~call.aToB
      BY <1>3, <1>13, <1>14, Zenon DEF TradeComputes, Refuse
    <2>2. trade = [estimateIn |-> trade.estimateIn, estimateOut |-> trade.estimateOut,
                   threshold |-> trade.threshold,
                   arrays |-> trade.arrays, tradable |-> trade.tradable, remaining |-> trade.remaining,
                   calculated |-> trade.calculated, sqrt_price |-> trade.sqrt_price,
                   tick |-> trade.tick, liquidity |-> trade.liquidity, index |-> trade.index,
                   cause |-> trade.cause]
      BY <1>12, Zenon DEF Shaped
    <2>3. trade'.cause = "computation"
      BY <2>1, <2>2
    <2> QED BY <1>4, <2>1, <2>3 DEF RefusedForPrice
  <1>15. CASE ~IterationFails(found, d)
    <2>1. TradeIterates(found, d) /\ phase' = phase
      BY <1>3, <1>13, <1>15, Zenon DEF TradeComputes
    <2>2. PICK t : t = trade'
      OBVIOUS
    <2>3. Follows(t, s2, S) /\ Shaped(t) /\ SameQuote(t, trade)
      BY <1>13, <1>15, <2>1, <2>2
    <2>4. /\ Quotes(H, S, depth, below, m)' = Quotes(H, S, depth, below, m)
          /\ EstimateIn' = EstimateIn /\ EstimateOut' = EstimateOut
      BY <1>4, KeptQuotes
    <2>5. Ended(m)'
      <3>1. Threshold(EstimateIn, EstimateOut)' = Threshold(EstimateIn, EstimateOut)
        BY <1>4, <2>4 DEF Threshold
      <3>2. Loops(quote)' = Loops(quote)
        BY <1>4 DEF Loops
      <3>3. /\ t.estimateIn = trade.estimateIn /\ t.estimateOut = trade.estimateOut
            /\ t.threshold = trade.threshold
        BY <2>3 DEF SameQuote
      <3> QED BY <2>2, <2>4, <3>1, <3>2, <3>3, Zenon DEF Ended
    <2>6. Trades(H, S, m)'
      <3>1. \A x : Follows(t, x, S)' = Follows(t, x, S)
        BY <1>4, KeptStates
      <3>2. Follows(trade, s2, S)'
        <4>1. Follows(trade, s2, S)' = Follows(t, s2, S)'
          BY <2>2 DEF Follows
        <4> QED BY <2>3, <3>1, <4>1
      <3>3. Shaped(trade)'
        BY <2>2, <2>3 DEF Shaped
      <3>4. trade'.tradable = quote'.tradable /\ trade'.arrays = SubSeq(S, 1, m)
        BY <1>4, <1>12, <2>2, <2>3 DEF SameQuote
      <3> QED BY <3>2, <3>3, <3>4, Zenon DEF Trades
    <2> QED BY <1>3, <1>4, <2>1, <2>4, <2>5, <2>6, Zenon DEF Quoting
  <1> QED BY <1>14, <1>15

\* Where the swap has come to its end, it has what the quote said.
LEMMA EndAgrees ==
    ASSUME CallsTyped, call \in Calls, NEW H, NEW S, NEW depth, NEW below, NEW m,
           Quotes(H, S, depth, below, m), Ended(m), Trades(H, S, m), ~Loops(trade)
    PROVE  /\ EstimateIn \in Nat /\ EstimateOut \in Nat /\ EstimateIn # Err
           /\ call.aToB \/ ~call.isInput => ReceivedOut = EstimateOut
           /\ call.aToB => PaidIn = EstimateIn
           /\ trade.sqrt_price = quote.sqrt_price
  <1>1. Allowed /\ Path(H, S, depth, below)
    BY Zenon DEF Quotes
  <1>2. PICK s \in H : Follows(trade, s, S)
    BY Zenon DEF Trades
  <1>3. s = quote
    BY <1>1, <1>2, FollowedToEnd
  <1>4. /\ trade.remaining = quote.remaining /\ trade.sqrt_price = quote.sqrt_price
        /\ call.aToB => trade.calculated = quote.calculated
        /\ trade.tradable = quote.tradable
    BY <1>2, <1>3, Zenon DEF Follows, Trades
  <1>5. Good(quote, S, depth, below) /\ EstimateIn # Err /\ EstimateIn <= U64MAX
    BY <1>1, Zenon DEF Path, Ended
  <1>6. /\ EstimateIn \in Nat /\ EstimateOut \in Nat
        /\ ~call.isInput => ReceivedOut = EstimateOut
        /\ trade.calculated = quote.calculated => PaidIn = EstimateIn /\ ReceivedOut = EstimateOut
    BY <1>4, <1>5, OutcomesAgree
  <1> QED BY <1>4, <1>5, <1>6

LEMMA FinishTradeKeeps ==
    ASSUME CallsTyped, call \in Calls, FinishTrade, NEW H, NEW S, NEW depth, NEW below, NEW m,
           Quotes(H, S, depth, below, m), Ended(m), Trades(H, S, m)
    PROVE  /\ UNCHANGED <<pool, call>>
           /\ RefusedForPrice' \/ Quoting(H, S, depth, below, m)'
  <1>1. PICK in, out : in = PaidIn /\ out = ReceivedOut
    OBVIOUS
  <1>2. Settle(in, out)
    BY <1>1, Zenon DEF FinishTrade
  <1>3. UNCHANGED <<pool, call, quote>> /\ ~Loops(trade)
    BY <1>2, Zenon DEF Settle, Refuse
  <1>4. /\ EstimateIn \in Nat /\ EstimateOut \in Nat /\ EstimateIn # Err
        /\ call.aToB => in = EstimateIn /\ out = EstimateOut
    BY <1>1, <1>3, EndAgrees
  <1>5. ASSUME call.aToB
        PROVE  /\ in # Err
               /\ ~(IF call.isInput THEN out < trade.threshold ELSE in > trade.threshold)
    <2>1. PICK x, y, slippage : x = EstimateIn /\ y = EstimateOut /\ slippage = call.slippage
      OBVIOUS
    <2>2. /\ x \in Nat /\ y \in Nat /\ in = x /\ out = y /\ x # Err
          /\ slippage.denominator \in Nat \ {0} /\ slippage.numerator \in 0..slippage.denominator
      BY <1>4, <1>5, <2>1, CallFields
    <2>3. /\ adjustForSlippage(x, slippage, TRUE) \in Nat /\ x <= adjustForSlippage(x, slippage, TRUE)
          /\ adjustForSlippage(y, slippage, FALSE) \in Nat /\ adjustForSlippage(y, slippage, FALSE) <= y
      BY <2>2, SlippageMoves
    <2>4. trade.threshold = IF call.isInput THEN adjustForSlippage(y, slippage, FALSE)
                            ELSE adjustForSlippage(x, slippage, TRUE)
      BY <2>1, Zenon DEF Ended, Threshold
    <2>5. PICK low, high, threshold : /\ low = adjustForSlippage(y, slippage, FALSE)
                                      /\ high = adjustForSlippage(x, slippage, TRUE)
                                      /\ threshold = trade.threshold
      OBVIOUS
    <2>6. ~(out < low) /\ ~(in > high) /\ threshold = (IF call.isInput THEN low ELSE high)
      <3>1. low \in Nat /\ low <= y /\ high \in Nat /\ x <= high
        BY <2>3, <2>5
      <3>2. x \in Nat /\ y \in Nat /\ in = x /\ out = y
        BY <2>2
      <3>3. ~(out < low) /\ ~(in > high)
        BY <3>1, <3>2
      <3>4. threshold = (IF call.isInput THEN low ELSE high)
        BY <2>4, <2>5, Zenon
      <3> QED BY <3>3, <3>4
    <2> QED BY <2>2, <2>5, <2>6
  <1>6. \/ /\ ~call.aToB
           /\ Refuse("fee") \/ Refuse("threshold")
        \/ phase' = "traded" /\ trade' = trade
    BY <1>2, <1>5, Zenon DEF Settle
  <1>7. CASE ~call.aToB /\ (Refuse("fee") \/ Refuse("threshold"))
    <2>1. trade = [estimateIn |-> trade.estimateIn, estimateOut |-> trade.estimateOut,
                   threshold |-> trade.threshold,
                   arrays |-> trade.arrays, tradable |-> trade.tradable, remaining |-> trade.remaining,
                   calculated |-> trade.calculated, sqrt_price |-> trade.sqrt_price,
                   tick |-> trade.tick, liquidity |-> trade.liquidity, index |-> trade.index,
                   cause |-> trade.cause]
      BY Zenon DEF Trades, Shaped
    <2>2. PICK cause \in {"fee", "threshold"} :
              phase' = "refused" /\ trade' = [trade EXCEPT !.cause = cause]
      BY <1>7 DEF Refuse
    <2>3. trade'.cause = cause
      BY <2>1, <2>2
    <2> QED BY <1>3, <1>7, <2>2, <2>3 DEF RefusedForPrice
  <1>8. CASE phase' = "traded" /\ trade' = trade
    <2>1. /\ Quotes(H, S, depth, below, m)' = Quotes(H, S, depth, below, m)
          /\ Ended(m)' = Ended(m) /\ Trades(H, S, m)' = Trades(H, S, m)
      BY <1>3, <1>8, KeptQuotes
    <2>2. Loops(trade)' = Loops(trade)
      BY <1>3, <1>8 DEF Loops
    <2> QED BY <1>3, <1>8, <2>1, <2>2, Zenon DEF Quoting
  <1> QED BY <1>6, <1>7, <1>8

LEMMA SwapInvNext == ASSUME CallsTyped, PoolsReal, SwapInv, [Next]_vars PROVE SwapInv'
  <1>1. pool \in Pools /\ call \in Calls
    BY DEF SwapInv
  <1>2. CASE UNCHANGED vars
    <2>1. UNCHANGED <<pool, call, phase, quote, trade>>
      BY <1>2 DEF vars
    <2>2. /\ \A H, S, depth, below, m : Quotes(H, S, depth, below, m)' = Quotes(H, S, depth, below, m)
          /\ \A m : Ended(m)' = Ended(m)
          /\ \A H, S, m : Trades(H, S, m)' = Trades(H, S, m)
          /\ TouchedArrays' = TouchedArrays
      BY <2>1, KeptQuotes
    <2>3. Loops(trade)' = Loops(trade) /\ Padded(TouchedArrays)' = Padded(TouchedArrays)
      BY <2>1, <2>2 DEF Loops, Padded
    <2>4. \A H, S, depth, below, m : Quoting(H, S, depth, below, m)' = Quoting(H, S, depth, below, m)
      BY <2>1, <2>2, <2>3 DEF Quoting
    <2>5. RefusedForPrice' = RefusedForPrice /\ InputOfB' = InputOfB
      BY <2>1 DEF RefusedForPrice, InputOfB
    <2> QED BY <2>1, <2>4, <2>5 DEF SwapInv
  <1>3. ASSUME Next, pool' = pool, call' = call, InputOfB PROVE SwapInv'
    BY <1>1, <1>3 DEF SwapInv, InputOfB
  <1>4. ASSUME Next PROVE pool' = pool /\ call' = call
    BY <1>4, Zenon DEF Next, Ask, StartQuote, QuoteStep, QuoteComputes, QuoteIterates, QuoteRunsOut,
       FinishQuote, QuoteEnds, Send, Execute, TradeStep, TradeMoves, TradeComputes, Refuse,
       FinishTrade, Settle
  <1>5. CASE Ask
    BY <1>5, AskKeeps
  <1>6. ASSUME Next, ~Ask, ~InputOfB PROVE SwapInv'
    <2>1. phase \notin {"asked", "thrown", "refused", "traded"}
      BY <1>6, Zenon DEF Next, Ask, StartQuote, QuoteStep, QuoteRunsOut, FinishQuote, QuoteEnds, Send,
         Execute, TradeStep, FinishTrade, Settle
    <2>2. PICK H, S, depth, below, m : Quoting(H, S, depth, below, m)
      BY <1>6, <2>1, Zenon DEF SwapInv, RefusedForPrice
    <2>3. Quotes(H, S, depth, below, m)
      BY <2>2 DEF Quoting
    <2>4. CASE QuoteStep
      <3>1. /\ UNCHANGED <<pool, call>>
            /\ \/ phase' = "thrown"
               \/ phase' = phase /\ \E H2, m2 : Quotes(H2, S, depth, below, m2)'
        BY <2>3, <2>4, QuoteStepKeeps
      <3>2. phase = "quoting"
        BY <2>4 DEF QuoteStep
      <3>3. ASSUME NEW H2, NEW m2, Quotes(H2, S, depth, below, m2)', phase' = phase
            PROVE  Quoting(H2, S, depth, below, m2)'
        BY <3>2, <3>3 DEF Quoting
      <3> QED BY <1>1, <3>1, <3>3 DEF SwapInv
    <2>5. CASE QuoteRunsOut
      BY <1>1, <2>5 DEF QuoteRunsOut, SwapInv
    <2>6. CASE FinishQuote
      <3>1. UNCHANGED <<pool, call>> /\ (phase' = "thrown" \/ Quoting(H, S, depth, below, m)')
        BY <1>1, <2>3, <2>6, FinishQuoteKeeps
      <3> QED BY <1>1, <3>1 DEF SwapInv
    <2>7. CASE Send
      <3>1. phase = "sent"
        BY <2>7 DEF Send, Execute
      <3>2. Ended(m) /\ trade.arrays = Padded(TouchedArrays)
        BY <2>2, <3>1 DEF Quoting
      <3>3. UNCHANGED <<pool, call>> /\ Quoting(H, S, depth, below, m)'
        BY <2>3, <2>7, <3>2, SendKeeps
      <3> QED BY <1>1, <3>3 DEF SwapInv
    <2>8. ASSUME phase = "trading" PROVE Ended(m) /\ Trades(H, S, m)
      BY <2>2, <2>8 DEF Quoting
    <2>9. CASE TradeStep
      <3>1. phase = "trading"
        BY <2>9 DEF TradeStep
      <3>2. UNCHANGED <<pool, call>> /\ (RefusedForPrice' \/ Quoting(H, S, depth, below, m)')
        BY <1>1, <2>3, <2>8, <2>9, <3>1, TradeStepKeeps
      <3> QED BY <1>1, <3>2 DEF SwapInv
    <2>10. CASE FinishTrade
      <3>1. phase = "trading"
        BY <2>10 DEF FinishTrade, Settle
      <3>2. UNCHANGED <<pool, call>> /\ (RefusedForPrice' \/ Quoting(H, S, depth, below, m)')
        BY <1>1, <2>3, <2>8, <2>10, <3>1, FinishTradeKeeps
      <3> QED BY <1>1, <3>2 DEF SwapInv
    <2> QED BY <1>6, <2>4, <2>5, <2>6, <2>7, <2>9, <2>10 DEF Next
  <1> QED BY <1>2, <1>3, <1>4, <1>5, <1>6

LEMMA SwapInvSuffices == ASSUME CallsTyped, SwapInv PROVE ArraysSuffice
  <1> SUFFICES ASSUME phase = "refused", ~InputOfB PROVE trade.cause # "arrays"
    BY DEF ArraysSuffice
  <1> QED BY DEF SwapInv, Quoting, RefusedForPrice

LEMMA SwapInvExact == ASSUME CallsTyped, SwapInv PROVE QuoteExact
  <1>1. ASSUME call.aToB PROVE phase # "refused"
    BY <1>1 DEF SwapInv, Quoting, RefusedForPrice, InputOfB
  <1>2. ASSUME phase = "traded", ~InputOfB
        PROVE  /\ ReceivedOut = trade.estimateOut /\ trade.sqrt_price = quote.sqrt_price
               /\ call.aToB => PaidIn = trade.estimateIn
    <2>1. PICK H, S, depth, below, m : Quoting(H, S, depth, below, m)
      BY <1>2, Zenon DEF SwapInv, RefusedForPrice
    <2>2. Quotes(H, S, depth, below, m) /\ Ended(m) /\ Trades(H, S, m) /\ ~Loops(trade)
      BY <1>2, <2>1 DEF Quoting
    <2>3. call \in Calls /\ (call.aToB \/ ~call.isInput)
      BY <1>2, <2>2, Zenon DEF SwapInv, Quotes, Allowed
    <2>4. /\ ReceivedOut = EstimateOut /\ trade.sqrt_price = quote.sqrt_price
          /\ call.aToB => PaidIn = EstimateIn
      BY <2>2, <2>3, EndAgrees
    <2> QED BY <2>2, <2>4, Zenon DEF Ended
  <1> QED BY <1>1, <1>2 DEF QuoteExact

\* Unless b is the exact input, whatever the pool, its ticks and the arrays that
\* exist: the arrays a quote names (getTouchedArrays) are all that the program's
\* loop asks for, however many iterations either takes.
THEOREM QuoteNamesArrays == ASSUME CallsTyped, PoolsReal PROVE Spec => []ArraysSuffice
  <1>1. SwapInv => ArraysSuffice
    BY SwapInvSuffices
  <1>2. SwapInv /\ [Next]_vars => SwapInv'
    BY SwapInvNext
  <1> QED BY SwapInvInit, <1>1, <1>2, PTL DEF Spec

\* The program repeats what the SDK foretold: a swap of a for b that was quoted
\* is never refused and pays and receives what the quote said, to the token,
\* whatever the liquidity, the ticks crossed and the transfer fees; an exact
\* output of a that is accepted ends at the quoted price with the quoted amount.
THEOREM QuotedExactly == ASSUME CallsTyped, PoolsReal PROVE Spec => []QuoteExact
  <1>1. SwapInv => QuoteExact
    BY SwapInvExact
  <1>2. SwapInv /\ [Next]_vars => SwapInv'
    BY SwapInvNext
  <1> QED BY SwapInvInit, <1>1, <1>2, PTL DEF Spec

=============================================================================
