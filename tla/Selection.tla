------------------------------ MODULE Selection ------------------------------
(***************************************************************************)
(* The partition by which the router keeps its best routes without sorting *)
(* all of them (utils/math/k-smallest-partition.ts), below the number of   *)
(* elements, 600, from which it samples.  Indices start at 1; cost[e] is   *)
(* what an element is compared by.  A loop is a function from the number   *)
(* of its rounds to its state: none has more rounds than there are         *)
(* elements.                                                               *)
(***************************************************************************)
EXTENDS Integers, SequencesExt

SwapAt(array, i, j) == [array EXCEPT ![i] = array[j], ![j] = array[i]]

\* The first index from i on whose element is not below t, and the last one
\* up to j whose element is not above it.
Up(cost, array, t, i) ==
    CHOOSE n \in i..Len(array) : cost[array[n]] >= cost[t] /\ \A m \in i..n - 1 : cost[array[m]] < cost[t]

Down(cost, array, t, j) ==
    CHOOSE n \in 1..j : cost[array[n]] <= cost[t] /\ \A m \in n + 1..j : cost[array[m]] > cost[t]

Exchange(cost, t, s) ==
    LET swapped == SwapAt(s.array, s.i, s.j)
    IN  [array |-> swapped, i |-> Up(cost, swapped, t, s.i + 1), j |-> Down(cost, swapped, t, s.j - 1)]

\* The elements before i are at most t and those after j at least t.
Meet(cost, array, t, left, right) ==
    LET met[round \in 0..Len(array)] ==
            IF round = 0 THEN [array |-> array, i |-> left, j |-> right]
            ELSE LET s == met[round - 1] IN IF s.i < s.j THEN Exchange(cost, t, s) ELSE s
    IN  met[Len(array)]

\* Where t ends up: it was kept at one end of the part, and is put between
\* the smaller and the larger elements.
Place(cost, array, left, right, t, j) ==
    IF cost[array[left]] = cost[t] THEN [array |-> SwapAt(array, left, j), at |-> j]
    ELSE [array |-> SwapAt(array, j + 1, right), at |-> j + 1]

Around(cost, array, left, right, k) ==
    LET t     == array[k]
        first == SwapAt(array, left, k)
        start == IF cost[first[right]] > cost[t] THEN SwapAt(first, left, right) ELSE first
        met   == Meet(cost, start, t, left, right)
    IN  Place(cost, met.array, left, right, t, met.j)

\* Mutant: the part with the k-th element is always taken to be the left one.
NarrowLeft(left, right, at, k) == <<left, at - 1>>

Narrow(left, right, at, k) ==
    <<IF at <= k THEN at + 1 ELSE left, IF k <= at THEN at - 1 ELSE right>>

Partition(cost, k, s) ==
    LET placed == Around(cost, s.array, s.left, s.right, k)
        part   == Narrow(s.left, s.right, placed.at, k)
    IN  [array |-> placed.array, left |-> part[1], right |-> part[2]]

kSmallestPartition(cost, array, k) ==
    LET kept[round \in 0..Len(array)] ==
            IF round = 0 THEN [array |-> array, left |-> 1, right |-> Len(array)]
            ELSE LET s == kept[round - 1] IN IF s.left < s.right THEN Partition(cost, k, s) ELSE s
    IN  kept[Len(array)].array

-----------------------------------------------------------------------------
CONSTANTS Costs, MaxLength

ASSUME SelectionAssumption == Costs \subseteq Int /\ MaxLength \in Nat

VARIABLES
    elements,   \* the costs of the elements 1..n, and how many are kept
    order       \* the elements as the partition leaves them, or <<>> before

selectVars == <<elements, order>>

SelectInit ==
    /\ \E n \in 2..MaxLength : elements \in [cost : [1..n -> Costs], keep : 1..n - 1]
    /\ order = <<>>

\* The caller keeps the first [keep] elements: it passes [keep] as the index,
\* counted from 0, that is to get its element.
Select ==
    /\ order = <<>>
    /\ order' = kSmallestPartition(elements.cost, [i \in DOMAIN elements.cost |-> i], elements.keep + 1)
    /\ UNCHANGED elements

SelectSpec == SelectInit /\ [][Select]_selectVars

-----------------------------------------------------------------------------
\* The partition only reorders the elements, and none of those kept costs
\* more than one that is dropped, with ties, in any initial order: the loop
\* that looks for elements to swap never leaves the array
\* (k-smallest-partition.ts).
KeepsSmallest ==
    order # <<>> =>
        /\ ToSet(order) = DOMAIN elements.cost /\ Len(order) = Len(elements.cost)
        /\ \A i \in 1..elements.keep, j \in elements.keep + 1..Len(order) :
              elements.cost[order[i]] <= elements.cost[order[j]]

=============================================================================
