------------------------------ MODULE TickWalk ------------------------------
(***************************************************************************)
(* The walk of a swap over the ticks, without prices and amounts: the loop *)
(* asks for the next initialised tick, crosses it, and goes on from there, *)
(* in whatever tick arrays the caller passed: any of them, in any order,   *)
(* too few or not adjacent.                                                *)
(***************************************************************************)
EXTENDS TickArrays

CONSTANT MaxArrays   \* arrays a swap takes (3)

ASSUME WalkAssumption == MaxArrays \in Nat \ {0}

VARIABLES
    walk,      \* direction, arrays, initialised ticks and first current tick
    tick,      \* curr_tick_index
    index,     \* curr_array_index
    crossed,   \* initialised ticks crossed so far
    status     \* "running", "limit" at the end of the price range, "error"

walkVars == <<walk, tick, index, crossed, status>>

\* The same account passed twice cannot be borrowed twice and is dropped, so
\* that the arrays of a sequence are distinct.
Sequences3 ==
    UNION {{s \in [1..n -> Starts] : \A i, j \in 1..n : s[i] = s[j] => i = j}
              : n \in 1..MaxArrays}

\* A swap that starts at the price it may not pass has nothing to walk.
WalkInit ==
    /\ walk \in [a_to_b : BOOLEAN, arrays : Sequences3, initialized : SUBSET Usable,
                 from : MIN_TICK_INDEX - 1..MAX_TICK_INDEX]
    /\ IF walk.a_to_b THEN walk.from >= MIN_TICK_INDEX ELSE walk.from < MAX_TICK_INDEX
    /\ tick = walk.from
    /\ index = 1
    /\ crossed = {}
    /\ status = "running"

Search == get_next_initialized_tick_index(walk.arrays, walk.initialized, tick,
                                          TickSpacing, walk.a_to_b, index)

\* The price reaches the tick found; an initialised one is crossed.  At the end
\* of the tick range ahead, the price is at the furthest limit there is.
Cross ==
    LET r == Search
        start == walk.arrays[r.array_index]
    IN  /\ status = "running"
        /\ ~r.error
        /\ crossed' = IF /\ has_tick(start, r.tick_index, TickSpacing)
                         /\ r.tick_index \in walk.initialized
                      THEN crossed \cup {r.tick_index} ELSE crossed
        /\ index' = ArrayAfter(start, r.array_index, r.tick_index, TickSpacing, walk.a_to_b)
        /\ tick' = TickAfter(r.tick_index, walk.a_to_b)
        /\ status' = IF r.tick_index = IF walk.a_to_b THEN MIN_TICK_INDEX ELSE MAX_TICK_INDEX
                     THEN "limit" ELSE "running"
        /\ UNCHANGED walk

Fail ==
    /\ status = "running"
    /\ Search.error
    /\ status' = "error"
    /\ UNCHANGED <<walk, tick, index, crossed>>

WalkNext == Cross \/ Fail

WalkSpec == WalkInit /\ [][WalkNext]_walkVars /\ WF_walkVars(WalkNext)

-----------------------------------------------------------------------------
\* Whatever arrays the caller passed, the ticks crossed are exactly the
\* initialised ticks between the first current tick and the current one: the
\* loop never jumps over an initialised tick nor crosses one twice, or the
\* pool's liquidity would no longer be that of the positions in range.
NoTickSkipped ==
    crossed = {t \in walk.initialized :
                  IF walk.a_to_b THEN tick < t /\ t <= walk.from
                                 ELSE walk.from < t /\ t <= tick}

\* Arrays that are adjacent in the swap's direction and start where the swap
\* does are always walked to the end of the last one, or of the range: they
\* are never refused halfway.
Adjacent ==
    \A i \in 2..Len(walk.arrays) :
        walk.arrays[i] = IF walk.a_to_b THEN walk.arrays[i - 1] - TicksInArray(TickSpacing)
                                        ELSE walk.arrays[i - 1] + TicksInArray(TickSpacing)

StartsRight == in_search_range(walk.arrays[1], walk.from, TickSpacing, ~walk.a_to_b)

GoodArraysWalked ==
    (Adjacent /\ StartsRight /\ status = "error") => index = Len(walk.arrays) + 1

-----------------------------------------------------------------------------
\* What a swap does to the ticks, whatever the arrays.
Order == INSTANCE TickOrder WITH
    ahead <- {t \in walk.initialized : IF walk.a_to_b THEN t <= tick ELSE t > tick},
    left <- walk.a_to_b,
    state <- CASE status = "running" -> "moving"
               [] status = "error" -> "stopped"
               [] status = "limit" -> "end"

\* The search through slots of arrays implements the plain order of the ticks:
\* each iteration passes no initialised tick or the nearest one, the end of
\* the price range is reached with none left, and the loop ends: it neither stays
\* on a tick nor goes round in the arrays.
ImplementsOrder == Order!Spec

=============================================================================
