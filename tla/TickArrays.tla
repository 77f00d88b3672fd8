----------------------------- MODULE TickArrays -----------------------------
(***************************************************************************)
(* Tick arrays (state/tick.rs) and the sequence of up to three of them     *)
(* that a swap searches for the next initialised tick                      *)
(* (util/swap_tick_sequence.rs).                                           *)
(*                                                                         *)
(* An array is known by its start index: it has a slot for every multiple  *)
(* of the tick spacing from there on.  Which slots are initialised is a    *)
(* set of tick indexes.  The positions of a sequence count from 1.         *)
(***************************************************************************)
EXTENDS TickIndex, Sequences, FiniteSetsExt

CONSTANT TICK_ARRAY_SIZE   \* 88 slots

ASSUME TickArrayAssumption == TICK_ARRAY_SIZE \in Nat \ {0}

TicksInArray(tick_spacing) == TICK_ARRAY_SIZE * tick_spacing

\* Start index of the array that holds MIN_TICK_INDEX; the code's remainder
\* of a negative number is negative.
MinArrayStart(tick_spacing) ==
    MIN_TICK_INDEX + ((-MIN_TICK_INDEX) % TicksInArray(tick_spacing)) - TicksInArray(tick_spacing)

check_is_valid_start_tick(t, tick_spacing) ==
    IF check_is_out_of_bounds(t)
    THEN t <= MIN_TICK_INDEX /\ t = MinArrayStart(tick_spacing)
    ELSE t % TicksInArray(tick_spacing) = 0

\* Ticks of the pool that can be initialised, and where its arrays start.
Usable == {t \in MIN_TICK_INDEX..MAX_TICK_INDEX : check_is_usable_tick(t, TickSpacing)}

Starts == {t \in MinArrayStart(TickSpacing)..MAX_TICK_INDEX :
              check_is_valid_start_tick(t, TickSpacing)}

-----------------------------------------------------------------------------
(* One array. *)

\* A search to the right looks for ticks right of t, hence the shift.
in_search_range(start, t, tick_spacing, shifted) ==
    LET shift == IF shifted THEN tick_spacing ELSE 0
    IN  t \in start - shift..start + TicksInArray(tick_spacing) - shift - 1

is_min_tick_array(start) == start <= MIN_TICK_INDEX

is_max_tick_array(start, tick_spacing) ==
    start + TicksInArray(tick_spacing) > MAX_TICK_INDEX

\* The slot at or left of t: division rounding down.
tick_offset(start, t, tick_spacing) == (t - start) \div tick_spacing

\* The slot get_tick returns; its error is FALSE here.
has_tick(start, t, tick_spacing) ==
    /\ in_search_range(start, t, tick_spacing, FALSE)
    /\ check_is_usable_tick(t, tick_spacing)

\* Mutant: a search to the left does not look at the slot it starts from.
SlotsAheadStrict(start, initialized, t, tick_spacing, a_to_b) ==
    {o \in 0..TICK_ARRAY_SIZE - 1 :
        /\ start + o * tick_spacing \in initialized
        /\ IF a_to_b THEN o < tick_offset(start, t, tick_spacing)
                     ELSE o > tick_offset(start, t, tick_spacing)}

\* Initialised slots of the array that the search passes: from the slot of t
\* leftwards, or from the slot after it rightwards.
SlotsAhead(start, initialized, t, tick_spacing, a_to_b) ==
    {o \in 0..TICK_ARRAY_SIZE - 1 :
        /\ start + o * tick_spacing \in initialized
        /\ IF a_to_b THEN o <= tick_offset(start, t, tick_spacing)
                     ELSE o > tick_offset(start, t, tick_spacing)}

-----------------------------------------------------------------------------
(* A sequence of arrays. *)

\* Mutant: to the right, the search goes on from the first slot of the next array.
SearchIndexPast(arrays, i, first, t, tick_spacing, a_to_b) ==
    IF i = first THEN t
    ELSE IF a_to_b THEN arrays[i - 1] - 1
                   ELSE arrays[i - 1] + TicksInArray(tick_spacing)

\* Where the search continues from when array i has no initialised tick ahead.
SearchIndex(arrays, i, first, t, tick_spacing, a_to_b) ==
    IF i = first THEN t
    ELSE IF a_to_b THEN arrays[i - 1] - 1
                   ELSE arrays[i - 1] + TicksInArray(tick_spacing) - 1

SearchError == [error |-> TRUE, array_index |-> 0, tick_index |-> 0]

Found(i, t) == [error |-> FALSE, array_index |-> i, tick_index |-> t]

\* The tick at which a search ends that found no initialised tick up to the
\* end of the sequence or of the tick range.
EdgeTick(start, tick_spacing, a_to_b) ==
    IF a_to_b
    THEN IF is_min_tick_array(start) THEN MIN_TICK_INDEX ELSE start
    ELSE IF is_max_tick_array(start, tick_spacing) THEN MAX_TICK_INDEX
         ELSE start + TicksInArray(tick_spacing) - 1

IsEdge(arrays, i, tick_spacing, a_to_b) ==
    \/ a_to_b /\ is_min_tick_array(arrays[i])
    \/ ~a_to_b /\ is_max_tick_array(arrays[i], tick_spacing)
    \/ i = Len(arrays)

\* The loop over the arrays stops at the first one that cannot be searched
\* from where the search is, that has an initialised tick ahead, or that is
\* the last.
get_next_initialized_tick_index(arrays, initialized, t, tick_spacing, a_to_b, first) ==
    LET search(i) == SearchIndex(arrays, i, first, t, tick_spacing, a_to_b)
        searchable(i) == in_search_range(arrays[i], search(i), tick_spacing, ~a_to_b)
        ahead(i) == SlotsAhead(arrays[i], initialized, search(i), tick_spacing, a_to_b)
        stops == {i \in first..Len(arrays) :
                    \/ ~searchable(i)
                    \/ ahead(i) # {}
                    \/ IsEdge(arrays, i, tick_spacing, a_to_b)}
        i == Min(stops)
        slot == IF a_to_b THEN Max(ahead(i)) ELSE Min(ahead(i))
    IN  IF first > Len(arrays) THEN SearchError
        ELSE IF ~searchable(i) THEN SearchError
        ELSE IF ahead(i) # {} THEN Found(i, arrays[i] + slot * tick_spacing)
        ELSE Found(i, EdgeTick(arrays[i], tick_spacing, a_to_b))

\* Mutant: the last slot of an array does not end a move to the right.
ArrayAfterMissed(start, i, t, tick_spacing, a_to_b) ==
    IF a_to_b /\ tick_offset(start, t, tick_spacing) = 0 THEN i + 1 ELSE i

\* Array in which the swap loop goes on after reaching tick t of array i.
ArrayAfter(start, i, t, tick_spacing, a_to_b) ==
    IF \/ a_to_b /\ tick_offset(start, t, tick_spacing) = 0
       \/ ~a_to_b /\ tick_offset(start, t, tick_spacing) = TICK_ARRAY_SIZE - 1
    THEN i + 1 ELSE i

\* Mutant: a move to the right steps back from the tick it reached.
TickAfterLeft(t, a_to_b) == t - 1

\* Current tick after reaching tick t: a search to the left includes the
\* tick it starts from, so the loop steps past it.
TickAfter(t, a_to_b) == IF a_to_b THEN t - 1 ELSE t

=============================================================================
