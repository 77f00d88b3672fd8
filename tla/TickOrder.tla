------------------------------ MODULE TickOrder ------------------------------
(***************************************************************************)
(* What a swap promises of the ticks it passes, without arrays, slots and  *)
(* spacings: it meets the initialised ticks ahead of it nearest first and  *)
(* one by one, may be stopped at any of them, reaches the end of the price *)
(* range only when none is left, and does stop.                            *)
(***************************************************************************)
EXTENDS Integers

VARIABLES
    ahead,   \* initialised ticks ahead of the price
    left,    \* does the price fall?
    state    \* "moving", "stopped", or "end" of the price range

\* No tick of the set is nearer to the price than t.
IsNearest(t) == \A u \in ahead : IF left THEN u <= t ELSE t <= u

vars == <<ahead, left, state>>

Init == ahead \subseteq Int /\ left \in BOOLEAN /\ state = "moving"

Pass(t) ==
    /\ state = "moving" /\ IsNearest(t)
    /\ ahead' = ahead \ {t}
    /\ \/ state' = "moving"
       \/ state' = "end" /\ ahead' = {}
    /\ UNCHANGED left

Stop ==
    /\ state = "moving"
    /\ \/ state' = "stopped"
       \/ state' = "end" /\ ahead = {}
    /\ UNCHANGED <<ahead, left>>

Next == Stop \/ \E t \in ahead : Pass(t)

Safety == Init /\ [][Next]_vars

Spec == Safety /\ WF_vars(Next)

=============================================================================
