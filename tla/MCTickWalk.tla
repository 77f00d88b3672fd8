----------------------------- MODULE MCTickWalk -----------------------------
(* Arrays of two slots with spacing 2 over the ticks -5..4: four arrays, of *)
(* which the first starts below the range; the lowest tick is not usable,   *)
(* the highest is.                                                          *)
EXTENDS TickWalk

MCMin == -5

=============================================================================
