------------------------------ MODULE TickIndex ------------------------------
(* Tick indexes of a pool (the checks of Tick in state/tick.rs).             *)
EXTENDS Integers

CONSTANTS
    MIN_TICK_INDEX,   \* -443636
    MAX_TICK_INDEX,   \*  443636
    TickSpacing       \* of the pool

ASSUME TickIndexAssumption ==
    /\ MIN_TICK_INDEX \in Int
    /\ MAX_TICK_INDEX \in Int
    /\ MIN_TICK_INDEX < MAX_TICK_INDEX

ASSUME SpacingAssumption == TickSpacing \in Nat \ {0}

check_is_out_of_bounds(t) == t > MAX_TICK_INDEX \/ t < MIN_TICK_INDEX

check_is_usable_tick(t, tick_spacing) ==
    ~check_is_out_of_bounds(t) /\ t % tick_spacing = 0

=============================================================================
