----------------------------- MODULE Whirlpool -----------------------------
(***************************************************************************)
(* One pool of the whirlpool program: its price, ticks, positions and      *)
(* vaults, and every instruction that changes them.                        *)
(*                                                                         *)
(* An instruction is atomic and an error undoes all it did, so that an     *)
(* action is a successful instruction and its guard the absence of errors. *)
(* A swap is the exception: each iteration of its loop is a step on a      *)
(* working copy (swap), and the instruction ends by committing it or by    *)
(* throwing it away.  Nothing else touches the pool's accounts meanwhile.  *)
(*                                                                         *)
(* The fees of tokens a and b and the rewards are treated alike by the     *)
(* code (a global growth, a growth outside each tick, a checkpoint and an  *)
(* amount owed per position): a Kind is any of them.  Who may call an      *)
(* instruction is the matter of PositionAccounts.                          *)
(***************************************************************************)
EXTENDS PoolMath, TickArrays

CONSTANTS
    PositionIds,              \* accounts of positions
    NoPosition,               \* content of an account that is not open
    NoSwap,                   \* no swap is in progress
    RewardNames,              \* sequence of the pool's rewards (NUM_REWARDS is 3)
    MAX_FEE_RATE,             \* 30_000 of 1_000_000
    MAX_PROTOCOL_FEE_RATE,    \* 2_500 of 10_000
    DAY_IN_SECONDS,           \* 86_400
    Supply                    \* of every token; the token program keeps it a u64

CONSTANTS   \* arguments of instructions
    RangeInputs, LiquidityInputs, TokenLimits,
    SwapAmounts, SwapThresholds, SwapLimits, ArrayInputs,
    FeeRates, ProtocolFeeRates, Emissions, FundAmounts, InitialPrices, Times

Tokens == {"a", "b"}
Rewards == {RewardNames[i] : i \in 1..Len(RewardNames)}
Kinds == Tokens \cup Rewards

ASSUME PoolAssumption ==
    /\ Rewards \cap Tokens = {}
    /\ MAX_FEE_RATE \in 0..FEE_RATE_MUL_VALUE - 1
    /\ MAX_PROTOCOL_FEE_RATE \in 0..PROTOCOL_FEE_RATE_MUL_VALUE
    /\ DAY_IN_SECONDS \in Nat
    /\ Supply \in U64

\* No supply of tokens, a u64, buys liquidity beyond an i128, however narrow the
\* range: at a price between two ticks it takes tokens b up to the price and
\* tokens a from there (at 2^127 of it more than 2^64 of one of them, since ticks are
\* 1.0001 apart and the least price is about 2^32).
ASSUME SupplyAssumption ==
    \A t \in MIN_TICK_INDEX..MAX_TICK_INDEX - 1 :
        \A price \in SqrtPrice[t]..SqrtPrice[t + 1] :
            \/ (I128MAX + 1) * (price - SqrtPrice[t]) > Supply * WORD
            \/ (I128MAX + 1) * ((SqrtPrice[t + 1] - price) * WORD)
                   > Supply * (price * SqrtPrice[t + 1])

ASSUME InputAssumption ==
    /\ RangeInputs \subseteq Int \X Int
    /\ LiquidityInputs \subseteq U128
    /\ TokenLimits \subseteq U64
    /\ SwapAmounts \subseteq U64
    /\ SwapThresholds \subseteq U64
    /\ SwapLimits \subseteq U128
    /\ ArrayInputs \subseteq Seq(Starts)
    /\ FeeRates \subseteq Nat
    /\ ProtocolFeeRates \subseteq Nat
    /\ Emissions \subseteq U128
    /\ FundAmounts \subseteq U64
    /\ InitialPrices \subseteq U128
    /\ Times \subseteq Nat

VARIABLES
    pool,          \* the Whirlpool account
    tick_arrays,   \* start indexes of the tick arrays initialised
    ticks,         \* the Tick of every usable index
    positions,     \* the Position accounts
    vault,         \* amounts in the vaults of tokens and rewards
    clock,         \* the cluster's unix_timestamp
    swap           \* the swap in progress

vars == <<pool, tick_arrays, ticks, positions, vault, clock, swap>>

-----------------------------------------------------------------------------
(* State of the accounts *)

Zero == [k \in Kinds |-> 0]

DefaultTick == [initialized |-> FALSE, liquidity_net |-> 0, liquidity_gross |-> 0,
                growth_outside |-> Zero]

DefaultPosition(lower, upper) ==
    [tick_lower_index |-> lower, tick_upper_index |-> upper, liquidity |-> 0,
     checkpoint |-> Zero, owed |-> Zero]

\* Kinds that grow: the two fees and the rewards that are initialised.
Active(p) == Tokens \cup p.rewards

Open == {id \in PositionIds : positions[id] # NoPosition}

InArrays(t) == \E start \in tick_arrays : has_tick(start, t, TickSpacing)

Initialized(tks) == {t \in Usable : tks[t].initialized}

-----------------------------------------------------------------------------
(* whirlpool_manager.rs *)

\* Mutant: the time is not checked.
AnyTimestamp(p, now) == FALSE

\* The error of next_whirlpool_reward_infos.
InvalidTimestamp(p, now) == now < p.reward_last_updated_timestamp

\* Global growths at time now.  A growth that overflows stops.
next_whirlpool_reward_infos(p, now) ==
    LET delta(k) == checked_mul_div(now - p.reward_last_updated_timestamp,
                                    p.emissions[k], p.liquidity)
    IN  [k \in Kinds |->
            IF k \in p.rewards /\ p.liquidity > 0 /\ delta(k) # Err
            THEN WrapU128(p.growth[k] + delta(k)) ELSE p.growth[k]]

next_whirlpool_liquidity(p, lower, upper, delta) ==
    IF p.tick_current_index < upper /\ p.tick_current_index >= lower
    THEN add_liquidity_delta(p.liquidity, delta) ELSE p.liquidity

-----------------------------------------------------------------------------
(* tick_manager.rs *)

\* Mutant: crossing a tick does not turn its outside round.
CrossKeepsOutside(tick, growth, active) == tick

next_tick_cross_update(tick, growth, active) ==
    [tick EXCEPT !.growth_outside = [k \in Kinds |->
        IF k \in active THEN WrapU128(growth[k] - @[k]) ELSE @[k]]]

NextNet(tick, delta, is_upper) ==
    IF is_upper THEN tick.liquidity_net - delta ELSE tick.liquidity_net + delta

\* The cases in which next_tick_modify_liquidity_update is an error.
TickUpdateFails(tick, delta, is_upper) ==
    LET gross == add_liquidity_delta(tick.liquidity_gross, delta)
    IN  /\ delta # 0
        /\ \/ gross = Err
           \/ gross # 0 /\ NextNet(tick, delta, is_upper) \notin -I128MAX - 1..I128MAX

\* Mutant: a tick that loses its last liquidity stays initialised.
TickStaysInitialized(tick, t, current, growth, delta, is_upper) ==
    IF delta = 0 THEN tick
    ELSE [initialized |-> TRUE,
          liquidity_net |-> NextNet(tick, delta, is_upper),
          liquidity_gross |-> add_liquidity_delta(tick.liquidity_gross, delta),
          growth_outside |-> IF tick.liquidity_gross > 0 THEN tick.growth_outside
                             ELSE IF current >= t THEN growth ELSE Zero]

\* A tick that gets its first liquidity takes all growth so far to have
\* happened below it; one that loses its last is reset.
next_tick_modify_liquidity_update(tick, t, current, growth, delta, is_upper) ==
    LET gross == add_liquidity_delta(tick.liquidity_gross, delta)
    IN  IF delta = 0 THEN tick
        ELSE IF gross = 0 THEN DefaultTick
        ELSE [initialized |-> TRUE,
              liquidity_net |-> NextNet(tick, delta, is_upper),
              liquidity_gross |-> gross,
              growth_outside |-> IF tick.liquidity_gross > 0 THEN tick.growth_outside
                                 ELSE IF current >= t THEN growth ELSE Zero]

GrowthBelow(k, current, tick, t, growth) ==
    IF ~tick.initialized THEN growth[k]
    ELSE IF current < t THEN WrapU128(growth[k] - tick.growth_outside[k])
    ELSE tick.growth_outside[k]

GrowthAbove(k, current, tick, t, growth) ==
    IF ~tick.initialized THEN 0
    ELSE IF current < t THEN tick.growth_outside[k]
    ELSE WrapU128(growth[k] - tick.growth_outside[k])

\* Mutant: the subtractions do not wrap.
GrowthsInsideSigned(current, tks, lower, upper, growth, active) ==
    [k \in Kinds |->
        IF k \in active
        THEN growth[k] - GrowthBelow(k, current, tks[lower], lower, growth)
                       - GrowthAbove(k, current, tks[upper], upper, growth)
        ELSE 0]

\* next_fee_growths_inside and next_reward_growths_inside.
next_growths_inside(current, tks, lower, upper, growth, active) ==
    [k \in Kinds |->
        IF k \in active
        THEN WrapU128(growth[k] - GrowthBelow(k, current, tks[lower], lower, growth)
                                - GrowthAbove(k, current, tks[upper], upper, growth))
        ELSE 0]

-----------------------------------------------------------------------------
(* position_manager.rs *)

\* What a position earned since its checkpoint; an overflow loses it all.
Earned(position, inside, k) ==
    LET amount == checked_mul_shift_right(position.liquidity,
                                          WrapU128(inside[k] - position.checkpoint[k]))
    IN  IF amount = Err THEN 0 ELSE amount

next_position_modify_liquidity_update(position, delta, inside) ==
    [position EXCEPT
        !.liquidity = add_liquidity_delta(@, delta),
        !.checkpoint = inside,
        !.owed = [k \in Kinds |-> WrapU64(@[k] + Earned(position, inside, k))]]

-----------------------------------------------------------------------------
(* liquidity_manager.rs *)

\* The cases in which calculate_modify_liquidity is an error.
ModifyFails(id, delta) ==
    LET p == positions[id]
        lower == p.tick_lower_index
        upper == p.tick_upper_index
    IN  \/ ~InArrays(lower)
        \/ ~InArrays(upper)
        \/ delta = 0 /\ p.liquidity = 0
        \/ InvalidTimestamp(pool, clock)
        \/ next_whirlpool_liquidity(pool, lower, upper, delta) = Err
        \/ TickUpdateFails(ticks[lower], delta, FALSE)
        \/ TickUpdateFails(ticks[upper], delta, TRUE)
        \/ add_liquidity_delta(p.liquidity, delta) = Err

\* calculate_modify_liquidity and sync_modify_liquidity_values.  The growth
\* inside the range is that of the ticks as they were before.
ModifyLiquidity(id, delta) ==
    LET p == positions[id]
        lower == p.tick_lower_index
        upper == p.tick_upper_index
        current == pool.tick_current_index
        growth == next_whirlpool_reward_infos(pool, clock)
        inside == next_growths_inside(current, ticks, lower, upper, growth, Active(pool))
        next(t, is_upper) ==
            next_tick_modify_liquidity_update(ticks[t], t, current, growth, delta, is_upper)
    IN  /\ ~ModifyFails(id, delta)
        /\ positions' = [positions EXCEPT
                            ![id] = next_position_modify_liquidity_update(p, delta, inside)]
        /\ ticks' = [ticks EXCEPT ![lower] = next(lower, FALSE), ![upper] = next(upper, TRUE)]
        /\ pool' = [pool EXCEPT
                        !.growth = growth,
                        !.reward_last_updated_timestamp = clock,
                        !.liquidity = next_whirlpool_liquidity(pool, lower, upper, delta)]

\* Tokens a change of a position's liquidity moves, by where the price is.
calculate_liquidity_token_deltas(p, position, delta) ==
    LET liquidity == IF delta > 0 THEN delta ELSE -delta
        round_up == delta > 0
        lower == sqrt_price_from_tick_index(position.tick_lower_index)
        upper == sqrt_price_from_tick_index(position.tick_upper_index)
    IN  CASE p.tick_current_index < position.tick_lower_index ->
                [a |-> get_amount_delta_a(lower, upper, liquidity, round_up), b |-> 0]
          [] p.tick_current_index \in position.tick_lower_index..position.tick_upper_index - 1 ->
                [a |-> get_amount_delta_a(p.sqrt_price, upper, liquidity, round_up),
                 b |-> get_amount_delta_b(lower, p.sqrt_price, liquidity, round_up)]
          [] p.tick_current_index >= position.tick_upper_index ->
                [a |-> 0, b |-> get_amount_delta_b(lower, upper, liquidity, round_up)]

-----------------------------------------------------------------------------
(* Token transfers.  Tokens that are not in a vault are their owners'.  *)

transfer_from_owner_to_vault(amounts) ==
    /\ \A k \in DOMAIN amounts : amounts[k] <= Supply - vault[k]
    /\ vault' = [k \in Kinds |-> IF k \in DOMAIN amounts THEN vault[k] + amounts[k] ELSE vault[k]]

transfer_from_vault_to_owner(amounts) ==
    /\ \A k \in DOMAIN amounts : amounts[k] <= vault[k]
    /\ vault' = [k \in Kinds |-> IF k \in DOMAIN amounts THEN vault[k] - amounts[k] ELSE vault[k]]

-----------------------------------------------------------------------------
(* Instructions on positions *)

InitializeTickArray(start) ==
    /\ swap = NoSwap
    /\ check_is_valid_start_tick(start, TickSpacing)
    /\ start \notin tick_arrays
    /\ tick_arrays' = tick_arrays \cup {start}
    /\ UNCHANGED <<pool, ticks, positions, vault, clock, swap>>

OpenPosition(id, lower, upper) ==
    /\ swap = NoSwap
    /\ id \notin Open
    /\ check_is_usable_tick(lower, TickSpacing)
    /\ check_is_usable_tick(upper, TickSpacing)
    /\ lower < upper
    /\ positions' = [positions EXCEPT ![id] = DefaultPosition(lower, upper)]
    /\ UNCHANGED <<pool, tick_arrays, ticks, vault, clock, swap>>

is_position_empty(position) == position.liquidity = 0 /\ position.owed = Zero

ClosePosition(id) ==
    /\ swap = NoSwap
    /\ id \in Open
    /\ is_position_empty(positions[id])
    /\ positions' = [positions EXCEPT ![id] = NoPosition]
    /\ UNCHANGED <<pool, tick_arrays, ticks, vault, clock, swap>>

IncreaseLiquidity(id, liquidity_amount, token_max) ==
    LET delta == convert_to_liquidity_delta(liquidity_amount, TRUE)
        deltas == calculate_liquidity_token_deltas(pool, positions[id], delta)
    IN  /\ swap = NoSwap
        /\ id \in Open
        /\ liquidity_amount # 0 /\ ~LiquidityTooHigh(liquidity_amount)
        /\ ModifyLiquidity(id, delta)
        /\ \A k \in Tokens : deltas[k] # Err /\ deltas[k] <= token_max[k]
        /\ transfer_from_owner_to_vault(deltas)
        /\ UNCHANGED <<tick_arrays, clock, swap>>

DecreaseLiquidity(id, liquidity_amount, token_min) ==
    LET delta == convert_to_liquidity_delta(liquidity_amount, FALSE)
        deltas == calculate_liquidity_token_deltas(pool, positions[id], delta)
    IN  /\ swap = NoSwap
        /\ id \in Open
        /\ liquidity_amount # 0 /\ ~LiquidityTooHigh(liquidity_amount)
        /\ ModifyLiquidity(id, delta)
        /\ \A k \in Tokens : deltas[k] # Err /\ deltas[k] >= token_min[k]
        /\ transfer_from_vault_to_owner(deltas)
        /\ UNCHANGED <<tick_arrays, clock, swap>>

\* The ticks do not change: the liquidity delta is 0.
UpdateFeesAndRewards(id) ==
    /\ swap = NoSwap
    /\ id \in Open
    /\ ModifyLiquidity(id, 0)
    /\ UNCHANGED <<tick_arrays, vault, clock, swap>>

CollectFees(id) ==
    /\ swap = NoSwap
    /\ id \in Open
    /\ positions' = [positions EXCEPT ![id].owed =
                        [k \in Kinds |-> IF k \in Tokens THEN 0 ELSE @[k]]]
    /\ transfer_from_vault_to_owner([k \in Tokens |-> positions[id].owed[k]])
    /\ UNCHANGED <<pool, tick_arrays, ticks, clock, swap>>

calculate_collect_reward(owed, vault_amount) ==
    IF owed > vault_amount
    THEN [transfer |-> vault_amount, owed |-> owed - vault_amount]
    ELSE [transfer |-> owed, owed |-> 0]

\* Only an initialised reward has a vault.
CollectReward(id, r) ==
    LET c == calculate_collect_reward(positions[id].owed[r], vault[r])
    IN  /\ swap = NoSwap
        /\ id \in Open
        /\ r \in pool.rewards
        /\ positions' = [positions EXCEPT ![id].owed[r] = c.owed]
        /\ transfer_from_vault_to_owner([k \in {r} |-> c.transfer])
        /\ UNCHANGED <<pool, tick_arrays, ticks, clock, swap>>

-----------------------------------------------------------------------------
(* Instructions of the pool's authorities *)

CollectProtocolFees ==
    /\ swap = NoSwap
    /\ transfer_from_vault_to_owner(pool.protocol_fee_owed)
    /\ pool' = [pool EXCEPT !.protocol_fee_owed = [k \in Tokens |-> 0]]
    /\ UNCHANGED <<tick_arrays, ticks, positions, clock, swap>>

SetFeeRate(fee_rate) ==
    /\ swap = NoSwap
    /\ fee_rate <= MAX_FEE_RATE
    /\ pool' = [pool EXCEPT !.fee_rate = fee_rate]
    /\ UNCHANGED <<tick_arrays, ticks, positions, vault, clock, swap>>

SetProtocolFeeRate(protocol_fee_rate) ==
    /\ swap = NoSwap
    /\ protocol_fee_rate <= MAX_PROTOCOL_FEE_RATE
    /\ pool' = [pool EXCEPT !.protocol_fee_rate = protocol_fee_rate]
    /\ UNCHANGED <<tick_arrays, ticks, positions, vault, clock, swap>>

\* Rewards are initialised in order.
InitializeReward(i) ==
    /\ swap = NoSwap
    /\ RewardNames[i] \notin pool.rewards
    /\ \A j \in 1..i - 1 : RewardNames[j] \in pool.rewards
    /\ pool' = [pool EXCEPT !.rewards = @ \cup {RewardNames[i]}]
    /\ UNCHANGED <<tick_arrays, ticks, positions, vault, clock, swap>>

\* Mutant: the new rate applies to the time since the last update too.
UpdateEmissionsLate(p, r, emissions, now) ==
    [p EXCEPT !.emissions[r] = emissions]

\* update_emissions: what was emitted so far is settled at the old rate.
update_emissions(p, r, emissions, now) ==
    [p EXCEPT !.growth = next_whirlpool_reward_infos(p, now),
              !.reward_last_updated_timestamp = now,
              !.emissions[r] = emissions]

SetRewardEmissions(r, emissions_per_second) ==
    LET per_day == checked_mul_shift_right(DAY_IN_SECONDS, emissions_per_second)
    IN  /\ swap = NoSwap
        /\ r \in pool.rewards
        /\ per_day # Err /\ vault[r] >= per_day
        /\ ~InvalidTimestamp(pool, clock)
        /\ pool' = update_emissions(pool, r, emissions_per_second, clock)
        /\ UNCHANGED <<tick_arrays, ticks, positions, vault, clock, swap>>

-----------------------------------------------------------------------------
(* Outside the program *)

\* Anyone may transfer tokens to the vault of a reward.
FundReward(r, amount) ==
    /\ swap = NoSwap
    /\ r \in pool.rewards
    /\ transfer_from_owner_to_vault([k \in {r} |-> amount])
    /\ UNCHANGED <<pool, tick_arrays, ticks, positions, clock, swap>>

\* The cluster's clock is an estimate and may also go back.
ClockMoves(now) ==
    /\ swap = NoSwap
    /\ now # clock
    /\ clock' = now
    /\ UNCHANGED <<pool, tick_arrays, ticks, positions, vault, swap>>

-----------------------------------------------------------------------------
(* swap_manager.rs: the loop of a swap s in progress *)

InputToken(s) == IF s.a_to_b THEN "a" ELSE "b"
OutputToken(s) == IF s.a_to_b THEN "b" ELSE "a"

BeginSwap(amount, threshold, limit, is_input, a_to_b, arrays) ==
    /\ swap = NoSwap
    /\ \A i \in 1..Len(arrays) : arrays[i] \in tick_arrays
    /\ limit \in MIN_SQRT_PRICE_X64..MAX_SQRT_PRICE_X64
    /\ IF a_to_b THEN limit <= pool.sqrt_price ELSE limit >= pool.sqrt_price
    /\ amount # 0
    /\ ~InvalidTimestamp(pool, clock)
    /\ swap' = [amount |-> amount, threshold |-> threshold, limit |-> limit,
                is_input |-> is_input, a_to_b |-> a_to_b, arrays |-> arrays,
                remaining |-> amount, calculated |-> 0,
                sqrt_price |-> pool.sqrt_price, tick |-> pool.tick_current_index,
                liquidity |-> pool.liquidity, protocol_fee |-> 0, array_index |-> 1,
                growth |-> next_whirlpool_reward_infos(pool, clock), ticks |-> ticks]
    /\ UNCHANGED <<pool, tick_arrays, ticks, positions, vault, clock>>

Looping(s) == s.remaining > 0 /\ s.limit # s.sqrt_price

NextTick(s) ==
    get_next_initialized_tick_index(s.arrays, Initialized(s.ticks), s.tick,
                                    TickSpacing, s.a_to_b, s.array_index)

\* Mutant: the price limit only counts when a tick is further away.
TargetIgnoresLimit(t, limit, a_to_b) == sqrt_price_from_tick_index(t)

\* The nearer of the tick's price and the limit.
get_next_sqrt_prices(t, limit, a_to_b) ==
    LET price == sqrt_price_from_tick_index(t)
    IN  IF (limit > price) = a_to_b THEN limit ELSE price

\* compute_swap towards the tick found.
Computation(s, found) ==
    compute_swap(s.remaining, pool.fee_rate, s.liquidity, s.sqrt_price,
                 get_next_sqrt_prices(found.tick_index, s.limit, s.a_to_b),
                 s.is_input, s.a_to_b)

\* What a step takes off the amount given, and adds to the other amount.
Used(s, c) == IF s.is_input THEN c.amount_in + c.fee_amount ELSE c.amount_out
Counted(s, c) == IF s.is_input THEN c.amount_out ELSE c.amount_in + c.fee_amount

calculate_protocol_fee(fee, protocol_fee_rate) ==
    (fee * protocol_fee_rate) \div PROTOCOL_FEE_RATE_MUL_VALUE

\* Mutant: the liquidity providers are credited with the protocol's share too.
FeeGrowthGross(fee, protocol_fee_rate, liquidity, growth) ==
    IF liquidity > 0 THEN WrapU128(growth + (fee * WORD) \div liquidity) ELSE growth

\* The growth of calculate_fees.  Without liquidity nobody is credited.
FeeGrowth(fee, protocol_fee_rate, liquidity, growth) ==
    LET global_fee == fee - calculate_protocol_fee(fee, protocol_fee_rate)
    IN  IF liquidity > 0 THEN WrapU128(growth + (global_fee * WORD) \div liquidity) ELSE growth

\* In what follows found is the tick the search returned and c the result of
\* compute_swap.
Reaches(found, c) == c.next_price = sqrt_price_from_tick_index(found.tick_index)

\* The step ends at a tick that is initialised.
Crosses(s, found, c) ==
    /\ Reaches(found, c)
    /\ has_tick(s.arrays[found.array_index], found.tick_index, TickSpacing)
    /\ s.ticks[found.tick_index].initialized

\* Mutant: liquidity is added whichever way the tick is crossed.
LiquidityAfterAdds(s, found, c) ==
    IF Crosses(s, found, c)
    THEN add_liquidity_delta(s.liquidity, s.ticks[found.tick_index].liquidity_net)
    ELSE s.liquidity

LiquidityAfter(s, found, c) ==
    LET net == s.ticks[found.tick_index].liquidity_net
    IN  IF Crosses(s, found, c)
        THEN add_liquidity_delta(s.liquidity, IF s.a_to_b THEN -net ELSE net)
        ELSE s.liquidity

\* No error in the iteration.
IterationSucceeds(s, found, c) ==
    /\ ~found.error
    /\ ~c.error
    /\ Used(s, c) <= s.remaining
    /\ s.calculated + Counted(s, c) <= U64MAX
    /\ LiquidityAfter(s, found, c) # Err

\* Growths after the fee of the step, which counts before a tick is crossed.
GrowthAfter(s, c) ==
    [s.growth EXCEPT ![InputToken(s)] =
        FeeGrowth(c.fee_amount, pool.protocol_fee_rate, s.liquidity, @)]

\* Ticks after the iteration: the one that is crossed has its outside turned round.
TicksAfter(s, found, c) ==
    IF Crosses(s, found, c)
    THEN [s.ticks EXCEPT ![found.tick_index] =
            next_tick_cross_update(@, GrowthAfter(s, c), Active(pool))]
    ELSE s.ticks

\* The working copy after the iteration.
Iteration(s, found, c) ==
    LET t == found.tick_index
    IN  [s EXCEPT
            !.remaining = @ - Used(s, c),
            !.calculated = @ + Counted(s, c),
            !.protocol_fee =
                WrapU64(@ + calculate_protocol_fee(c.fee_amount, pool.protocol_fee_rate)),
            !.growth = GrowthAfter(s, c),
            !.liquidity = LiquidityAfter(s, found, c),
            !.ticks = TicksAfter(s, found, c),
            !.array_index =
                IF Reaches(found, c)
                THEN ArrayAfter(s.arrays[found.array_index], found.array_index, t,
                                TickSpacing, s.a_to_b)
                ELSE @,
            !.tick = IF Reaches(found, c) THEN TickAfter(t, s.a_to_b)
                     ELSE IF c.next_price # s.sqrt_price
                          THEN tick_index_from_sqrt_price(c.next_price) ELSE @,
            !.sqrt_price = c.next_price]

SwapIterates(found, c) ==
    /\ Looping(swap)
    /\ IterationSucceeds(swap, found, c)
    /\ swap' = Iteration(swap, found, c)
    /\ UNCHANGED <<pool, tick_arrays, ticks, positions, vault, clock>>

SwapFails(found, c) ==
    /\ Looping(swap)
    /\ ~IterationSucceeds(swap, found, c)
    /\ swap' = NoSwap
    /\ UNCHANGED <<pool, tick_arrays, ticks, positions, vault, clock>>

\* One turn of the loop: the search, the computation, and what follows them.
SwapLoops(found, c) == SwapIterates(found, c) \/ SwapFails(found, c)

SwapSearches(found) == SwapLoops(found, Computation(swap, found))

\* What the trader pays and receives.
AmountIn(s) == IF s.is_input THEN s.amount - s.remaining ELSE s.calculated
AmountOut(s) == IF s.is_input THEN s.calculated ELSE s.amount - s.remaining

ThresholdMet(s) ==
    IF s.is_input THEN s.threshold <= AmountOut(s) ELSE s.threshold >= AmountIn(s)

\* perform_swap: the deposit, then the withdrawal.
CanSettle(s) ==
    /\ AmountIn(s) <= Supply - vault[InputToken(s)]
    /\ AmountOut(s) <= vault[OutputToken(s)]

\* update_and_swap_whirlpool; the sum of protocol fees is not checked.
SwapCommits ==
    /\ swap # NoSwap
    /\ ~Looping(swap)
    /\ ThresholdMet(swap)
    /\ CanSettle(swap)
    /\ pool' = [pool EXCEPT
                    !.sqrt_price = swap.sqrt_price,
                    !.tick_current_index = swap.tick,
                    !.liquidity = swap.liquidity,
                    !.growth = swap.growth,
                    !.reward_last_updated_timestamp = clock,
                    !.protocol_fee_owed[InputToken(swap)] = WrapU64(@ + swap.protocol_fee)]
    /\ ticks' = swap.ticks
    /\ vault' = [vault EXCEPT ![InputToken(swap)] = @ + AmountIn(swap),
                              ![OutputToken(swap)] = @ - AmountOut(swap)]
    /\ swap' = NoSwap
    /\ UNCHANGED <<tick_arrays, positions, clock>>

SwapRefused ==
    /\ swap # NoSwap
    /\ ~Looping(swap)
    /\ ~(ThresholdMet(swap) /\ CanSettle(swap))
    /\ swap' = NoSwap
    /\ UNCHANGED <<pool, tick_arrays, ticks, positions, vault, clock>>

-----------------------------------------------------------------------------
(* initialize_pool, then any instruction *)

InitializePool(price, fee_rate, protocol_fee_rate) ==
    /\ price \in MIN_SQRT_PRICE_X64..MAX_SQRT_PRICE_X64
    /\ fee_rate <= MAX_FEE_RATE
    /\ protocol_fee_rate <= MAX_PROTOCOL_FEE_RATE
    /\ pool = [sqrt_price |-> price,
               tick_current_index |-> tick_index_from_sqrt_price(price),
               liquidity |-> 0, growth |-> Zero,
               fee_rate |-> fee_rate, protocol_fee_rate |-> protocol_fee_rate,
               protocol_fee_owed |-> [k \in Tokens |-> 0],
               rewards |-> {}, emissions |-> [r \in Rewards |-> 0],
               reward_last_updated_timestamp |-> 0]
    /\ ticks = [t \in Usable |-> DefaultTick]
    /\ positions = [id \in PositionIds |-> NoPosition]
    /\ vault = Zero
    /\ clock = 0
    /\ swap = NoSwap

Init ==
    /\ \E price \in InitialPrices, fee_rate \in FeeRates, protocol_fee_rate \in ProtocolFeeRates :
        InitializePool(price, fee_rate, protocol_fee_rate)
    /\ tick_arrays = {}

SwapNext ==
    \/ swap # NoSwap /\ SwapSearches(NextTick(swap))
    \/ SwapCommits
    \/ SwapRefused

PositionNext ==
    \E id \in PositionIds :
        \/ \E range \in RangeInputs : OpenPosition(id, range[1], range[2])
        \/ ClosePosition(id)
        \/ \E amount \in LiquidityInputs, limits \in [Tokens -> TokenLimits] :
              \/ IncreaseLiquidity(id, amount, limits)
              \/ DecreaseLiquidity(id, amount, limits)
        \/ UpdateFeesAndRewards(id)
        \/ CollectFees(id)
        \/ \E r \in Rewards : CollectReward(id, r)

AuthorityNext ==
    \/ CollectProtocolFees
    \/ \E rate \in FeeRates : SetFeeRate(rate)
    \/ \E rate \in ProtocolFeeRates : SetProtocolFeeRate(rate)
    \/ \E i \in 1..Len(RewardNames) : InitializeReward(i)
    \/ \E r \in Rewards, emissions \in Emissions : SetRewardEmissions(r, emissions)

Next ==
    \/ \E start \in Starts : InitializeTickArray(start)
    \/ PositionNext
    \/ AuthorityNext
    \/ \E amount \in SwapAmounts, threshold \in SwapThresholds, limit \in SwapLimits,
          is_input, a_to_b \in BOOLEAN, arrays \in ArrayInputs :
          BeginSwap(amount, threshold, limit, is_input, a_to_b, arrays)
    \/ SwapNext
    \/ \E r \in Rewards, amount \in FundAmounts : FundReward(r, amount)
    \/ \E now \in Times : ClockMoves(now)

Spec == Init /\ [][Next]_vars

-----------------------------------------------------------------------------
(* Properties *)

\* The pool as it is on chain, and as the swap in progress sees it.
Committed == [sqrt_price |-> pool.sqrt_price, tick |-> pool.tick_current_index,
              liquidity |-> pool.liquidity, growth |-> pool.growth, ticks |-> ticks]

Working == [sqrt_price |-> swap.sqrt_price, tick |-> swap.tick,
            liquidity |-> swap.liquidity, growth |-> swap.growth, ticks |-> swap.ticks]

Views == {Committed} \cup (IF swap = NoSwap THEN {} ELSE {Working})

LiquidityOf(ids) == MapThenSumSet(LAMBDA id : positions[id].liquidity, ids)

TickRecords ==
    [initialized : BOOLEAN, liquidity_net : -I128MAX - 1..I128MAX, liquidity_gross : U128,
     growth_outside : [Kinds -> U128]]

PositionRecords ==
    [tick_lower_index : Usable, tick_upper_index : Usable, liquidity : U128,
     checkpoint : [Kinds -> U128], owed : [Kinds -> U64]]

\* The accounts are finitely many, and one that is not open holds no position.
ASSUME PositionAssumption ==
    /\ IsFiniteSet(PositionIds)
    /\ NoPosition \notin PositionRecords

PoolRecords ==
    [sqrt_price : U128, tick_current_index : MIN_TICK_INDEX - 1..MAX_TICK_INDEX,
     liquidity : U128, growth : [Kinds -> U128],
     fee_rate : 0..MAX_FEE_RATE, protocol_fee_rate : 0..MAX_PROTOCOL_FEE_RATE,
     protocol_fee_owed : [Tokens -> U64],
     rewards : SUBSET Rewards, emissions : [Rewards -> U128],
     reward_last_updated_timestamp : Nat]

SwapRecords ==
    [amount : U64, threshold : U64, limit : U128, is_input : BOOLEAN, a_to_b : BOOLEAN,
     arrays : Seq(Starts), remaining : U64, calculated : U64, sqrt_price : U128,
     tick : MIN_TICK_INDEX - 1..MAX_TICK_INDEX, liquidity : U128, protocol_fee : U64,
     array_index : Nat, growth : [Kinds -> U128], ticks : [Usable -> TickRecords]]

\* Every field stays within the width its Rust type has, through wrapping and
\* checked arithmetic alike.
TypeOK ==
    /\ pool \in PoolRecords
    /\ tick_arrays \subseteq Starts
    /\ ticks \in [Usable -> TickRecords]
    /\ positions \in [PositionIds -> PositionRecords \cup {NoPosition}]
    /\ vault \in [Kinds -> 0..Supply]
    /\ clock \in Nat
    /\ swap \in SwapRecords \cup {NoSwap}

\* The pool's liquidity is that of the positions whose range holds the current
\* tick, after every change of a position and after every tick a swap crosses,
\* in both directions and also when the price stops exactly on a tick.
LiquidityInRange ==
    \A v \in Views :
        v.liquidity = LiquidityOf({id \in Open : /\ positions[id].tick_lower_index <= v.tick
                                                 /\ v.tick < positions[id].tick_upper_index})

\* A tick's liquidity is that of the positions it bounds, several of which may
\* share it, and a tick that bounds none is as good as new.
TicksMatchPositions ==
    \A v \in Views, t \in Usable :
        LET tick == v.ticks[t]
            lower == LiquidityOf({id \in Open : positions[id].tick_lower_index = t})
            upper == LiquidityOf({id \in Open : positions[id].tick_upper_index = t})
        IN  /\ tick.liquidity_gross = lower + upper
            /\ tick.liquidity_net = lower - upper
            /\ tick.initialized = (lower + upper > 0)
            /\ ~tick.initialized => tick = DefaultTick

\* The current tick is the one the price is in.  A price that fell to exactly
\* a tick's price is on the left of that tick.
PriceMatchesTick ==
    \A v \in Views :
        /\ v.sqrt_price \in MIN_SQRT_PRICE_X64..MAX_SQRT_PRICE_X64
        /\ v.tick >= MIN_TICK_INDEX => SqrtPrice[v.tick] <= v.sqrt_price
        /\ v.tick < MAX_TICK_INDEX => v.sqrt_price <= SqrtPrice[v.tick + 1]

InsideOf(v, id) ==
    next_growths_inside(v.tick, v.ticks, positions[id].tick_lower_index,
                        positions[id].tick_upper_index, v.growth, Active(pool))

\* The growth inside a position's range never runs back behind the position's
\* checkpoint, whatever ticks were crossed, reset and initialised anew since:
\* a difference that wrapped round would overflow and lose all the fees.
\* (Stated for global growths that have not wrapped round themselves.)
GrowthNeverRunsBack ==
    \A v \in Views, id \in Open, k \in Kinds :
        (positions[id].liquidity > 0 /\ k \in Active(pool)) =>
            WrapU128(InsideOf(v, id)[k] - positions[id].checkpoint[k]) <= v.growth[k]

\* Tokens that leave with a position: its liquidity, fees earned and owed.
Claim(id, k) ==
    LET p == positions[id]
        withdrawn == calculate_liquidity_token_deltas(pool, p, -p.liquidity)
    IN  p.owed[k] + Earned(p, InsideOf(Committed, id), k)
            + (IF p.liquidity > 0 THEN withdrawn[k] ELSE 0)

\* Everyone can leave: the vaults hold what all positions are worth together
\* with the fees of the protocol, to the last token, whatever was rounded; and
\* no withdrawal of all of a position's liquidity fails.
EveryoneCanLeave ==
    /\ \A k \in Tokens :
        pool.protocol_fee_owed[k] + MapThenSumSet(LAMBDA id : Claim(id, k), Open) <= vault[k]
    /\ \A id \in Open :
        LET p == positions[id]
            withdrawn == calculate_liquidity_token_deltas(pool, p, -p.liquidity)
        IN  (p.liquidity > 0 /\ ~InvalidTimestamp(pool, clock)) =>
                /\ ~ModifyFails(id, -p.liquidity)
                /\ \A k \in Tokens : withdrawn[k] # Err

\* A swap that is committed did what was asked: the price is not past the
\* limit; the given amount is used up unless the price is at the limit; and
\* the other amount meets the threshold, both taken from the vaults.
SwapHonoursRequest ==
    [][(pool' # pool \/ vault' # vault) /\ swap # NoSwap =>
        LET paid == vault'[InputToken(swap)] - vault[InputToken(swap)]
            received == vault[OutputToken(swap)] - vault'[OutputToken(swap)]
            given == IF swap.is_input THEN paid ELSE received
        IN  /\ given <= swap.amount
            /\ given < swap.amount => pool'.sqrt_price = swap.limit
            /\ IF swap.a_to_b THEN pool'.sqrt_price \in swap.limit..pool.sqrt_price
                              ELSE pool'.sqrt_price \in pool.sqrt_price..swap.limit
            /\ IF swap.is_input THEN received >= swap.threshold ELSE paid <= swap.threshold
      ]_vars

\* The time up to which rewards are settled never goes back, though the
\* cluster's clock may: the same seconds are never handed out twice.  Every
\* instruction that settles checks it, a swap long before it writes the time.
SettledTimeMonotone ==
    [][pool'.reward_last_updated_timestamp >= pool.reward_last_updated_timestamp]_vars

\* Every iteration of a swap but the last moves the current tick on in the
\* swap's direction, and none moves it back, however small the amounts and
\* whatever rounds to zero: a swap ends after at most one iteration per tick.
SwapProgresses ==
    LET progress(next) ==
            LET ahead == IF swap.a_to_b THEN swap.tick - next.tick ELSE next.tick - swap.tick
            IN  ahead >= 0 /\ (Looping(next) => ahead > 0)
        iterates(found, c) ==
            IterationSucceeds(swap, found, c) => progress(Iteration(swap, found, c))
        searches(found) == iterates(found, Computation(swap, found))
    IN  (swap # NoSwap /\ Looping(swap)) => searches(NextTick(swap))

=============================================================================
