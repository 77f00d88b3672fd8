-------------------------- MODULE WhirlpoolProofs --------------------------
(***************************************************************************)
(* Proofs about Whirlpool for every price table, word size, set of         *)
(* positions and sequence of rewards.                                      *)
(***************************************************************************)
EXTENDS Whirlpool, OperatorProofs

\* What the proof needs of the pool's type.
PoolFields ==
    {"sqrt_price", "tick_current_index", "liquidity", "growth", "fee_rate",
     "protocol_fee_rate", "protocol_fee_owed", "rewards", "emissions",
     "reward_last_updated_timestamp"}

\* A swap checks the time before its loop and writes it after: no swap is in
\* progress at a time before the one that was settled last.
SettledInv ==
    /\ DOMAIN pool = PoolFields
    /\ pool.reward_last_updated_timestamp \in Nat
    /\ clock \in Nat
    /\ swap # NoSwap => pool.reward_last_updated_timestamp <= clock

SettledForward ==
    pool'.reward_last_updated_timestamp >= pool.reward_last_updated_timestamp

LEMMA SettledInit == Init => SettledInv
BY DEF Init, InitializePool, SettledInv, PoolFields

\* An instruction that leaves the time alone, or settles up to the clock.
LEMMA SettledNow ==
    ASSUME SettledInv, swap' = NoSwap, clock' = clock,
           DOMAIN pool' = PoolFields,
           \/ pool'.reward_last_updated_timestamp = pool.reward_last_updated_timestamp
           \/ /\ pool.reward_last_updated_timestamp <= clock
              /\ pool'.reward_last_updated_timestamp = clock
    PROVE  SettledInv' /\ SettledForward
BY DEF SettledInv, SettledForward

\* calculate_modify_liquidity refuses a time before the one settled last.
LEMMA SettledModify ==
    ASSUME SettledInv, swap = NoSwap, swap' = swap, clock' = clock,
           NEW id \in PositionIds, NEW delta, ModifyLiquidity(id, delta)
    PROVE  SettledInv' /\ SettledForward
<1>1. pool.reward_last_updated_timestamp <= clock
  <2>1. ~ModifyFails(id, delta)
    BY DEF ModifyLiquidity
  <2>2. ~InvalidTimestamp(pool, clock)
    BY <2>1, Zenon DEF ModifyFails
  <2> QED BY <2>2 DEF InvalidTimestamp, SettledInv
<1>2. /\ DOMAIN pool' = PoolFields
      /\ pool'.reward_last_updated_timestamp = clock
  BY DEF ModifyLiquidity, SettledInv, PoolFields
<1> QED BY <1>1, <1>2, SettledNow

LEMMA SettledPosition ==
    ASSUME SettledInv, PositionNext
    PROVE  SettledInv' /\ SettledForward
<1>1. PICK id \in PositionIds :
        \/ \E range \in RangeInputs : OpenPosition(id, range[1], range[2])
        \/ ClosePosition(id)
        \/ \E amount \in LiquidityInputs, limits \in [Tokens -> TokenLimits] :
              \/ IncreaseLiquidity(id, amount, limits)
              \/ DecreaseLiquidity(id, amount, limits)
        \/ UpdateFeesAndRewards(id)
        \/ CollectFees(id)
        \/ \E r \in Rewards : CollectReward(id, r)
  BY DEF PositionNext
<1>2. ASSUME NEW amount, NEW limits,
             IncreaseLiquidity(id, amount, limits) \/ DecreaseLiquidity(id, amount, limits)
      PROVE  SettledInv' /\ SettledForward
  BY <1>2, SettledModify DEF IncreaseLiquidity, DecreaseLiquidity
<1>3. CASE UpdateFeesAndRewards(id)
  BY <1>3, SettledModify DEF UpdateFeesAndRewards
<1>4. ASSUME swap = NoSwap, UNCHANGED <<pool, clock, swap>>
      PROVE  SettledInv' /\ SettledForward
  BY <1>4 DEF SettledInv, SettledForward
<1>5. CASE \E range \in RangeInputs : OpenPosition(id, range[1], range[2])
  BY <1>4, <1>5 DEF OpenPosition
<1>6. CASE ClosePosition(id)
  BY <1>4, <1>6 DEF ClosePosition
<1>7. CASE CollectFees(id)
  BY <1>4, <1>7 DEF CollectFees
<1>8. CASE \E r \in Rewards : CollectReward(id, r)
  BY <1>4, <1>8 DEF CollectReward
<1> QED BY <1>1, <1>2, <1>3, <1>5, <1>6, <1>7, <1>8

LEMMA SettledAuthority ==
    ASSUME SettledInv, AuthorityNext
    PROVE  SettledInv' /\ SettledForward
<1>1. CASE CollectProtocolFees
  BY <1>1, SettledNow DEF CollectProtocolFees, SettledInv, PoolFields
<1>2. ASSUME NEW rate, SetFeeRate(rate) \/ SetProtocolFeeRate(rate)
      PROVE  SettledInv' /\ SettledForward
  BY <1>2, SettledNow DEF SetFeeRate, SetProtocolFeeRate, SettledInv, PoolFields
<1>3. ASSUME NEW i, InitializeReward(i)
      PROVE  SettledInv' /\ SettledForward
  BY <1>3, SettledNow DEF InitializeReward, SettledInv, PoolFields
<1>4. ASSUME NEW r, NEW emissions, SetRewardEmissions(r, emissions)
      PROVE  SettledInv' /\ SettledForward
  <2>1. pool.reward_last_updated_timestamp <= clock
    BY <1>4 DEF SetRewardEmissions, InvalidTimestamp, SettledInv
  <2>2. /\ DOMAIN pool' = PoolFields
        /\ pool'.reward_last_updated_timestamp = clock
        /\ swap' = NoSwap
        /\ clock' = clock
    BY <1>4 DEF SetRewardEmissions, update_emissions, SettledInv, PoolFields
  <2> QED BY <2>1, <2>2, SettledNow
<1> QED BY <1>1, <1>2, <1>3, <1>4 DEF AuthorityNext

LEMMA SettledSwap ==
    ASSUME SettledInv, SwapNext
    PROVE  SettledInv' /\ SettledForward
<1>1. CASE swap # NoSwap /\ SwapSearches(NextTick(swap))
  <2>1. swap # NoSwap /\ UNCHANGED <<pool, clock>>
    BY <1>1 DEF SwapSearches, SwapLoops, SwapIterates, SwapFails
  <2> QED BY <2>1 DEF SettledInv, SettledForward
<1>2. CASE SwapCommits
  <2>1. pool.reward_last_updated_timestamp <= clock
    BY <1>2 DEF SwapCommits, SettledInv
  <2>2. /\ DOMAIN pool' = PoolFields
        /\ pool'.reward_last_updated_timestamp = clock
        /\ swap' = NoSwap
        /\ clock' = clock
    BY <1>2 DEF SwapCommits, SettledInv, PoolFields
  <2> QED BY <2>1, <2>2, SettledNow
<1>3. CASE SwapRefused
  BY <1>3 DEF SwapRefused, SettledInv, SettledForward
<1> QED BY <1>1, <1>2, <1>3 DEF SwapNext

LEMMA SettledStep == SettledInv /\ [Next]_vars => SettledInv' /\ SettledForward
<1> SUFFICES ASSUME SettledInv, [Next]_vars PROVE SettledInv' /\ SettledForward
  OBVIOUS
<1>1. CASE UNCHANGED vars
  BY <1>1 DEF vars, SettledInv, SettledForward
<1>2. CASE \E start \in Starts : InitializeTickArray(start)
  BY <1>2 DEF InitializeTickArray, SettledInv, SettledForward
<1>3. CASE PositionNext
  BY <1>3, SettledPosition
<1>4. CASE AuthorityNext
  BY <1>4, SettledAuthority
<1>5. ASSUME NEW amount, NEW threshold, NEW limit, NEW is_input, NEW a_to_b, NEW arrays,
             BeginSwap(amount, threshold, limit, is_input, a_to_b, arrays)
      PROVE  SettledInv' /\ SettledForward
  BY <1>5 DEF BeginSwap, InvalidTimestamp, SettledInv, SettledForward
<1>6. CASE SwapNext
  BY <1>6, SettledSwap
<1>7. CASE \E r \in Rewards, amount \in FundAmounts : FundReward(r, amount)
  BY <1>7 DEF FundReward, SettledInv, SettledForward
<1>8. CASE \E now \in Times : ClockMoves(now)
  BY <1>8, InputAssumption DEF ClockMoves, SettledInv, SettledForward
<1> QED BY <1>1, <1>2, <1>3, <1>4, <1>5, <1>6, <1>7, <1>8 DEF Next

\* The time up to which rewards are settled never goes back, in any pool: no
\* instruction and no swap settles the same seconds twice.
THEOREM SettledOnce == Spec => SettledTimeMonotone
<1>1. SettledInv /\ [Next]_vars => [SettledForward]_vars
  BY SettledStep
<1> QED BY SettledInit, SettledStep, <1>1, PTL DEF Spec, SettledTimeMonotone, SettledForward

-----------------------------------------------------------------------------
(* Types of what the instructions compute. *)

LEMMA KindSets ==
    /\ "a" \in Tokens /\ "b" \in Tokens /\ Tokens = {"a", "b"}
    /\ Tokens \subseteq Kinds /\ Rewards \subseteq Kinds
    /\ Zero \in [Kinds -> U128] /\ Zero \in [Kinds -> U64] /\ Zero \in [Kinds -> 0..Supply]
    /\ DefaultTick \in TickRecords
    /\ Supply \in Nat
  <1>1. 0 \in U64 /\ 0 \in U128 /\ 0 \in -I128MAX - 1..I128MAX
    BY Widths DEF U64, U128
  <1>2. Supply \in Nat /\ 0 \in 0..Supply
    BY PoolAssumption, Widths DEF U64
  <1>3. Zero \in [Kinds -> U128] /\ Zero \in [Kinds -> U64] /\ Zero \in [Kinds -> 0..Supply]
    BY <1>1, <1>2 DEF Zero
  <1>4. DefaultTick \in TickRecords
    BY <1>1, <1>3 DEF DefaultTick, TickRecords
  <1> QED BY <1>2, <1>3, <1>4 DEF Tokens, Kinds

LEMMA AddLiquidity ==
    ASSUME NEW liquidity \in Int, NEW delta \in Int, add_liquidity_delta(liquidity, delta) # Err
    PROVE  /\ add_liquidity_delta(liquidity, delta) = liquidity + delta
           /\ add_liquidity_delta(liquidity, delta) \in U128
  BY CheckedResult, Widths DEF add_liquidity_delta, U128

LEMMA GrowthTyped ==
    ASSUME NEW p \in PoolRecords, NEW now \in Nat, ~InvalidTimestamp(p, now)
    PROVE  next_whirlpool_reward_infos(p, now) \in [Kinds -> U128]
  <1>1. /\ p.growth \in [Kinds -> U128] /\ p.emissions \in [Rewards -> U128]
        /\ p.liquidity \in U128 /\ p.reward_last_updated_timestamp \in Nat /\ p.rewards \subseteq Rewards
    BY DEF PoolRecords
  <1> DEFINE seconds == now - p.reward_last_updated_timestamp
             delta(k) == checked_mul_div(seconds, p.emissions[k], p.liquidity)
  <1>2. seconds \in Nat
    BY <1>1 DEF InvalidTimestamp
  <1> HIDE DEF seconds
  <1>4. ASSUME NEW k \in p.rewards, delta(k) # Err
        PROVE  delta(k) \in Nat
    <2>1. p.emissions[k] \in Nat /\ p.liquidity \in Nat
      BY <1>1, Unsigned
    <2> DEFINE e == p.emissions[k]
               l == p.liquidity
    <2> HIDE DEF e, l
    <2>2. checked_mul_div_round_up_if(seconds, e, l, FALSE) \in U128
      <3>1. e \in Nat /\ l \in Nat /\ checked_mul_div_round_up_if(seconds, e, l, FALSE) # Err
        BY <1>4, <2>1 DEF checked_mul_div, e, l
      <3> QED BY <1>2, <3>1, MulDiv
    <2> QED BY Unsigned, <2>2 DEF checked_mul_div, e, l
  <1>5. ASSUME NEW k \in Kinds
        PROVE  (IF k \in p.rewards /\ p.liquidity > 0 /\ delta(k) # Err
                THEN WrapU128(p.growth[k] + delta(k)) ELSE p.growth[k]) \in U128
    <2>1. p.growth[k] \in U128 /\ p.growth[k] \in Int
      BY <1>1, Unsigned
    <2> HIDE DEF delta
    <2>2. CASE k \in p.rewards /\ delta(k) # Err
      <3>1. p.growth[k] + delta(k) \in Int
        BY <1>4, <2>1, <2>2
      <3>2. WrapU128(p.growth[k] + delta(k)) \in U128
        BY <3>1, Wraps
      <3> QED BY <2>1, <3>2
    <2>3. CASE ~(k \in p.rewards /\ delta(k) # Err)
      BY <2>1, <2>3
    <2> QED BY <2>2, <2>3
  <1>6. next_whirlpool_reward_infos(p, now)
          = [k \in Kinds |-> IF k \in p.rewards /\ p.liquidity > 0 /\ delta(k) # Err
                             THEN WrapU128(p.growth[k] + delta(k)) ELSE p.growth[k]]
    BY Zenon DEF next_whirlpool_reward_infos, seconds
  <1> HIDE DEF delta
  <1> QED BY <1>5, <1>6

LEMMA InsideTyped ==
    ASSUME NEW current, NEW tks \in [Usable -> TickRecords], NEW lower \in Usable,
           NEW upper \in Usable, NEW growth \in [Kinds -> U128], NEW active
    PROVE  next_growths_inside(current, tks, lower, upper, growth, active) \in [Kinds -> U128]
  <1>1. 0 \in U128
    BY Unsigned
  <1>2. ASSUME NEW k \in Kinds, NEW t \in Usable
        PROVE  /\ growth[k] \in Int
               /\ GrowthBelow(k, current, tks[t], t, growth) \in Int
               /\ GrowthAbove(k, current, tks[t], t, growth) \in Int
    <2>1. tks[t] \in TickRecords /\ growth[k] \in U128
      OBVIOUS
    <2>2. tks[t].growth_outside[k] \in U128
      BY <2>1 DEF TickRecords
    <2> DEFINE g == growth[k]
               o == tks[t].growth_outside[k]
               w == WrapU128(g - o)
    <2>3. g \in Int /\ o \in Int /\ g - o \in Int
      BY <2>1, <2>2, Unsigned
    <2>4. w \in Int
      BY <2>3, Wraps, Unsigned
    <2> HIDE DEF w
    <2>5. GrowthBelow(k, current, tks[t], t, growth) \in {g, w, o}
      BY DEF GrowthBelow, w
    <2>6. GrowthAbove(k, current, tks[t], t, growth) \in {0, w, o}
      BY DEF GrowthAbove, w
    <2> QED BY <2>3, <2>4, <2>5, <2>6
  <1>3. ASSUME NEW k \in Kinds
        PROVE  WrapU128(growth[k] - GrowthBelow(k, current, tks[lower], lower, growth)
                                  - GrowthAbove(k, current, tks[upper], upper, growth)) \in U128
    BY <1>2, Wraps
  <1> QED BY <1>1, <1>3 DEF next_growths_inside

LEMMA TickUpdateTyped ==
    ASSUME NEW tick \in TickRecords, NEW t, NEW current, NEW growth \in [Kinds -> U128],
           NEW delta \in Int, NEW is_upper \in BOOLEAN, ~TickUpdateFails(tick, delta, is_upper)
    PROVE  next_tick_modify_liquidity_update(tick, t, current, growth, delta, is_upper) \in TickRecords
  <1> DEFINE gross == add_liquidity_delta(tick.liquidity_gross, delta)
             net == NextNet(tick, delta, is_upper)
  <1>1. tick.liquidity_gross \in U128 /\ tick.growth_outside \in [Kinds -> U128]
    BY DEF TickRecords
  <1>2. next_tick_modify_liquidity_update(tick, t, current, growth, delta, is_upper)
          = IF delta = 0 THEN tick
            ELSE IF gross = 0 THEN DefaultTick
            ELSE [initialized |-> TRUE, liquidity_net |-> net, liquidity_gross |-> gross,
                  growth_outside |-> IF tick.liquidity_gross > 0 THEN tick.growth_outside
                                     ELSE IF current >= t THEN growth ELSE Zero]
    BY DEF next_tick_modify_liquidity_update
  <1>3. CASE delta = 0
    BY <1>2, <1>3
  <1>4. CASE delta # 0
    <2>1. gross # Err /\ (gross # 0 => net \in -I128MAX - 1..I128MAX)
      BY <1>4 DEF TickUpdateFails
    <2>2. gross \in U128
      <3>1. tick.liquidity_gross \in Int
        BY <1>1, Unsigned
      <3> QED BY <2>1, <3>1, AddLiquidity
    <2> HIDE DEF gross, net
    <2>3. (IF tick.liquidity_gross > 0 THEN tick.growth_outside
           ELSE IF current >= t THEN growth ELSE Zero) \in [Kinds -> U128]
      BY <1>1, KindSets
    <2> QED BY <1>2, <1>4, <2>1, <2>2, <2>3, KindSets DEF TickRecords
  <1> QED BY <1>3, <1>4

LEMMA PositionUpdateTyped ==
    ASSUME NEW position \in PositionRecords, NEW delta \in Int, NEW inside \in [Kinds -> U128],
           add_liquidity_delta(position.liquidity, delta) # Err
    PROVE  next_position_modify_liquidity_update(position, delta, inside) \in PositionRecords
  <1>1. /\ position.liquidity \in U128 /\ position.checkpoint \in [Kinds -> U128]
        /\ position.owed \in [Kinds -> U64]
    BY DEF PositionRecords
  <1>3. add_liquidity_delta(position.liquidity, delta) \in U128
    <2>1. position.liquidity \in Int
      BY <1>1, Unsigned
    <2> QED BY <2>1, AddLiquidity
  <1>4. ASSUME NEW k \in Kinds PROVE Earned(position, inside, k) \in Nat
    <2> DEFINE l == position.liquidity
               g == WrapU128(inside[k] - position.checkpoint[k])
               amount == checked_mul_shift_right_round_up_if(l, g, FALSE)
    <2>1. l \in Nat
      BY <1>1, Unsigned
    <2>2. g \in Nat
      <3>1. inside[k] \in Int /\ position.checkpoint[k] \in Int
        BY <1>1, Unsigned
      <3>2. inside[k] - position.checkpoint[k] \in Int
        BY <3>1
      <3>3. g \in U128
        BY <3>2, Wraps
      <3> QED BY Unsigned, <3>3
    <2>3. Earned(position, inside, k) = IF amount = Err THEN 0 ELSE amount
      BY DEF Earned, checked_mul_shift_right
    <2> HIDE DEF l, g
    <2>4. amount # Err => amount \in U64
      BY <2>1, <2>2, ShiftRight
    <2> HIDE DEF amount
    <2> QED BY Unsigned, <2>3, <2>4
  <1>5. [k \in Kinds |-> WrapU64(position.owed[k] + Earned(position, inside, k))] \in [Kinds -> U64]
    <2>1. ASSUME NEW k \in Kinds PROVE WrapU64(position.owed[k] + Earned(position, inside, k)) \in U64
      <3>1. position.owed[k] \in Nat
        BY <1>1, Unsigned
      <3>2. position.owed[k] + Earned(position, inside, k) \in Int
        BY <1>4, <3>1
      <3> QED BY <3>2, Wraps
    <2> QED BY <2>1
  <1> QED BY <1>3, <1>5 DEF next_position_modify_liquidity_update, PositionRecords

LEMMA DeltasTyped ==
    ASSUME NEW p \in PoolRecords, NEW position \in PositionRecords, NEW delta \in Int,
           NEW d, d = calculate_liquidity_token_deltas(p, position, delta)
    PROVE  DOMAIN d = Tokens /\ d.a \in U64 \cup {Err} /\ d.b \in U64 \cup {Err}
  <1> DEFINE liquidity == IF delta > 0 THEN delta ELSE -delta
             up == delta > 0
             l == position.tick_lower_index
             u == position.tick_upper_index
             t == p.tick_current_index
             lower == SqrtPrice[l]
             upper == SqrtPrice[u]
             a(x, y) == get_amount_delta_a(x, y, liquidity, up)
             b(x, y) == get_amount_delta_b(x, y, liquidity, up)
  <1>1. liquidity \in Nat /\ up \in BOOLEAN
    OBVIOUS
  <1>2. lower \in Nat /\ upper \in Nat /\ p.sqrt_price \in Nat
    <2>1. l \in MIN_TICK_INDEX..MAX_TICK_INDEX /\ u \in MIN_TICK_INDEX..MAX_TICK_INDEX
      BY DEF PositionRecords, Usable
    <2>2. p.sqrt_price \in U128
      BY DEF PoolRecords
    <2> QED BY <2>1, <2>2, TickPrices, Unsigned
  <1> HIDE DEF liquidity, up
  <1>3. \A x, y \in Nat : a(x, y) \in U64 \cup {Err} /\ b(x, y) \in U64 \cup {Err}
    BY <1>1, AmountA, AmountB
  <1>4. t < l \/ t \in l..u - 1 \/ t >= u
    <2>1. t \in Int /\ l \in Int /\ u \in Int
      BY TickIndexAssumption DEF PoolRecords, PositionRecords, Usable
    <2> HIDE DEF t, l, u
    <2> QED BY <2>1
  <1>5. d = CASE t < l -> [a |-> a(lower, upper), b |-> 0]
              [] t \in l..u - 1 -> [a |-> a(p.sqrt_price, upper), b |-> b(lower, p.sqrt_price)]
              [] t >= u -> [a |-> 0, b |-> b(lower, upper)]
    BY Zenon DEF calculate_liquidity_token_deltas, sqrt_price_from_tick_index, liquidity, up
  <1> DEFINE priceP == p.sqrt_price
             aLU == a(lower, upper)
             bLU == b(lower, upper)
             aPU == a(priceP, upper)
             bLP == b(lower, priceP)
  <1>6. aLU \in U64 \cup {Err} /\ bLU \in U64 \cup {Err} /\ aPU \in U64 \cup {Err} /\ bLP \in U64 \cup {Err}
    BY <1>2, <1>3
  <1>7. \/ d = [a |-> aLU, b |-> 0]
        \/ d = [a |-> aPU, b |-> bLP]
        \/ d = [a |-> 0, b |-> bLU]
    <2> HIDE DEF a, b, t, l, u, lower, upper
    <2> QED BY <1>4, <1>5
  <1> HIDE DEF aLU, bLU, aPU, bLP
  <1> QED BY <1>6, <1>7, Unsigned DEF Tokens

LEMMA TransferIn ==
    ASSUME vault \in [Kinds -> 0..Supply], NEW amounts, transfer_from_owner_to_vault(amounts),
           \A k \in DOMAIN amounts : amounts[k] \in Nat
    PROVE  vault' \in [Kinds -> 0..Supply]
  <1>1. vault' = [k \in Kinds |-> IF k \in DOMAIN amounts THEN vault[k] + amounts[k] ELSE vault[k]]
    BY DEF transfer_from_owner_to_vault
  <1>2. ASSUME NEW k \in Kinds
        PROVE  (IF k \in DOMAIN amounts THEN vault[k] + amounts[k] ELSE vault[k]) \in 0..Supply
    <2>1. vault[k] \in 0..Supply /\ Supply \in Nat
      BY KindSets
    <2>2. k \in DOMAIN amounts => amounts[k] \in Nat /\ amounts[k] <= Supply - vault[k]
      BY DEF transfer_from_owner_to_vault
    <2> QED BY <2>1, <2>2
  <1> QED BY <1>1, <1>2

LEMMA TransferOut ==
    ASSUME vault \in [Kinds -> 0..Supply], NEW amounts, transfer_from_vault_to_owner(amounts),
           \A k \in DOMAIN amounts : amounts[k] \in Nat
    PROVE  vault' \in [Kinds -> 0..Supply]
  <1>1. vault' = [k \in Kinds |-> IF k \in DOMAIN amounts THEN vault[k] - amounts[k] ELSE vault[k]]
    BY DEF transfer_from_vault_to_owner
  <1>2. ASSUME NEW k \in Kinds
        PROVE  (IF k \in DOMAIN amounts THEN vault[k] - amounts[k] ELSE vault[k]) \in 0..Supply
    <2>1. vault[k] \in 0..Supply /\ Supply \in Nat
      BY KindSets
    <2>2. k \in DOMAIN amounts => amounts[k] \in Nat /\ amounts[k] <= vault[k]
      BY DEF transfer_from_vault_to_owner
    <2> QED BY <2>1, <2>2
  <1> QED BY <1>1, <1>2

-----------------------------------------------------------------------------
(* The pool's invariant. *)

PriceInTick(price, tick) ==
    /\ price \in MIN_SQRT_PRICE_X64..MAX_SQRT_PRICE_X64
    /\ tick >= MIN_TICK_INDEX => SqrtPrice[tick] <= price
    /\ tick < MAX_TICK_INDEX => price <= SqrtPrice[tick + 1]

\* A swap in progress has moved the price from the pool's towards its limit.
SwapRuns(s, price) ==
    /\ s.remaining <= s.amount
    /\ s.array_index # 0
    /\ s.limit \in MIN_SQRT_PRICE_X64..MAX_SQRT_PRICE_X64
    /\ IF s.a_to_b THEN s.limit <= s.sqrt_price /\ s.sqrt_price <= price
                   ELSE price <= s.sqrt_price /\ s.sqrt_price <= s.limit
    /\ PriceInTick(s.sqrt_price, s.tick)

PoolInv ==
    /\ TypeOK
    /\ PriceInTick(pool.sqrt_price, pool.tick_current_index)
    /\ swap # NoSwap => SwapRuns(swap, pool.sqrt_price)

\* The types of all but the swap.
AccountsOK ==
    /\ pool \in PoolRecords
    /\ tick_arrays \subseteq Starts
    /\ ticks \in [Usable -> TickRecords]
    /\ positions \in [PositionIds -> PositionRecords \cup {NoPosition}]
    /\ vault \in [Kinds -> 0..Supply]
    /\ clock \in Nat

\* A pool after initialize_pool, whatever tick arrays there are already.
Created ==
    /\ \E price \in InitialPrices, fee_rate \in FeeRates, protocol_fee_rate \in ProtocolFeeRates :
        InitializePool(price, fee_rate, protocol_fee_rate)
    /\ tick_arrays \subseteq Starts

LEMMA PoolCreated == Created => PoolInv
  <1> SUFFICES ASSUME Created PROVE PoolInv
    OBVIOUS
  <1>1. PICK price \in InitialPrices, fee_rate \in FeeRates, protocol_fee_rate \in ProtocolFeeRates :
            InitializePool(price, fee_rate, protocol_fee_rate)
    BY DEF Created
  <1>2. price \in MIN_SQRT_PRICE_X64..MAX_SQRT_PRICE_X64 /\ price \in U128
    BY <1>1, InputAssumption DEF InitializePool
  <1>3. LET t == tick_index_from_sqrt_price(price)
        IN  /\ t \in MIN_TICK_INDEX..MAX_TICK_INDEX
            /\ SqrtPrice[t] <= price
            /\ t < MAX_TICK_INDEX => price < SqrtPrice[t + 1]
    BY <1>2, TickOfPrice
  <1> DEFINE t == tick_index_from_sqrt_price(price)
  <1>4. PriceInTick(price, t)
    <2>1. t < MAX_TICK_INDEX => SqrtPrice[t + 1] \in Nat
      <3>1. t < MAX_TICK_INDEX => t + 1 \in MIN_TICK_INDEX..MAX_TICK_INDEX
        BY <1>3, TickIndexAssumption
      <3> QED BY <3>1, TickPrices
    <2>2. price \in Int
      BY <1>2, Unsigned
    <2> QED BY <1>2, <1>3, <2>1, <2>2 DEF PriceInTick
  <1>5. t \in MIN_TICK_INDEX - 1..MAX_TICK_INDEX
    BY <1>3, TickIndexAssumption
  <1> HIDE DEF t
  <1>6. fee_rate \in 0..MAX_FEE_RATE /\ protocol_fee_rate \in 0..MAX_PROTOCOL_FEE_RATE
    BY <1>1, InputAssumption, PoolAssumption, FeeAssumption DEF InitializePool
  <1>7. pool = [sqrt_price |-> price, tick_current_index |-> t, liquidity |-> 0, growth |-> Zero,
                fee_rate |-> fee_rate, protocol_fee_rate |-> protocol_fee_rate,
                protocol_fee_owed |-> [k \in Tokens |-> 0],
                rewards |-> {}, emissions |-> [r \in Rewards |-> 0],
                reward_last_updated_timestamp |-> 0]
    BY <1>1 DEF InitializePool, t
  <1>8. pool \in PoolRecords
    BY <1>2, <1>5, <1>6, <1>7, KindSets, Unsigned DEF PoolRecords
  <1>9. /\ ticks \in [Usable -> TickRecords]
        /\ positions \in [PositionIds -> PositionRecords \cup {NoPosition}]
        /\ vault \in [Kinds -> 0..Supply] /\ clock \in Nat /\ swap = NoSwap /\ tick_arrays \subseteq Starts
    BY <1>1, KindSets DEF InitializePool, Created
  <1>10. PriceInTick(pool.sqrt_price, pool.tick_current_index)
    BY <1>4, <1>7
  <1> QED BY <1>8, <1>9, <1>10 DEF PoolInv, TypeOK

LEMMA InitCreates == Init => Created
  BY DEF Init, Created

LEMMA PoolInvInit == Init => PoolInv
  BY InitCreates, PoolCreated

\* An instruction that leaves the price alone, outside a swap.
LEMMA QuietStep ==
    ASSUME PoolInv, swap = NoSwap, swap' = swap, AccountsOK',
           pool'.sqrt_price = pool.sqrt_price, pool'.tick_current_index = pool.tick_current_index
    PROVE  PoolInv'
  BY DEF PoolInv, TypeOK, AccountsOK

LEMMA OpenTyped ==
    ASSUME PoolInv, NEW id \in Open
    PROVE  id \in PositionIds /\ positions[id] \in PositionRecords
  BY DEF PoolInv, TypeOK, Open

LEMMA ModifyTyped ==
    ASSUME PoolInv, NEW id \in Open, NEW delta \in Int, ModifyLiquidity(id, delta)
    PROVE  /\ pool' \in PoolRecords
           /\ ticks' \in [Usable -> TickRecords]
           /\ positions' \in [PositionIds -> PositionRecords \cup {NoPosition}]
           /\ pool'.sqrt_price = pool.sqrt_price
           /\ pool'.tick_current_index = pool.tick_current_index
  <1> DEFINE p == positions[id]
             lower == p.tick_lower_index
             upper == p.tick_upper_index
             current == pool.tick_current_index
             growth == next_whirlpool_reward_infos(pool, clock)
             inside == next_growths_inside(current, ticks, lower, upper, growth, Active(pool))
             next(t, is_upper) ==
                 next_tick_modify_liquidity_update(ticks[t], t, current, growth, delta, is_upper)
             liquidity == next_whirlpool_liquidity(pool, lower, upper, delta)
  <1>1. /\ pool \in PoolRecords /\ ticks \in [Usable -> TickRecords] /\ clock \in Nat
        /\ positions \in [PositionIds -> PositionRecords \cup {NoPosition}]
        /\ p \in PositionRecords /\ id \in PositionIds
    BY OpenTyped DEF PoolInv, TypeOK
  <1>2. lower \in Usable /\ upper \in Usable /\ p.liquidity \in U128
    BY <1>1 DEF PositionRecords
  <1>3. /\ ~InvalidTimestamp(pool, clock) /\ liquidity # Err
        /\ ~TickUpdateFails(ticks[lower], delta, FALSE) /\ ~TickUpdateFails(ticks[upper], delta, TRUE)
        /\ add_liquidity_delta(p.liquidity, delta) # Err
    BY Zenon DEF ModifyLiquidity, ModifyFails
  <1>4. /\ positions' = [positions EXCEPT
                            ![id] = next_position_modify_liquidity_update(p, delta, inside)]
        /\ ticks' = [ticks EXCEPT ![lower] = next(lower, FALSE), ![upper] = next(upper, TRUE)]
        /\ pool' = [pool EXCEPT !.growth = growth, !.reward_last_updated_timestamp = clock,
                                !.liquidity = liquidity]
    BY Zenon DEF ModifyLiquidity
  <1>5. growth \in [Kinds -> U128]
    BY <1>1, <1>3, GrowthTyped
  <1> HIDE DEF growth, p
  <1>6. inside \in [Kinds -> U128]
    BY <1>1, <1>2, <1>5, InsideTyped
  <1> HIDE DEF inside
  <1>7. next_position_modify_liquidity_update(p, delta, inside) \in PositionRecords
    BY <1>1, <1>3, <1>6, PositionUpdateTyped
  <1>8. next(lower, FALSE) \in TickRecords /\ next(upper, TRUE) \in TickRecords
    <2>1. ticks[lower] \in TickRecords /\ ticks[upper] \in TickRecords
      BY <1>1, <1>2
    <2>2. FALSE \in BOOLEAN /\ TRUE \in BOOLEAN
      OBVIOUS
    <2>3. next(lower, FALSE) \in TickRecords
      BY <1>3, <1>5, <2>1, <2>2, TickUpdateTyped, Zenon
    <2>4. next(upper, TRUE) \in TickRecords
      BY <1>3, <1>5, <2>1, <2>2, TickUpdateTyped, Zenon
    <2> QED BY <2>3, <2>4
  <1>9. liquidity \in U128
    <2>1. pool.liquidity \in U128 /\ pool.liquidity \in Int
      BY <1>1, Unsigned DEF PoolRecords
    <2>2. liquidity = add_liquidity_delta(pool.liquidity, delta) \/ liquidity = pool.liquidity
      BY DEF next_whirlpool_liquidity
    <2> HIDE DEF liquidity
    <2> QED BY <1>3, <2>1, <2>2, AddLiquidity
  <1> HIDE DEF liquidity, next
  <1>10. positions' \in [PositionIds -> PositionRecords \cup {NoPosition}]
    BY <1>1, <1>4, <1>7
  <1>11. ticks' \in [Usable -> TickRecords]
    BY <1>1, <1>4, <1>8
  <1>12. pool' \in PoolRecords
    BY <1>1, <1>4, <1>5, <1>9 DEF PoolRecords
  <1>13. pool'.sqrt_price = pool.sqrt_price /\ pool'.tick_current_index = pool.tick_current_index
    BY <1>1, <1>4 DEF PoolRecords
  <1> QED BY <1>10, <1>11, <1>12, <1>13

LEMMA LiquidityDelta ==
    ASSUME NEW amount \in U128, NEW positive \in BOOLEAN
    PROVE  convert_to_liquidity_delta(amount, positive) \in Int
  BY Unsigned DEF convert_to_liquidity_delta

LEMMA RewardCollected ==
    ASSUME NEW o \in U64, NEW v \in 0..Supply
    PROVE  LET c == calculate_collect_reward(o, v)
           IN  c.transfer \in Nat /\ c.owed \in U64
  <1> DEFINE c == calculate_collect_reward(o, v)
  <1>1. Supply \in Nat /\ o \in Nat /\ o <= U64MAX /\ U64MAX \in Nat
    BY PoolAssumption, Unsigned, Widths
  <1>2. c = IF o > v THEN [transfer |-> v, owed |-> o - v] ELSE [transfer |-> o, owed |-> 0]
    BY DEF calculate_collect_reward
  <1>3. o > v => o - v \in U64
    BY <1>1 DEF U64
  <1> QED BY <1>1, <1>2, <1>3, Unsigned

LEMMA PositionKeepsInv ==
    ASSUME PoolInv, PositionNext
    PROVE  PoolInv'
  <1>1. PICK id \in PositionIds :
            \/ \E range \in RangeInputs : OpenPosition(id, range[1], range[2])
            \/ ClosePosition(id)
            \/ \E amount \in LiquidityInputs, limits \in [Tokens -> TokenLimits] :
                  \/ IncreaseLiquidity(id, amount, limits)
                  \/ DecreaseLiquidity(id, amount, limits)
            \/ UpdateFeesAndRewards(id)
            \/ CollectFees(id)
            \/ \E r \in Rewards : CollectReward(id, r)
    BY DEF PositionNext
  <1>2. TypeOK /\ AccountsOK
    BY DEF PoolInv, TypeOK, AccountsOK
  <1>3. CASE \E range \in RangeInputs : OpenPosition(id, range[1], range[2])
    <2>1. PICK range \in RangeInputs : OpenPosition(id, range[1], range[2])
      BY <1>3
    <2> DEFINE lower == range[1]
               upper == range[2]
    <2>2. lower \in Usable /\ upper \in Usable
      <3>1. lower \in Int /\ upper \in Int
        BY InputAssumption
      <3> QED BY <2>1, <3>1, TickIndexAssumption
          DEF OpenPosition, Usable, check_is_usable_tick, check_is_out_of_bounds
    <2> HIDE DEF lower, upper
    <2>3. DefaultPosition(lower, upper) \in PositionRecords
      BY <2>2, KindSets, Unsigned DEF DefaultPosition, PositionRecords
    <2>4. /\ swap = NoSwap /\ positions' = [positions EXCEPT ![id] = DefaultPosition(lower, upper)]
          /\ UNCHANGED <<pool, tick_arrays, ticks, vault, clock, swap>>
      BY <2>1 DEF OpenPosition, lower, upper
    <2>5. positions' \in [PositionIds -> PositionRecords \cup {NoPosition}]
      BY <1>2, <2>3, <2>4 DEF TypeOK
    <2> QED BY <1>2, <2>4, <2>5, QuietStep DEF AccountsOK
  <1>4. CASE ClosePosition(id)
    <2>1. positions' \in [PositionIds -> PositionRecords \cup {NoPosition}]
      BY <1>2, <1>4 DEF TypeOK, ClosePosition
    <2> QED BY <1>2, <1>4, <2>1, QuietStep DEF AccountsOK, ClosePosition
  <1>5. ASSUME NEW amount \in LiquidityInputs, NEW limits,
               IncreaseLiquidity(id, amount, limits)
        PROVE  PoolInv'
    <2> DEFINE delta == convert_to_liquidity_delta(amount, TRUE)
               d == calculate_liquidity_token_deltas(pool, positions[id], delta)
    <2>1. delta \in Int
      <3>1. amount \in U128 /\ TRUE \in BOOLEAN
        BY InputAssumption
      <3> QED BY <3>1, LiquidityDelta, Zenon
    <2>2. /\ swap = NoSwap /\ id \in Open /\ ModifyLiquidity(id, delta)
          /\ \A k \in Tokens : d[k] # Err
          /\ transfer_from_owner_to_vault(d)
          /\ UNCHANGED <<tick_arrays, clock, swap>>
      BY <1>5 DEF IncreaseLiquidity
    <2> HIDE DEF delta
    <2>3. DOMAIN d = Tokens /\ d.a \in U64 \cup {Err} /\ d.b \in U64 \cup {Err}
      <3>1. pool \in PoolRecords /\ positions[id] \in PositionRecords
        BY <1>2, <2>2, OpenTyped DEF TypeOK
      <3> QED BY <2>1, <3>1, DeltasTyped
    <2> HIDE DEF d
    <2>4. \A k \in DOMAIN d : d[k] \in Nat
      BY <2>2, <2>3, Unsigned DEF Tokens
    <2>5. vault' \in [Kinds -> 0..Supply]
      BY <1>2, <2>2, <2>4, TransferIn DEF TypeOK
    <2> QED BY <1>2, <2>1, <2>2, <2>5, ModifyTyped, QuietStep DEF AccountsOK
  <1>6. ASSUME NEW amount \in LiquidityInputs, NEW limits,
               DecreaseLiquidity(id, amount, limits)
        PROVE  PoolInv'
    <2> DEFINE delta == convert_to_liquidity_delta(amount, FALSE)
               d == calculate_liquidity_token_deltas(pool, positions[id], delta)
    <2>1. delta \in Int
      <3>1. amount \in U128 /\ FALSE \in BOOLEAN
        BY InputAssumption
      <3> QED BY <3>1, LiquidityDelta, Zenon
    <2>2. /\ swap = NoSwap /\ id \in Open /\ ModifyLiquidity(id, delta)
          /\ \A k \in Tokens : d[k] # Err
          /\ transfer_from_vault_to_owner(d)
          /\ UNCHANGED <<tick_arrays, clock, swap>>
      BY <1>6 DEF DecreaseLiquidity
    <2> HIDE DEF delta
    <2>3. DOMAIN d = Tokens /\ d.a \in U64 \cup {Err} /\ d.b \in U64 \cup {Err}
      <3>1. pool \in PoolRecords /\ positions[id] \in PositionRecords
        BY <1>2, <2>2, OpenTyped DEF TypeOK
      <3> QED BY <2>1, <3>1, DeltasTyped
    <2> HIDE DEF d
    <2>4. \A k \in DOMAIN d : d[k] \in Nat
      BY <2>2, <2>3, Unsigned DEF Tokens
    <2>5. vault' \in [Kinds -> 0..Supply]
      BY <1>2, <2>2, <2>4, TransferOut DEF TypeOK
    <2> QED BY <1>2, <2>1, <2>2, <2>5, ModifyTyped, QuietStep DEF AccountsOK
  <1>7. CASE UpdateFeesAndRewards(id)
    <2>1. /\ swap = NoSwap /\ id \in Open /\ ModifyLiquidity(id, 0)
          /\ UNCHANGED <<tick_arrays, vault, clock, swap>>
      BY <1>7 DEF UpdateFeesAndRewards
    <2>2. 0 \in Int
      OBVIOUS
    <2> QED BY <1>2, <2>1, <2>2, ModifyTyped, QuietStep DEF AccountsOK
  <1>8. CASE CollectFees(id)
    <2> DEFINE p == positions[id]
               owed == [k \in Kinds |-> IF k \in Tokens THEN 0 ELSE p.owed[k]]
               out == [k \in Tokens |-> p.owed[k]]
    <2>1. /\ swap = NoSwap /\ id \in Open /\ transfer_from_vault_to_owner(out)
          /\ UNCHANGED <<pool, tick_arrays, ticks, clock, swap>>
      BY <1>8 DEF CollectFees
    <2>2. positions' = [positions EXCEPT ![id].owed = owed]
      BY <1>8 DEF CollectFees
    <2>3. p \in PositionRecords /\ p.owed \in [Kinds -> U64]
      BY <2>1, OpenTyped DEF PositionRecords
    <2>4. owed \in [Kinds -> U64]
      BY <2>3, Unsigned
    <2>5. \A k \in DOMAIN out : out[k] \in Nat
      BY <2>3, KindSets, Unsigned
    <2> HIDE DEF owed, out
    <2>6. vault' \in [Kinds -> 0..Supply]
      BY <1>2, <2>1, <2>5, TransferOut DEF TypeOK
    <2>7. [p EXCEPT !.owed = owed] \in PositionRecords
      BY <2>3, <2>4 DEF PositionRecords
    <2>8. positions' = [positions EXCEPT ![id] = [p EXCEPT !.owed = owed]]
      BY <2>2
    <2> HIDE DEF p
    <2>9. positions' \in [PositionIds -> PositionRecords \cup {NoPosition}]
      BY <1>2, <2>7, <2>8 DEF TypeOK
    <2> QED BY <1>2, <2>1, <2>6, <2>9, QuietStep DEF AccountsOK
  <1>9. ASSUME NEW r \in Rewards, CollectReward(id, r) PROVE PoolInv'
    <2> DEFINE p == positions[id]
               c == calculate_collect_reward(p.owed[r], vault[r])
               out == [k \in {r} |-> c.transfer]
               owed == [p.owed EXCEPT ![r] = c.owed]
    <2>1. /\ swap = NoSwap /\ id \in Open /\ transfer_from_vault_to_owner(out)
          /\ UNCHANGED <<pool, tick_arrays, ticks, clock, swap>>
      BY <1>9, Zenon DEF CollectReward
    <2>2. positions' = [positions EXCEPT ![id] = [p EXCEPT !.owed = owed]]
      BY <1>9 DEF CollectReward
    <2>3. p \in PositionRecords /\ p.owed \in [Kinds -> U64] /\ r \in Kinds
      BY <2>1, OpenTyped, KindSets DEF PositionRecords
    <2>4. c.transfer \in Nat /\ c.owed \in U64
      <3> DEFINE o == p.owed[r]
                 v == vault[r]
      <3>1. o \in U64 /\ v \in 0..Supply /\ Supply \in Nat
        BY <1>2, <2>3, KindSets DEF TypeOK
      <3> QED BY <3>1, RewardCollected
    <2> HIDE DEF c
    <2>5. owed \in [Kinds -> U64]
      BY <2>3, <2>4
    <2>6. \A k \in DOMAIN out : out[k] \in Nat
      BY <2>4
    <2> HIDE DEF owed, out
    <2>7. vault' \in [Kinds -> 0..Supply]
      BY <1>2, <2>1, <2>6, TransferOut DEF TypeOK
    <2>8. [p EXCEPT !.owed = owed] \in PositionRecords
      BY <2>3, <2>5 DEF PositionRecords
    <2> HIDE DEF p
    <2>9. positions' \in [PositionIds -> PositionRecords \cup {NoPosition}]
      BY <1>2, <2>2, <2>8 DEF TypeOK
    <2> QED BY <1>2, <2>1, <2>7, <2>9, QuietStep DEF AccountsOK
  <1> QED BY <1>1, <1>3, <1>4, <1>5, <1>6, <1>7, <1>8, <1>9

LEMMA AuthorityKeepsInv ==
    ASSUME PoolInv, AuthorityNext
    PROVE  PoolInv'
  <1>1. TypeOK /\ AccountsOK /\ pool \in PoolRecords /\ clock \in Nat
    BY DEF PoolInv, TypeOK, AccountsOK
  \* Instructions that change only the pool, and not its price.
  <1>2. ASSUME swap = NoSwap, pool' \in PoolRecords, pool'.sqrt_price = pool.sqrt_price,
               pool'.tick_current_index = pool.tick_current_index,
               UNCHANGED <<tick_arrays, ticks, positions, vault, clock, swap>>
        PROVE  PoolInv'
    BY <1>1, <1>2, QuietStep DEF AccountsOK
  <1>3. CASE CollectProtocolFees
    <2> DEFINE owed == [k \in Tokens |-> 0]
    <2>1. /\ swap = NoSwap /\ transfer_from_vault_to_owner(pool.protocol_fee_owed)
          /\ pool' = [pool EXCEPT !.protocol_fee_owed = owed]
          /\ UNCHANGED <<tick_arrays, ticks, positions, clock, swap>>
      BY <1>3 DEF CollectProtocolFees
    <2>2. pool.protocol_fee_owed \in [Tokens -> U64] /\ owed \in [Tokens -> U64]
      BY <1>1, Unsigned DEF PoolRecords
    <2> HIDE DEF owed
    <2>3. /\ pool' \in PoolRecords /\ pool'.sqrt_price = pool.sqrt_price
          /\ pool'.tick_current_index = pool.tick_current_index
      BY <1>1, <2>1, <2>2 DEF PoolRecords
    <2>4. \A k \in DOMAIN pool.protocol_fee_owed : pool.protocol_fee_owed[k] \in Nat
      BY <2>2, Unsigned
    <2>5. vault' \in [Kinds -> 0..Supply]
      BY <1>1, <2>1, <2>4, TransferOut DEF TypeOK
    <2> QED BY <1>1, <2>1, <2>3, <2>5, QuietStep DEF AccountsOK
  <1>4. ASSUME NEW rate \in FeeRates, SetFeeRate(rate) PROVE PoolInv'
    <2>1. rate \in 0..MAX_FEE_RATE
      BY <1>4, InputAssumption, PoolAssumption, FeeAssumption DEF SetFeeRate
    <2> QED BY <1>1, <1>2, <1>4, <2>1 DEF SetFeeRate, PoolRecords
  <1>5. ASSUME NEW rate \in ProtocolFeeRates, SetProtocolFeeRate(rate) PROVE PoolInv'
    <2>1. rate \in 0..MAX_PROTOCOL_FEE_RATE
      BY <1>5, InputAssumption, PoolAssumption, FeeAssumption DEF SetProtocolFeeRate
    <2> QED BY <1>1, <1>2, <1>5, <2>1 DEF SetProtocolFeeRate, PoolRecords
  <1>6. ASSUME NEW i \in 1..Len(RewardNames), InitializeReward(i) PROVE PoolInv'
    <2>1. RewardNames[i] \in Rewards
      BY DEF Rewards
    <2> QED BY <1>1, <1>2, <1>6, <2>1 DEF InitializeReward, PoolRecords
  <1>7. ASSUME NEW r \in Rewards, NEW emissions \in Emissions, SetRewardEmissions(r, emissions)
        PROVE  PoolInv'
    <2> DEFINE growth == next_whirlpool_reward_infos(pool, clock)
    <2>1. /\ swap = NoSwap /\ ~InvalidTimestamp(pool, clock)
          /\ pool' = [pool EXCEPT !.growth = growth, !.reward_last_updated_timestamp = clock,
                                  !.emissions[r] = emissions]
          /\ UNCHANGED <<tick_arrays, ticks, positions, vault, clock, swap>>
      BY <1>7, Zenon DEF SetRewardEmissions, update_emissions
    <2>2. growth \in [Kinds -> U128]
      BY <1>1, <2>1, GrowthTyped
    <2>3. emissions \in U128
      BY InputAssumption
    <2> HIDE DEF growth
    <2>4. /\ pool' \in PoolRecords /\ pool'.sqrt_price = pool.sqrt_price
          /\ pool'.tick_current_index = pool.tick_current_index
      BY <1>1, <2>1, <2>2, <2>3 DEF PoolRecords
    <2> QED BY <1>2, <2>1, <2>4
  <1> QED BY <1>3, <1>4, <1>5, <1>6, <1>7 DEF AuthorityNext

LEMMA BeginSwapKeepsInv ==
    ASSUME PoolInv, NEW amount \in SwapAmounts, NEW threshold \in SwapThresholds,
           NEW limit \in SwapLimits, NEW is_input \in BOOLEAN, NEW a_to_b \in BOOLEAN,
           NEW arrays \in ArrayInputs,
           BeginSwap(amount, threshold, limit, is_input, a_to_b, arrays)
    PROVE  PoolInv'
  <1> DEFINE growth == next_whirlpool_reward_infos(pool, clock)
             p == pool.sqrt_price
             t == pool.tick_current_index
             s == [amount |-> amount, threshold |-> threshold, limit |-> limit,
                   is_input |-> is_input, a_to_b |-> a_to_b, arrays |-> arrays,
                   remaining |-> amount, calculated |-> 0, sqrt_price |-> p, tick |-> t,
                   liquidity |-> pool.liquidity, protocol_fee |-> 0, array_index |-> 1,
                   growth |-> growth, ticks |-> ticks]
  <1>1. /\ limit \in MIN_SQRT_PRICE_X64..MAX_SQRT_PRICE_X64
        /\ IF a_to_b THEN limit <= p ELSE limit >= p
        /\ ~InvalidTimestamp(pool, clock)
        /\ swap' = s
        /\ UNCHANGED <<pool, tick_arrays, ticks, positions, vault, clock>>
    BY Zenon DEF BeginSwap
  <1>2. TypeOK /\ pool \in PoolRecords /\ clock \in Nat /\ ticks \in [Usable -> TickRecords]
    BY DEF PoolInv, TypeOK
  <1>3. growth \in [Kinds -> U128]
    BY <1>1, <1>2, GrowthTyped
  <1>4. /\ amount \in U64 /\ threshold \in U64 /\ limit \in U128 /\ arrays \in Seq(Starts)
    BY InputAssumption
  <1>5. p \in U128 /\ t \in MIN_TICK_INDEX - 1..MAX_TICK_INDEX /\ pool.liquidity \in U128
    BY <1>2 DEF PoolRecords
  <1>6. PriceInTick(p, t)
    BY DEF PoolInv
  <1>7. amount \in Int /\ p \in Int /\ limit \in Int /\ 0 \in U64
    BY <1>4, <1>5, Unsigned
  <1> HIDE DEF growth, p, t
  <1>8. s \in SwapRecords
    BY <1>2, <1>3, <1>4, <1>5, <1>7 DEF SwapRecords
  <1>9. SwapRuns(s, p)
    BY <1>1, <1>6, <1>7 DEF SwapRuns
  <1> HIDE DEF s
  <1> QED BY <1>1, <1>2, <1>6, <1>8, <1>9 DEF PoolInv, TypeOK, p, t

\* Tokens for a reward, and the clock.
LEMMA OutsideKeepsInv ==
    ASSUME PoolInv,
           \/ \E start \in Starts : InitializeTickArray(start)
           \/ \E r \in Rewards, amount \in FundAmounts : FundReward(r, amount)
           \/ \E now \in Times : ClockMoves(now)
    PROVE  PoolInv'
  <1>1. TypeOK /\ AccountsOK
    BY DEF PoolInv, TypeOK, AccountsOK
  <1>2. CASE \E start \in Starts : InitializeTickArray(start)
    BY <1>1, <1>2, QuietStep DEF InitializeTickArray, AccountsOK
  <1>3. ASSUME NEW r \in Rewards, NEW amount \in FundAmounts, FundReward(r, amount) PROVE PoolInv'
    <2> DEFINE in == [k \in {r} |-> amount]
    <2>1. /\ swap = NoSwap /\ transfer_from_owner_to_vault(in)
          /\ UNCHANGED <<pool, tick_arrays, ticks, positions, clock, swap>>
      BY <1>3 DEF FundReward
    <2>2. \A k \in DOMAIN in : in[k] \in Nat
      BY InputAssumption, Unsigned
    <2> HIDE DEF in
    <2>3. vault' \in [Kinds -> 0..Supply]
      BY <1>1, <2>1, <2>2, TransferIn DEF TypeOK
    <2> QED BY <1>1, <2>1, <2>3, QuietStep DEF AccountsOK
  <1>4. CASE \E now \in Times : ClockMoves(now)
    BY <1>1, <1>4, InputAssumption, QuietStep DEF ClockMoves, AccountsOK
  <1> QED BY <1>2, <1>3, <1>4

-----------------------------------------------------------------------------
(* One turn of the swap loop. *)

\* The search starts at a tick from which it has somewhere to go: at either end
\* of the tick range the price is at its limit and the loop is over.
LEMMA SearchOfSwap ==
    ASSUME NEW s \in SwapRecords, NEW price, SwapRuns(s, price), Looping(s),
           NEW found, found = NextTick(s), ~found.error
    PROVE  Sound(found, s.arrays, Initialized(s.ticks), s.tick, s.a_to_b, s.array_index)
  <1> DEFINE initialized == Initialized(s.ticks)
             t == s.tick
             p == s.sqrt_price
             limit == s.limit
             first == s.array_index
  <1>1. /\ s.arrays \in Seq(Starts) /\ t \in MIN_TICK_INDEX - 1..MAX_TICK_INDEX
        /\ s.a_to_b \in BOOLEAN /\ first \in Nat /\ p \in U128 /\ limit \in U128
    BY DEF SwapRecords
  <1>2. first \in Nat \ {0} /\ p \in Int /\ limit \in Int /\ t \in Int
    BY <1>1, TickIndexAssumption, Unsigned DEF SwapRuns
  <1>3. /\ limit # p
        /\ limit \in MIN_SQRT_PRICE_X64..MAX_SQRT_PRICE_X64
        /\ IF s.a_to_b THEN limit <= p ELSE p <= limit
        /\ PriceInTick(p, t)
    BY DEF Looping, SwapRuns
  <1>4. initialized \subseteq Usable
    BY DEF Initialized
  <1> HIDE DEF initialized, p, limit, first
  <1>5. IF s.a_to_b THEN MIN_TICK_INDEX <= t ELSE t < MAX_TICK_INDEX
    <2> USE TickIndexAssumption
    <2>1. MIN_SQRT_PRICE_X64 \in Int /\ MAX_SQRT_PRICE_X64 \in Int
      <3>1. MIN_TICK_INDEX \in MIN_TICK_INDEX..MAX_TICK_INDEX
            /\ MAX_TICK_INDEX \in MIN_TICK_INDEX..MAX_TICK_INDEX
        OBVIOUS
      <3> QED BY <3>1, TickPrices DEF MIN_SQRT_PRICE_X64, MAX_SQRT_PRICE_X64
    <2>2. MIN_SQRT_PRICE_X64 <= limit /\ limit <= MAX_SQRT_PRICE_X64
      BY <1>3, <2>1
    <2>3. CASE s.a_to_b
      <3>1. limit < p
        BY <1>2, <1>3, <2>3
      <3>2. MIN_SQRT_PRICE_X64 < p
        BY <1>2, <2>1, <2>2, <3>1
      <3>3. t = MIN_TICK_INDEX - 1 => p <= SqrtPrice[MIN_TICK_INDEX]
        <4>1. MIN_TICK_INDEX - 1 < MAX_TICK_INDEX /\ MIN_TICK_INDEX - 1 + 1 = MIN_TICK_INDEX
          OBVIOUS
        <4> QED BY <1>3, <4>1 DEF PriceInTick
      <3>4. t # MIN_TICK_INDEX - 1
        BY <1>2, <2>1, <3>2, <3>3 DEF MIN_SQRT_PRICE_X64
      <3> QED BY <1>1, <2>3, <3>4
    <2>4. CASE ~s.a_to_b
      <3>1. p < limit
        BY <1>2, <1>3, <2>4
      <3>2. p < MAX_SQRT_PRICE_X64
        BY <1>2, <2>1, <2>2, <3>1
      <3>3. t = MAX_TICK_INDEX => SqrtPrice[MAX_TICK_INDEX] <= p
        BY <1>3 DEF PriceInTick
      <3>4. t # MAX_TICK_INDEX
        BY <1>2, <2>1, <3>2, <3>3 DEF MAX_SQRT_PRICE_X64
      <3> QED BY <1>1, <2>4, <3>4
    <2> QED BY <2>3, <2>4
  <1>6. Reached(initialized, t, s.a_to_b, t)
    BY <1>2, <1>5 DEF Reached
  <1>7. found = get_next_initialized_tick_index(s.arrays, initialized, t, TickSpacing, s.a_to_b, first)
    BY Zenon DEF NextTick, initialized, first
  <1> HIDE DEF t
  <1>8. Sound(found, s.arrays, initialized, t, s.a_to_b, first)
    BY <1>1, <1>2, <1>4, <1>6, <1>7, SearchSound
  <1> QED BY <1>8, Zenon DEF initialized, t, first

\* What a search and the computation that follows it have to do with the swap.
Heads(s, t, target) ==
    /\ t \in MIN_TICK_INDEX..MAX_TICK_INDEX
    /\ target \in Nat \ {0}
    /\ Towards(s.sqrt_price, target, s.a_to_b)
    /\ target = s.limit \/ target = SqrtPrice[t]
    /\ IF s.a_to_b THEN t <= s.tick /\ s.limit <= target /\ SqrtPrice[t] <= target
                   ELSE s.tick < t /\ target <= s.limit /\ target <= SqrtPrice[t]

LEMMA TargetOfSwap ==
    ASSUME NEW s \in SwapRecords, NEW price, SwapRuns(s, price), Looping(s),
           NEW found, found = NextTick(s), ~found.error
    PROVE  Heads(s, found.tick_index, get_next_sqrt_prices(found.tick_index, s.limit, s.a_to_b))
  <1> USE TickIndexAssumption
  <1> DEFINE t == found.tick_index
             tick == s.tick
             p == s.sqrt_price
             limit == s.limit
             q == SqrtPrice[t]
             target == get_next_sqrt_prices(t, limit, s.a_to_b)
  <1>1. /\ tick \in MIN_TICK_INDEX - 1..MAX_TICK_INDEX /\ p \in U128 /\ limit \in U128
        /\ s.a_to_b \in BOOLEAN
    BY DEF SwapRecords
  <1>2. /\ t \in Int
        /\ IF s.a_to_b THEN MIN_TICK_INDEX <= t /\ t <= tick ELSE tick < t /\ t <= MAX_TICK_INDEX
    BY SearchOfSwap DEF Sound
  <1>3. /\ IF s.a_to_b THEN limit <= p ELSE p <= limit
        /\ PriceInTick(p, tick)
        /\ limit \in MIN_SQRT_PRICE_X64..MAX_SQRT_PRICE_X64
    BY DEF SwapRuns
  <1>4. p \in Int /\ limit \in Int
    BY <1>1, Unsigned
  <1>5. target = IF (limit > q) = s.a_to_b THEN limit ELSE q
    BY DEF get_next_sqrt_prices, sqrt_price_from_tick_index
  <1> HIDE DEF t, tick, p, limit, target
  <1>6. t \in MIN_TICK_INDEX..MAX_TICK_INDEX
    BY <1>1, <1>2
  <1>7. q \in Nat \ {0}
    BY <1>6, TickPrices
  <1>8. limit \in Nat \ {0}
    <2>1. MIN_TICK_INDEX \in MIN_TICK_INDEX..MAX_TICK_INDEX
          /\ MAX_TICK_INDEX \in MIN_TICK_INDEX..MAX_TICK_INDEX
      OBVIOUS
    <2>2. MIN_SQRT_PRICE_X64 \in Nat \ {0} /\ MAX_SQRT_PRICE_X64 \in Nat
      BY <2>1, TickPrices DEF MIN_SQRT_PRICE_X64, MAX_SQRT_PRICE_X64
    <2> QED BY <1>3, <1>4, <2>2
  <1>9. CASE s.a_to_b = TRUE
    <2>1. t <= tick /\ tick \in MIN_TICK_INDEX..MAX_TICK_INDEX /\ limit <= p
      BY <1>1, <1>2, <1>3, <1>6, <1>9
    <2>2. q <= SqrtPrice[tick] /\ SqrtPrice[tick] \in Nat
      BY <1>6, <2>1, PriceOrder, TickPrices
    <2>3. SqrtPrice[tick] <= p
      BY <1>3, <2>1 DEF PriceInTick
    <2>4. q <= p
      BY <1>4, <1>7, <2>2, <2>3
    <2> HIDE DEF q
    <2>5. (limit > q => target = limit) /\ (~(limit > q) => target = q)
      BY <1>5, <1>9
    <2>6. target \in {limit, q} /\ limit <= target /\ q <= target /\ target <= p
      BY <1>4, <1>7, <2>1, <2>4, <2>5
    <2>7. target \in Nat \ {0}
      BY <1>7, <1>8, <2>6
    <2> QED BY <1>6, <1>9, <2>1, <2>6, <2>7 DEF Heads, Towards, t, tick, p, limit, q, target
  <1>10. CASE s.a_to_b = FALSE
    <2>1. tick < t /\ tick + 1 \in MIN_TICK_INDEX..MAX_TICK_INDEX /\ tick + 1 <= t /\ p <= limit
      BY <1>1, <1>2, <1>3, <1>6, <1>10
    <2>2. SqrtPrice[tick + 1] <= q /\ SqrtPrice[tick + 1] \in Nat
      BY <1>6, <2>1, PriceOrder, TickPrices
    <2>3. p <= SqrtPrice[tick + 1]
      <3>1. tick < MAX_TICK_INDEX
        BY <1>1, <2>1
      <3> QED BY <1>3, <3>1 DEF PriceInTick
    <2>4. p <= q
      BY <1>4, <1>7, <2>2, <2>3
    <2> HIDE DEF q
    <2>5. (limit > q => target = q) /\ (~(limit > q) => target = limit)
      <3>1. target = IF (limit > q) = FALSE THEN limit ELSE q
        BY <1>5, <1>10, Zenon
      <3>2. (limit > q) \in BOOLEAN
        BY <1>4, <1>7
      <3> QED BY <3>1, <3>2, Zenon
    <2>6. target \in {limit, q} /\ target <= limit /\ target <= q /\ p <= target
      BY <1>4, <1>7, <2>1, <2>4, <2>5
    <2>7. target \in Nat \ {0}
      BY <1>7, <1>8, <2>6
    <2> QED BY <1>6, <1>10, <2>1, <2>6, <2>7 DEF Heads, Towards, t, tick, p, limit, q, target
  <1> QED BY <1>1, <1>9, <1>10

\* The tick after the iteration is the one the new price is in, and it has not
\* moved back.
LEMMA PriceMoves ==
    ASSUME NEW left \in BOOLEAN, NEW tick \in MIN_TICK_INDEX - 1..MAX_TICK_INDEX,
           NEW t \in MIN_TICK_INDEX..MAX_TICK_INDEX,
           NEW p \in Nat, NEW limit \in MIN_SQRT_PRICE_X64..MAX_SQRT_PRICE_X64,
           NEW target \in Nat, NEW next \in Nat,
           PriceInTick(p, tick), Between(next, p, target, left),
           IF left THEN t <= tick /\ limit <= target /\ SqrtPrice[t] <= target
                   ELSE tick < t /\ target <= limit /\ target <= SqrtPrice[t],
           NEW after,
           after = IF next = SqrtPrice[t] THEN TickAfter(t, left)
                   ELSE IF next # p THEN tick_index_from_sqrt_price(next) ELSE tick
    PROVE  /\ after \in MIN_TICK_INDEX - 1..MAX_TICK_INDEX
           /\ PriceInTick(next, after)
           /\ IF left THEN limit <= next /\ next <= p ELSE p <= next /\ next <= limit
           /\ IF left THEN after <= tick ELSE tick <= after
           /\ next = SqrtPrice[t] => after # tick
           /\ next # SqrtPrice[t] => IF left THEN t <= after ELSE after < t
  <1> USE TickIndexAssumption
  <1> DEFINE low == MIN_SQRT_PRICE_X64
             high == MAX_SQRT_PRICE_X64
             q == SqrtPrice[t]
  <1>1. low \in Nat /\ high \in Nat /\ limit \in Int /\ low <= limit /\ limit <= high
    <2>1. MIN_TICK_INDEX \in MIN_TICK_INDEX..MAX_TICK_INDEX
          /\ MAX_TICK_INDEX \in MIN_TICK_INDEX..MAX_TICK_INDEX
      OBVIOUS
    <2>2. low \in Nat /\ high \in Nat
      BY <2>1, TickPrices DEF MIN_SQRT_PRICE_X64, MAX_SQRT_PRICE_X64
    <2> QED BY <2>2
  <1>2. q \in Nat /\ low <= q /\ q <= high
    BY <1>1, TickPrices
  <1>3. p \in low..high
    BY DEF PriceInTick
  <1> HIDE DEF low, high
  <1>4. /\ IF left THEN limit <= next /\ next <= p ELSE p <= next /\ next <= limit
        /\ IF left THEN q <= next ELSE next <= q
    BY <1>1, <1>2 DEF Between
  <1>5. next \in low..high
    BY <1>1, <1>3, <1>4
  <1>6. CASE next = q
    <2>1. after = TickAfter(t, left)
      BY <1>6
    <2>2. after \in MIN_TICK_INDEX - 1..MAX_TICK_INDEX
      BY <2>1 DEF TickAfter
    <2>3. after >= MIN_TICK_INDEX => SqrtPrice[after] <= next
      <3> SUFFICES ASSUME after >= MIN_TICK_INDEX PROVE SqrtPrice[after] <= next
        OBVIOUS
      <3>1. after \in MIN_TICK_INDEX..MAX_TICK_INDEX /\ after <= t
        BY <2>1, <2>2 DEF TickAfter
      <3> QED BY <1>6, <3>1, PriceOrder
    <2>4. after < MAX_TICK_INDEX => next <= SqrtPrice[after + 1]
      <3> SUFFICES ASSUME after < MAX_TICK_INDEX PROVE next <= SqrtPrice[after + 1]
        OBVIOUS
      <3>1. after + 1 \in MIN_TICK_INDEX..MAX_TICK_INDEX /\ t <= after + 1
        BY <2>1, <2>2 DEF TickAfter
      <3> QED BY <1>6, <3>1, PriceOrder
    <2>5. (IF left THEN after <= tick ELSE tick <= after) /\ after # tick
      BY <2>1 DEF TickAfter
    <2>6. PriceInTick(next, after)
      BY <1>5, <2>3, <2>4 DEF PriceInTick, low, high
    <2> QED BY <1>4, <1>6, <2>2, <2>5, <2>6
  <1>7. CASE next # q /\ next # p
    <2>1. after = tick_index_from_sqrt_price(next)
      BY <1>7
    <2>2. /\ after \in MIN_TICK_INDEX..MAX_TICK_INDEX
          /\ SqrtPrice[after] <= next
          /\ after < MAX_TICK_INDEX => next < SqrtPrice[after + 1]
      BY <1>5, <2>1, TickOfPrice DEF low, high
    <2>3. SqrtPrice[after] \in Nat
      BY <2>2, TickPrices
    <2>4. after < MAX_TICK_INDEX =>
            after + 1 \in MIN_TICK_INDEX..MAX_TICK_INDEX /\ SqrtPrice[after + 1] \in Nat
      <3>1. after < MAX_TICK_INDEX => after + 1 \in MIN_TICK_INDEX..MAX_TICK_INDEX
        BY <2>2
      <3> QED BY <3>1, TickPrices
    <2>5. PriceInTick(next, after)
      BY <1>5, <2>2, <2>4 DEF PriceInTick, low, high
    <2>6. CASE left
      <3>1. next < p
        BY <1>4, <1>7, <2>6
      <3>2. ASSUME tick < after PROVE FALSE
        <4>1. tick + 1 \in MIN_TICK_INDEX..MAX_TICK_INDEX /\ tick + 1 <= after /\ tick < MAX_TICK_INDEX
          BY <2>2, <3>2
        <4>2. SqrtPrice[tick + 1] <= SqrtPrice[after] /\ SqrtPrice[tick + 1] \in Nat
          BY <2>2, <4>1, PriceOrder, TickPrices
        <4>3. p <= SqrtPrice[tick + 1]
          BY <4>1 DEF PriceInTick
        <4> QED BY <2>2, <2>3, <3>1, <4>2, <4>3
      <3>3. after <= tick
        BY <2>2, <3>2
      <3>4. ASSUME after < t PROVE FALSE
        <4>1. after < MAX_TICK_INDEX /\ after + 1 <= t
          BY <2>2, <3>4
        <4>2. SqrtPrice[after + 1] <= q
          BY <2>4, <4>1, PriceOrder
        <4>3. SqrtPrice[after + 1] \in Nat /\ next < SqrtPrice[after + 1] /\ q <= next
          BY <1>4, <2>2, <2>4, <2>6, <4>1
        <4> HIDE DEF q
        <4> QED BY <1>2, <4>2, <4>3
      <3>5. t <= after
        BY <2>2, <3>4
      <3> QED BY <1>4, <1>7, <2>2, <2>5, <2>6, <3>3, <3>5
    <2>7. CASE ~left
      <3>1. p < next
        BY <1>4, <1>7, <2>7
      <3>2. ASSUME after < tick PROVE FALSE
        <4>1. tick \in MIN_TICK_INDEX..MAX_TICK_INDEX /\ after < MAX_TICK_INDEX /\ after + 1 <= tick
          BY <2>2, <3>2
        <4>2. SqrtPrice[after + 1] <= SqrtPrice[tick] /\ SqrtPrice[tick] \in Nat
          BY <2>4, <4>1, PriceOrder, TickPrices
        <4>3. SqrtPrice[tick] <= p
          BY <4>1 DEF PriceInTick
        <4> QED BY <2>2, <2>4, <3>1, <4>1, <4>2, <4>3
      <3>3. tick <= after
        BY <2>2, <3>2
      <3>4. ASSUME t <= after PROVE FALSE
        <4>1. q <= SqrtPrice[after]
          BY <2>2, <3>4, PriceOrder
        <4> QED BY <1>2, <1>4, <1>7, <2>2, <2>3, <2>7, <4>1
      <3>5. after < t
        BY <2>2, <3>4
      <3> QED BY <1>4, <1>7, <2>2, <2>5, <2>7, <3>3, <3>5
    <2> QED BY <2>6, <2>7
  <1>8. CASE next # q /\ next = p
    <2>1. after = tick
      BY <1>8
    <2> QED BY <1>4, <1>8, <2>1
  <1> QED BY <1>6, <1>7, <1>8

LEMMA StepOfSwap ==
    ASSUME NEW s \in SwapRecords, NEW price, SwapRuns(s, price), Looping(s), pool \in PoolRecords,
           NEW found, found = NextTick(s), ~found.error,
           NEW c, c = Computation(s, found), ~c.error
    PROVE  LET target == get_next_sqrt_prices(found.tick_index, s.limit, s.a_to_b)
           IN  /\ Heads(s, found.tick_index, target)
               /\ StepResult(c, s.remaining, pool.fee_rate, s.liquidity, s.sqrt_price, target,
                             s.is_input, s.a_to_b)
  <1> DEFINE target == get_next_sqrt_prices(found.tick_index, s.limit, s.a_to_b)
             remaining == s.remaining
             fee_rate == pool.fee_rate
             L == s.liquidity
             p == s.sqrt_price
             is_input == s.is_input
             a_to_b == s.a_to_b
  <1>1. Heads(s, found.tick_index, target)
    BY TargetOfSwap
  <1>2. target \in Nat \ {0} /\ Towards(p, target, a_to_b)
    BY <1>1 DEF Heads
  <1>3. /\ remaining \in U64 /\ L \in U128 /\ p \in U128
        /\ is_input \in BOOLEAN /\ a_to_b \in BOOLEAN
    BY DEF SwapRecords
  <1>4. fee_rate \in 0..FEE_RATE_MUL_VALUE - 1
    BY PoolAssumption, FeeAssumption DEF PoolRecords
  <1>5. c = compute_swap(remaining, fee_rate, L, p, target, is_input, a_to_b)
    BY Zenon DEF Computation
  <1>6. p \in MIN_SQRT_PRICE_X64..MAX_SQRT_PRICE_X64
    BY DEF SwapRuns, PriceInTick
  <1> HIDE DEF target, remaining, fee_rate, L, p, is_input, a_to_b
  <1>7. L \in Nat
    BY <1>3, Unsigned
  <1>8. p \in Nat \ {0}
    <2>1. MIN_TICK_INDEX \in MIN_TICK_INDEX..MAX_TICK_INDEX
      BY TickIndexAssumption
    <2>2. MIN_SQRT_PRICE_X64 \in Nat \ {0}
      BY <2>1, TickPrices DEF MIN_SQRT_PRICE_X64
    <2>3. p \in Int
      BY <1>3, Unsigned
    <2> QED BY <1>6, <2>2, <2>3
  <1>9. StepResult(c, remaining, fee_rate, L, p, target, is_input, a_to_b)
    BY <1>2, <1>3, <1>4, <1>5, <1>7, <1>8, StepFacts
  <1> QED BY <1>1, <1>9, Zenon DEF target, remaining, fee_rate, L, p, is_input, a_to_b

LEMMA CrossedTyped ==
    ASSUME NEW tick \in TickRecords, NEW growth \in [Kinds -> U128], NEW active
    PROVE  next_tick_cross_update(tick, growth, active) \in TickRecords
  <1> DEFINE outside == [k \in Kinds |-> IF k \in active THEN WrapU128(growth[k] - tick.growth_outside[k])
                                         ELSE tick.growth_outside[k]]
  <1>1. tick.growth_outside \in [Kinds -> U128]
    BY DEF TickRecords
  <1>2. ASSUME NEW k \in Kinds PROVE WrapU128(growth[k] - tick.growth_outside[k]) \in U128
    <2>1. growth[k] \in Int /\ tick.growth_outside[k] \in Int
      BY <1>1, Unsigned
    <2>2. growth[k] - tick.growth_outside[k] \in Int
      BY <2>1
    <2> QED BY <2>2, Wraps
  <1>3. outside \in [Kinds -> U128]
    BY <1>1, <1>2
  <1>4. next_tick_cross_update(tick, growth, active) = [tick EXCEPT !.growth_outside = outside]
    BY DEF next_tick_cross_update
  <1> HIDE DEF outside
  <1> QED BY <1>3, <1>4 DEF TickRecords

LEMMA FeeGrowthTyped ==
    ASSUME NEW fee \in U64, NEW rate \in Nat, NEW liquidity \in U128, NEW growth \in U128
    PROVE  /\ calculate_protocol_fee(fee, rate) \in Int
           /\ FeeGrowth(fee, rate, liquidity, growth) \in U128
  <1> DEFINE x == fee * rate
             share == calculate_protocol_fee(fee, rate)
             y == (fee - share) * WORD
             z == y \div liquidity
  <1>1. fee \in Nat /\ liquidity \in Nat /\ growth \in Nat /\ WORD \in Nat
    BY Unsigned, Widths
  <1>2. x \in Int
    BY <1>1, ProductInt
  <1>3. share \in Int
    <2>1. share = x \div PROTOCOL_FEE_RATE_MUL_VALUE
      BY DEF calculate_protocol_fee
    <2> HIDE DEF x
    <2> QED BY <1>2, <2>1, FeeAssumption, DivisionOf
  <1> HIDE DEF share
  <1>4. y \in Int
    <2>1. fee - share \in Int
      BY <1>1, <1>3
    <2> QED BY <1>1, <2>1, ProductInt
  <1>5. FeeGrowth(fee, rate, liquidity, growth)
          = IF liquidity > 0 THEN WrapU128(growth + z) ELSE growth
    BY DEF FeeGrowth, share
  <1> HIDE DEF y
  <1>6. CASE liquidity > 0
    <2>1. liquidity \in Nat \ {0}
      BY <1>1, <1>6
    <2>2. z \in Int
      BY <1>4, <2>1, DivisionOf
    <2> HIDE DEF z
    <2>3. growth + z \in Int
      BY <1>1, <2>2
    <2>4. WrapU128(growth + z) \in U128
      BY <2>3, Wraps
    <2> QED BY <1>3, <1>5, <1>6, <2>4 DEF share
  <1>7. CASE ~(liquidity > 0)
    BY <1>3, <1>5, <1>7 DEF share
  <1> QED BY <1>6, <1>7

\* The price, the tick and the amounts of an iteration that succeeds.
LEMMA IterationMoves ==
    ASSUME NEW s \in SwapRecords, NEW price \in Nat, SwapRuns(s, price), Looping(s),
           pool \in PoolRecords, NEW found, found = NextTick(s),
           NEW c, c = Computation(s, found), IterationSucceeds(s, found, c),
           NEW after, after = Iteration(s, found, c)
    PROVE  /\ after.sqrt_price \in U128
           /\ after.tick \in MIN_TICK_INDEX - 1..MAX_TICK_INDEX
           /\ PriceInTick(after.sqrt_price, after.tick)
           /\ IF s.a_to_b THEN s.limit <= after.sqrt_price /\ after.sqrt_price <= s.sqrt_price
                          ELSE s.sqrt_price <= after.sqrt_price /\ after.sqrt_price <= s.limit
           /\ after.remaining \in U64 /\ after.calculated \in U64 /\ after.remaining <= s.remaining
           /\ IF s.a_to_b THEN after.tick <= s.tick ELSE s.tick <= after.tick
           /\ Looping(after) => after.tick # s.tick
           /\ ~Reaches(found, c) => IF s.a_to_b THEN found.tick_index <= after.tick
                                               ELSE after.tick < found.tick_index
  <1> DEFINE t == found.tick_index
             target == get_next_sqrt_prices(t, s.limit, s.a_to_b)
             q == SqrtPrice[t]
             next == c.next_price
             used == Used(s, c)
             counted == Counted(s, c)
             calculated == s.calculated
             left == s.a_to_b
             p == s.sqrt_price
             limit == s.limit
             tick == s.tick
             remaining == s.remaining
  <1>1. /\ ~found.error /\ ~c.error /\ used <= remaining /\ calculated + counted <= U64MAX
    BY Zenon DEF IterationSucceeds
  <1>2. /\ Heads(s, t, target)
        /\ StepResult(c, s.remaining, pool.fee_rate, s.liquidity, s.sqrt_price, target,
                      s.is_input, s.a_to_b)
    BY <1>1, StepOfSwap
  <1>3. /\ after.sqrt_price = next
        /\ after.tick = IF next = q THEN TickAfter(t, left)
                        ELSE IF next # p THEN tick_index_from_sqrt_price(next) ELSE tick
        /\ after.remaining = remaining - used
        /\ after.calculated = calculated + counted
        /\ after.limit = limit
    BY DEF Iteration, SwapRecords, Reaches, sqrt_price_from_tick_index
  <1>4. /\ left \in BOOLEAN /\ p \in U128 /\ limit \in U128 /\ remaining \in U64 /\ calculated \in U64
        /\ tick \in MIN_TICK_INDEX - 1..MAX_TICK_INDEX
    BY DEF SwapRecords
  <1>5. limit \in MIN_SQRT_PRICE_X64..MAX_SQRT_PRICE_X64 /\ PriceInTick(p, tick)
    BY DEF SwapRuns
  <1>6. /\ t \in MIN_TICK_INDEX..MAX_TICK_INDEX /\ target \in Nat
        /\ target = limit \/ target = q
        /\ IF left THEN t <= tick /\ limit <= target /\ q <= target
                   ELSE tick < t /\ target <= limit /\ target <= q
    BY <1>2 DEF Heads
  <1>7. /\ next \in Nat /\ Between(next, p, target, left)
        /\ c.amount_in \in U64 /\ c.amount_out \in U64 /\ c.fee_amount \in U64
        /\ next # target => used = remaining
    <2>1. used = UsedOf(c, s.is_input)
      BY DEF Used, UsedOf
    <2> QED BY <1>2, <2>1 DEF StepResult
  <1>8. used \in Nat /\ counted \in Nat
    <2>1. c.amount_in \in Nat /\ c.amount_out \in Nat /\ c.fee_amount \in Nat
      BY <1>7, Unsigned
    <2> QED BY <2>1 DEF Used, Counted
  <1>9. p \in Nat /\ limit \in Nat /\ remaining \in Nat /\ calculated \in Nat
    BY <1>4, Unsigned
  <1> HIDE DEF t, target, next, used, counted, calculated, left, p, limit, tick, remaining
  <1>10. /\ after.tick \in MIN_TICK_INDEX - 1..MAX_TICK_INDEX
         /\ PriceInTick(next, after.tick)
         /\ IF left THEN limit <= next /\ next <= p ELSE p <= next /\ next <= limit
         /\ IF left THEN after.tick <= tick ELSE tick <= after.tick
         /\ next = q => after.tick # tick
         /\ next # q => IF left THEN t <= after.tick ELSE after.tick < t
    BY <1>3, <1>4, <1>5, <1>6, <1>7, <1>9, PriceMoves
  <1>11. next \in U128
    <2>1. U128MAX \in Nat /\ p <= U128MAX /\ limit <= U128MAX
      BY <1>4, Unsigned, Widths
    <2>2. next <= U128MAX
      BY <1>7, <1>9, <1>10, <2>1
    <2> QED BY <1>7, <2>1, <2>2 DEF U128
  <1>12. /\ after.remaining \in U64 /\ after.calculated \in U64 /\ after.remaining <= remaining
    <2>1. U64MAX \in Nat /\ remaining <= U64MAX
      BY <1>4, Unsigned, Widths
    <2> QED BY <1>1, <1>3, <1>8, <1>9, <2>1 DEF U64
  <1>13. Looping(after) => after.tick # tick
    <2> SUFFICES ASSUME Looping(after) PROVE after.tick # tick
      OBVIOUS
    <2>1. after.remaining > 0 /\ limit # next
      BY <1>3 DEF Looping
    <2>2. used # remaining
      BY <1>3, <1>8, <1>9, <2>1
    <2>3. next = target
      BY <1>7, <2>2
    <2>4. next = q
      BY <1>6, <2>1, <2>3
    <2> QED BY <1>10, <2>4
  <1>14. ~Reaches(found, c) => IF left THEN t <= after.tick ELSE after.tick < t
    BY <1>10 DEF Reaches, sqrt_price_from_tick_index, next, t
  <1> QED BY <1>3, <1>10, <1>11, <1>12, <1>13, <1>14 DEF left, p, limit, tick, remaining, t

\* What an iteration writes to the record of a swap.
Updated(s, remaining, calculated, fee, growth, liquidity, marks, index, tick, price) ==
    [s EXCEPT !.remaining = remaining, !.calculated = calculated, !.protocol_fee = fee,
              !.growth = growth, !.liquidity = liquidity, !.ticks = marks,
              !.array_index = index, !.tick = tick, !.sqrt_price = price]

LEMMA UpdatedTyped ==
    ASSUME NEW s, NEW remaining, NEW calculated, NEW fee, NEW growth, NEW liquidity, NEW marks,
           NEW index, NEW tick, NEW price,
           /\ s \in SwapRecords /\ remaining \in U64 /\ calculated \in U64 /\ fee \in U64
           /\ growth \in [Kinds -> U128] /\ liquidity \in U128 /\ marks \in [Usable -> TickRecords]
           /\ index \in Nat /\ tick \in MIN_TICK_INDEX - 1..MAX_TICK_INDEX /\ price \in U128
    PROVE  Updated(s, remaining, calculated, fee, growth, liquidity, marks, index, tick, price)
               \in SwapRecords
  BY DEF SwapRecords, Updated

LEMMA IterationTyped ==
    ASSUME NEW s \in SwapRecords, NEW price \in Nat, SwapRuns(s, price), Looping(s),
           pool \in PoolRecords, NEW found, found = NextTick(s),
           NEW c, c = Computation(s, found), IterationSucceeds(s, found, c),
           NEW after, after = Iteration(s, found, c)
    PROVE  /\ after \in SwapRecords
           /\ after.amount = s.amount /\ after.limit = s.limit /\ after.a_to_b = s.a_to_b
           /\ after.array_index # 0
  <1> DEFINE t == found.tick_index
             share == calculate_protocol_fee(c.fee_amount, pool.protocol_fee_rate)
             growth == GrowthAfter(s, c)
             liquidity == LiquidityAfter(s, found, c)
             ticksAfter == TicksAfter(s, found, c)
             index == IF Reaches(found, c)
                      THEN ArrayAfter(s.arrays[found.array_index], found.array_index, t,
                                      TickSpacing, s.a_to_b)
                      ELSE s.array_index
             fee == WrapU64(s.protocol_fee + share)
  <1>1. ~found.error /\ ~c.error /\ liquidity # Err
    BY Zenon DEF IterationSucceeds
  <1>2. Sound(found, s.arrays, Initialized(s.ticks), s.tick, s.a_to_b, s.array_index)
    BY <1>1, SearchOfSwap
  <1>3. /\ s.liquidity \in U128 /\ s.growth \in [Kinds -> U128] /\ s.ticks \in [Usable -> TickRecords]
        /\ s.protocol_fee \in U64 /\ s.array_index \in Nat /\ s.array_index # 0 /\ s.a_to_b \in BOOLEAN
    BY DEF SwapRecords, SwapRuns
  <1>4. c.fee_amount \in U64
    <2>1. StepResult(c, s.remaining, pool.fee_rate, s.liquidity, s.sqrt_price,
                     get_next_sqrt_prices(found.tick_index, s.limit, s.a_to_b),
                     s.is_input, s.a_to_b)
      BY <1>1, StepOfSwap
    <2> QED BY <2>1 DEF StepResult
  <1>5. pool.protocol_fee_rate \in Nat
    BY PoolAssumption, FeeAssumption DEF PoolRecords
  <1>6. share \in Int
    BY <1>3, <1>4, <1>5, FeeGrowthTyped, Unsigned
  <1>7. growth \in [Kinds -> U128]
    <2>1. InputToken(s) \in Kinds
      BY KindSets DEF InputToken
    <2>2. s.growth[InputToken(s)] \in U128
      BY <1>3, <2>1
    <2>3. FeeGrowth(c.fee_amount, pool.protocol_fee_rate, s.liquidity, s.growth[InputToken(s)]) \in U128
      BY <1>3, <1>4, <1>5, <2>2, FeeGrowthTyped
    <2> QED BY <1>3, <2>3 DEF GrowthAfter
  <1> HIDE DEF growth, share
  <1>8. fee \in U64
    <2>1. s.protocol_fee + share \in Int
      BY <1>3, <1>6, Unsigned
    <2> QED BY <2>1, Wraps
  <1>9. Crosses(s, found, c) => t \in Usable
    <2>1. t \in Int /\ (IF s.a_to_b THEN MIN_TICK_INDEX <= t ELSE t <= MAX_TICK_INDEX)
      BY <1>2 DEF Sound
    <2> QED BY <2>1, TickIndexAssumption
        DEF Crosses, has_tick, check_is_usable_tick, check_is_out_of_bounds, Usable
  <1>10. liquidity \in U128
    <2>1. CASE Crosses(s, found, c)
      <3> DEFINE net == s.ticks[t].liquidity_net
                 delta == IF s.a_to_b THEN -net ELSE net
      <3>1. s.ticks[t] \in TickRecords
        BY <1>3, <1>9, <2>1
      <3>2. net \in Int
        BY <3>1, Widths DEF TickRecords
      <3>3. delta \in Int
        BY <3>2
      <3>4. liquidity = add_liquidity_delta(s.liquidity, delta)
        BY <2>1 DEF LiquidityAfter
      <3> HIDE DEF delta, liquidity
      <3> QED BY <1>1, <1>3, <3>3, <3>4, AddLiquidity, Unsigned
    <2>2. CASE ~Crosses(s, found, c)
      BY <1>3, <2>2 DEF LiquidityAfter
    <2> QED BY <2>1, <2>2
  <1>11. ticksAfter \in [Usable -> TickRecords]
    <2>1. CASE Crosses(s, found, c)
      <3>1. s.ticks[t] \in TickRecords
        BY <1>3, <1>9, <2>1
      <3>2. next_tick_cross_update(s.ticks[t], growth, Active(pool)) \in TickRecords
        BY <1>7, <3>1, CrossedTyped
      <3> QED BY <1>3, <2>1, <3>2 DEF TicksAfter, growth
    <2>2. CASE ~Crosses(s, found, c)
      BY <1>3, <2>2 DEF TicksAfter
    <2> QED BY <2>1, <2>2
  <1>12. index \in Nat /\ index # 0
    <2>1. found.array_index \in Nat /\ found.array_index # 0
      <3>1. s.arrays \in Seq(Starts)
        BY DEF SwapRecords
      <3> QED BY <1>2, <1>3, <3>1, LenProperties DEF Sound
    <2> QED BY <1>3, <2>1 DEF ArrayAfter
  <1> DEFINE remaining == s.remaining - Used(s, c)
             calculated == s.calculated + Counted(s, c)
             tick == IF Reaches(found, c) THEN TickAfter(t, s.a_to_b)
                     ELSE IF c.next_price # s.sqrt_price
                          THEN tick_index_from_sqrt_price(c.next_price) ELSE s.tick
             sqrtPrice == c.next_price
  <1>13. after = [s EXCEPT !.remaining = remaining, !.calculated = calculated, !.protocol_fee = fee,
                           !.growth = growth, !.liquidity = liquidity, !.ticks = ticksAfter,
                           !.array_index = index, !.tick = tick, !.sqrt_price = sqrtPrice]
    BY Zenon DEF Iteration, growth, share
  <1> HIDE DEF remaining, calculated, tick, sqrtPrice, fee, liquidity, ticksAfter, index
  <1>14. /\ sqrtPrice \in U128 /\ tick \in MIN_TICK_INDEX - 1..MAX_TICK_INDEX
         /\ remaining \in U64 /\ calculated \in U64
    <2>1. /\ after.sqrt_price = sqrtPrice /\ after.tick = tick
          /\ after.remaining = remaining /\ after.calculated = calculated
      BY <1>13 DEF SwapRecords
    <2> QED BY <2>1, IterationMoves
  <1>15. after \in SwapRecords
    <2>1. index \in Nat
      BY <1>12
    <2>2. s \in SwapRecords
      OBVIOUS
    <2> DEFINE u == Updated(s, remaining, calculated, fee, growth, liquidity, ticksAfter, index,
                            tick, sqrtPrice)
    <2>3. /\ s \in SwapRecords /\ remaining \in U64 /\ calculated \in U64 /\ fee \in U64
          /\ growth \in [Kinds -> U128] /\ liquidity \in U128
          /\ ticksAfter \in [Usable -> TickRecords]
          /\ index \in Nat /\ tick \in MIN_TICK_INDEX - 1..MAX_TICK_INDEX /\ sqrtPrice \in U128
      BY <1>7, <1>8, <1>10, <1>11, <1>14, <2>1, <2>2, Zenon
    <2>4. u \in SwapRecords
      BY <2>3, UpdatedTyped
    <2>5. after = u
      BY <1>13, Zenon DEF Updated
    <2> QED BY <2>4, <2>5, Zenon
  <1> QED BY <1>12, <1>13, <1>15 DEF SwapRecords

LEMMA SwapTyped ==
    ASSUME PoolInv, swap # NoSwap
    PROVE  /\ swap \in SwapRecords /\ pool \in PoolRecords /\ SwapRuns(swap, pool.sqrt_price)
           /\ pool.sqrt_price \in Nat
  <1>1. swap \in SwapRecords /\ pool \in PoolRecords /\ SwapRuns(swap, pool.sqrt_price)
    BY DEF PoolInv, TypeOK
  <1>2. pool.sqrt_price \in U128
    BY <1>1 DEF PoolRecords
  <1> QED BY <1>1, <1>2, Unsigned

LEMMA IterationKeepsInv ==
    ASSUME PoolInv, swap # NoSwap, NEW found, found = NextTick(swap),
           NEW c, c = Computation(swap, found), SwapIterates(found, c)
    PROVE  PoolInv'
  <1> DEFINE after == Iteration(swap, found, c)
             price == pool.sqrt_price
  <1>1. /\ Looping(swap) /\ IterationSucceeds(swap, found, c) /\ swap' = after
        /\ UNCHANGED <<pool, tick_arrays, ticks, positions, vault, clock>>
    BY DEF SwapIterates
  <1>2. /\ swap \in SwapRecords /\ pool \in PoolRecords /\ SwapRuns(swap, price) /\ price \in Nat
    BY SwapTyped
  <1>3. /\ after \in SwapRecords
        /\ after.amount = swap.amount /\ after.limit = swap.limit /\ after.a_to_b = swap.a_to_b
        /\ after.array_index # 0
    BY <1>1, <1>2, IterationTyped
  <1>4. /\ after.sqrt_price \in U128 /\ after.remaining \in U64
        /\ PriceInTick(after.sqrt_price, after.tick)
        /\ IF swap.a_to_b THEN swap.limit <= after.sqrt_price /\ after.sqrt_price <= swap.sqrt_price
                          ELSE swap.sqrt_price <= after.sqrt_price /\ after.sqrt_price <= swap.limit
        /\ after.remaining <= swap.remaining
    BY <1>1, <1>2, IterationMoves
  <1>5. /\ swap.sqrt_price \in Int /\ swap.remaining \in Int /\ swap.amount \in Int
        /\ after.sqrt_price \in Int /\ after.remaining \in Int
    <2>1. swap.sqrt_price \in U128 /\ swap.remaining \in U64 /\ swap.amount \in U64
      BY <1>2 DEF SwapRecords
    <2> QED BY <1>4, <2>1, Unsigned
  <1> HIDE DEF after, price
  <1>6. SwapRuns(after, price)
    <2>1. /\ swap.remaining <= swap.amount /\ swap.limit \in MIN_SQRT_PRICE_X64..MAX_SQRT_PRICE_X64
          /\ IF swap.a_to_b THEN swap.limit <= swap.sqrt_price /\ swap.sqrt_price <= price
                            ELSE price <= swap.sqrt_price /\ swap.sqrt_price <= swap.limit
      BY <1>2 DEF SwapRuns
    <2>2. after.remaining <= after.amount
      BY <1>3, <1>4, <1>5, <2>1
    <2>3. IF after.a_to_b THEN after.limit <= after.sqrt_price /\ after.sqrt_price <= price
                          ELSE price <= after.sqrt_price /\ after.sqrt_price <= after.limit
      BY <1>2, <1>3, <1>4, <1>5, <2>1
    <2> QED BY <1>3, <1>4, <2>1, <2>2, <2>3 DEF SwapRuns
  <1> QED BY <1>1, <1>3, <1>6 DEF PoolInv, TypeOK, price

LEMMA AmountsOfSwap ==
    ASSUME NEW s \in SwapRecords, s.remaining <= s.amount
    PROVE  /\ AmountIn(s) \in Nat /\ AmountOut(s) \in Nat
           /\ InputToken(s) \in Kinds /\ OutputToken(s) \in Kinds /\ InputToken(s) \in Tokens
           /\ InputToken(s) # OutputToken(s)
  <1>1. s.amount \in Nat /\ s.remaining \in Nat /\ s.calculated \in Nat
    <2>1. s.amount \in U64 /\ s.remaining \in U64 /\ s.calculated \in U64
      BY DEF SwapRecords
    <2> QED BY <2>1, Unsigned
  <1> QED BY <1>1, KindSets DEF AmountIn, AmountOut, InputToken, OutputToken

LEMMA CommitKeepsInv ==
    ASSUME PoolInv, SwapCommits
    PROVE  PoolInv'
  <1> DEFINE s == swap
             in == InputToken(s)
             out == OutputToken(s)
             ain == AmountIn(s)
             aout == AmountOut(s)
             fee == WrapU64(pool.protocol_fee_owed[in] + s.protocol_fee)
  <1>1. /\ s # NoSwap /\ CanSettle(s)
        /\ pool' = [pool EXCEPT
                        !.sqrt_price = s.sqrt_price,
                        !.tick_current_index = s.tick,
                        !.liquidity = s.liquidity,
                        !.growth = s.growth,
                        !.reward_last_updated_timestamp = clock,
                        !.protocol_fee_owed[in] = fee]
        /\ ticks' = s.ticks
        /\ vault' = [vault EXCEPT ![in] = @ + ain, ![out] = @ - aout]
        /\ swap' = NoSwap
        /\ UNCHANGED <<tick_arrays, positions, clock>>
    BY DEF SwapCommits
  <1>2. /\ s \in SwapRecords /\ pool \in PoolRecords /\ SwapRuns(s, pool.sqrt_price) /\ TypeOK
    BY <1>1, SwapTyped DEF PoolInv
  <1>3. /\ s.sqrt_price \in U128 /\ s.tick \in MIN_TICK_INDEX - 1..MAX_TICK_INDEX
        /\ s.liquidity \in U128 /\ s.growth \in [Kinds -> U128] /\ s.ticks \in [Usable -> TickRecords]
        /\ s.protocol_fee \in U64
    BY <1>2 DEF SwapRecords
  <1>4. PriceInTick(s.sqrt_price, s.tick) /\ s.remaining <= s.amount
    BY <1>2 DEF SwapRuns
  <1>5. ain \in Nat /\ aout \in Nat /\ in \in Kinds /\ out \in Kinds /\ in \in Tokens /\ in # out
    BY <1>2, <1>4, AmountsOfSwap
  <1>6. ain <= Supply - vault[in] /\ aout <= vault[out]
    BY <1>1 DEF CanSettle
  <1>7. fee \in U64
    <2>1. pool.protocol_fee_owed[in] \in U64
      BY <1>2, <1>5 DEF PoolRecords
    <2>2. pool.protocol_fee_owed[in] + s.protocol_fee \in Int
      BY <1>3, <2>1, Unsigned
    <2> QED BY <2>2, Wraps
  <1> HIDE DEF s, in, out, ain, aout, fee
  <1>8. vault' \in [Kinds -> 0..Supply]
    <2>1. vault \in [Kinds -> 0..Supply] /\ Supply \in Nat
      BY <1>2, KindSets DEF TypeOK
    <2>2. vault[in] \in 0..Supply /\ vault[out] \in 0..Supply
      BY <1>5, <2>1
    <2>3. vault[in] + ain \in 0..Supply /\ vault[out] - aout \in 0..Supply
      BY <1>5, <1>6, <2>1, <2>2
    <2> QED BY <1>1, <1>5, <2>1, <2>3
  <1>9. /\ pool' \in PoolRecords /\ pool'.sqrt_price = s.sqrt_price
        /\ pool'.tick_current_index = s.tick
    <2>1. clock \in Nat
      BY <1>2 DEF TypeOK
    <2>2. [pool.protocol_fee_owed EXCEPT ![in] = fee] \in [Tokens -> U64]
      BY <1>2, <1>5, <1>7 DEF PoolRecords
    <2> DEFINE owed == [pool.protocol_fee_owed EXCEPT ![in] = fee]
    <2>3. pool' = [pool EXCEPT
                        !.sqrt_price = s.sqrt_price,
                        !.tick_current_index = s.tick,
                        !.liquidity = s.liquidity,
                        !.growth = s.growth,
                        !.reward_last_updated_timestamp = clock,
                        !.protocol_fee_owed = owed]
      BY <1>1, <1>2 DEF PoolRecords
    <2> HIDE DEF owed
    <2> QED BY <1>2, <1>3, <2>1, <2>2, <2>3 DEF PoolRecords, owed
  <1>10. AccountsOK' /\ swap' = NoSwap
    BY <1>1, <1>2, <1>3, <1>8, <1>9 DEF AccountsOK, TypeOK
  <1> QED BY <1>4, <1>9, <1>10 DEF PoolInv, TypeOK, AccountsOK

LEMMA SwapKeepsInv ==
    ASSUME PoolInv, SwapNext
    PROVE  PoolInv'
  \* The swap in progress is thrown away.
  <1>1. ASSUME swap' = NoSwap, UNCHANGED <<pool, tick_arrays, ticks, positions, vault, clock>>
        PROVE  PoolInv'
    BY <1>1 DEF PoolInv, TypeOK
  <1>2. CASE swap # NoSwap /\ SwapSearches(NextTick(swap))
    <2> DEFINE found == NextTick(swap)
               c == Computation(swap, found)
    <2>1. SwapIterates(found, c) \/ SwapFails(found, c)
      BY <1>2, Zenon DEF SwapSearches, SwapLoops
    <2> HIDE DEF found, c
    <2>2. CASE SwapIterates(found, c)
      BY <1>2, <2>2, IterationKeepsInv DEF found, c
    <2>3. CASE SwapFails(found, c)
      BY <1>1, <2>3 DEF SwapFails
    <2> QED BY <2>1, <2>2, <2>3
  <1>3. CASE SwapCommits
    BY <1>3, CommitKeepsInv
  <1>4. CASE SwapRefused
    BY <1>1, <1>4 DEF SwapRefused
  <1> QED BY <1>2, <1>3, <1>4 DEF SwapNext

LEMMA PoolInvStep == PoolInv /\ [Next]_vars => PoolInv'
  <1> SUFFICES ASSUME PoolInv, [Next]_vars PROVE PoolInv'
    OBVIOUS
  <1>1. CASE UNCHANGED vars
    BY <1>1 DEF vars, PoolInv, TypeOK
  <1>2. CASE PositionNext
    BY <1>2, PositionKeepsInv
  <1>3. CASE AuthorityNext
    BY <1>3, AuthorityKeepsInv
  <1>4. CASE SwapNext
    BY <1>4, SwapKeepsInv
  <1>5. CASE \/ \E start \in Starts : InitializeTickArray(start)
             \/ \E r \in Rewards, amount \in FundAmounts : FundReward(r, amount)
             \/ \E now \in Times : ClockMoves(now)
    BY <1>5, OutsideKeepsInv
  <1>6. ASSUME NEW amount \in SwapAmounts, NEW threshold \in SwapThresholds, NEW limit \in SwapLimits,
               NEW is_input \in BOOLEAN, NEW a_to_b \in BOOLEAN, NEW arrays \in ArrayInputs,
               BeginSwap(amount, threshold, limit, is_input, a_to_b, arrays)
        PROVE  PoolInv'
    BY <1>6, BeginSwapKeepsInv
  <1> QED BY <1>1, <1>2, <1>3, <1>4, <1>5, <1>6 DEF Next

-----------------------------------------------------------------------------
(* Theorems. *)

\* Every field of every account and of a swap in progress stays within its
\* width, whatever the instructions' arguments and however often they wrap.
THEOREM TypesKept == Spec => []TypeOK
  <1>1. PoolInv => TypeOK
    BY DEF PoolInv
  <1> QED BY PoolInvInit, PoolInvStep, <1>1, PTL DEF Spec

LEMMA TickMatches == PoolInv => PriceMatchesTick
  <1> SUFFICES ASSUME PoolInv, NEW v \in Views PROVE PriceInTick(v.sqrt_price, v.tick)
    BY DEF PriceMatchesTick, PriceInTick
  <1>1. CASE v = Committed
    BY <1>1 DEF PoolInv, Committed
  <1>2. CASE swap # NoSwap /\ v = Working
    BY <1>2 DEF PoolInv, Working, SwapRuns
  <1> QED BY <1>1, <1>2 DEF Views

\* In every pool, after every instruction and every iteration of a swap, the
\* current tick is the one that the price is in.
THEOREM TickOfThePrice == Spec => []PriceMatchesTick
  BY PoolInvInit, PoolInvStep, TickMatches, PTL DEF Spec

LEMMA IterationsProgress == PoolInv => SwapProgresses
  <1> SUFFICES ASSUME PoolInv, swap # NoSwap, Looping(swap) PROVE SwapProgresses
    BY DEF SwapProgresses
  <1> DEFINE found == NextTick(swap)
             c == Computation(swap, found)
             next == Iteration(swap, found, c)
             ahead == IF swap.a_to_b THEN swap.tick - next.tick ELSE next.tick - swap.tick
  <1>1. /\ swap \in SwapRecords /\ pool \in PoolRecords /\ SwapRuns(swap, pool.sqrt_price)
        /\ pool.sqrt_price \in Nat
    BY SwapTyped
  <1>2. ASSUME IterationSucceeds(swap, found, c)
        PROVE  ahead >= 0 /\ (Looping(next) => ahead > 0)
    <2>1. /\ next.tick \in MIN_TICK_INDEX - 1..MAX_TICK_INDEX
          /\ IF swap.a_to_b THEN next.tick <= swap.tick ELSE swap.tick <= next.tick
          /\ Looping(next) => next.tick # swap.tick
      BY <1>1, <1>2, IterationMoves
    <2>2. next.tick \in Int /\ swap.tick \in Int
      BY <1>1, <2>1, TickIndexAssumption DEF SwapRecords
    <2> HIDE DEF next
    <2> QED BY <2>1, <2>2
  <1> QED BY <1>2, Zenon DEF SwapProgresses

\* No iteration of a swap moves the current tick back, and all but the last
\* move it on: in every pool a swap ends after at most one iteration per tick.
THEOREM SwapsEnd == Spec => []SwapProgresses
  BY PoolInvInit, PoolInvStep, IterationsProgress, PTL DEF Spec

\* What SwapHonoursRequest says of a step.
RequestHonoured ==
    (pool' # pool \/ vault' # vault) /\ swap # NoSwap =>
        LET paid == vault'[InputToken(swap)] - vault[InputToken(swap)]
            received == vault[OutputToken(swap)] - vault'[OutputToken(swap)]
            given == IF swap.is_input THEN paid ELSE received
        IN  /\ given <= swap.amount
            /\ given < swap.amount => pool'.sqrt_price = swap.limit
            /\ IF swap.a_to_b THEN pool'.sqrt_price \in swap.limit..pool.sqrt_price
                              ELSE pool'.sqrt_price \in pool.sqrt_price..swap.limit
            /\ IF swap.is_input THEN received >= swap.threshold ELSE paid <= swap.threshold

\* No instruction but the swap's last step touches the pool or a vault while it runs.
LEMMA OnlyCommitPays ==
    ASSUME [Next]_vars, pool' # pool \/ vault' # vault, swap # NoSwap
    PROVE  SwapCommits
  <1>1. \A id : ~ClosePosition(id) /\ ~UpdateFeesAndRewards(id) /\ ~CollectFees(id)
    BY DEF ClosePosition, UpdateFeesAndRewards, CollectFees
  <1>2. \A id, x, y : /\ ~OpenPosition(id, x, y) /\ ~IncreaseLiquidity(id, x, y)
                      /\ ~DecreaseLiquidity(id, x, y) /\ ~CollectReward(id, x)
    BY ZenonT(60) DEF OpenPosition, IncreaseLiquidity, DecreaseLiquidity, CollectReward
  <1>3. ~PositionNext
    BY <1>1, <1>2, Zenon DEF PositionNext
  <1>4. ~AuthorityNext
    BY DEF AuthorityNext, CollectProtocolFees, SetFeeRate, SetProtocolFeeRate, InitializeReward,
           SetRewardEmissions
  <1>5. /\ \A start : ~InitializeTickArray(start)
        /\ \A r, amount : ~FundReward(r, amount)
        /\ \A now : ~ClockMoves(now)
    BY DEF InitializeTickArray, FundReward, ClockMoves
  <1>6. \A amount, threshold, limit, is_input, a_to_b, arrays :
            ~BeginSwap(amount, threshold, limit, is_input, a_to_b, arrays)
    BY DEF BeginSwap
  <1>7. vars' # vars
    BY DEF vars
  <1>8. SwapNext
    BY <1>3, <1>4, <1>5, <1>6, <1>7, Zenon DEF Next
  <1>9. \A found, c : ~SwapIterates(found, c) /\ ~SwapFails(found, c)
    BY DEF SwapIterates, SwapFails
  <1>10. ~SwapRefused
    BY DEF SwapRefused
  <1> QED BY <1>8, <1>9, <1>10, Zenon DEF SwapNext, SwapSearches, SwapLoops

LEMMA CommitHonours == PoolInv /\ [Next]_vars => RequestHonoured
  <1> SUFFICES ASSUME PoolInv, [Next]_vars, pool' # pool \/ vault' # vault, swap # NoSwap
                 PROVE RequestHonoured
    BY DEF RequestHonoured
  <1> DEFINE in == InputToken(swap)
             out == OutputToken(swap)
             ain == AmountIn(swap)
             aout == AmountOut(swap)
             p == pool.sqrt_price
             q == swap.sqrt_price
             limit == swap.limit
             amount == swap.amount
             remaining == swap.remaining
  <1>1. SwapCommits
    BY OnlyCommitPays
  <1>2. /\ ~Looping(swap) /\ ThresholdMet(swap)
        /\ pool'.sqrt_price = q
        /\ vault' = [vault EXCEPT ![in] = @ + ain, ![out] = @ - aout]
    <2>1. pool \in PoolRecords
      BY SwapTyped
    <2> QED BY <1>1, <2>1 DEF SwapCommits, PoolRecords
  <1>3. /\ swap \in SwapRecords /\ SwapRuns(swap, p) /\ TypeOK /\ p \in Nat
    BY SwapTyped DEF PoolInv
  <1>4. /\ amount \in Nat /\ remaining \in Nat /\ q \in Nat /\ limit \in Nat /\ remaining <= amount
        /\ swap.a_to_b \in BOOLEAN /\ swap.is_input \in BOOLEAN
    <2>1. amount \in U64 /\ remaining \in U64 /\ q \in U128 /\ limit \in U128
      BY <1>3 DEF SwapRecords
    <2> QED BY <1>3, <2>1, Unsigned DEF SwapRecords, SwapRuns
  <1>5. /\ ain \in Nat /\ aout \in Nat /\ in \in Kinds /\ out \in Kinds /\ in # out
    BY <1>3, <1>4, AmountsOfSwap
  <1>6. /\ swap.is_input => ain = amount - remaining
        /\ ~swap.is_input => aout = amount - remaining
    BY DEF AmountIn, AmountOut
  <1>7. IF swap.is_input THEN aout >= swap.threshold ELSE ain <= swap.threshold
    <2>1. swap.threshold \in Nat
      <3>1. swap.threshold \in U64
        BY <1>3 DEF SwapRecords
      <3> QED BY <3>1, Unsigned
    <2>2. IF swap.is_input THEN swap.threshold <= aout ELSE swap.threshold >= ain
      BY <1>2 DEF ThresholdMet
    <2> QED BY <1>5, <2>1, <2>2
  <1>8. remaining > 0 => q = limit
    BY <1>2 DEF Looping
  <1>9. IF swap.a_to_b THEN q \in limit..p ELSE q \in p..limit
    BY <1>3, <1>4 DEF SwapRuns
  <1>10. /\ vault'[in] - vault[in] = ain
         /\ vault[out] - vault'[out] = aout
    <2> HIDE DEF in, out, ain, aout
    <2>1. vault \in [Kinds -> 0..Supply] /\ Supply \in Nat
      BY <1>3, KindSets DEF TypeOK
    <2>2. vault[in] \in Int /\ vault[out] \in Int
      BY <1>5, <2>1
    <2>3. vault'[in] = vault[in] + ain /\ vault'[out] = vault[out] - aout
      BY <1>2, <1>5, <2>1
    <2> QED BY <1>5, <2>2, <2>3
  <1> DEFINE given == IF swap.is_input THEN ain ELSE aout
  <1>11. given <= amount /\ (given < amount => q = limit)
    <2>1. given = amount - remaining
      BY <1>6
    <2> HIDE DEF given
    <2> QED BY <1>4, <1>8, <2>1
  <1> HIDE DEF ain, aout, in, out, q, limit, p, amount, remaining
  <1>12. /\ given <= amount
         /\ given < amount => pool'.sqrt_price = limit
         /\ IF swap.a_to_b THEN pool'.sqrt_price \in limit..p ELSE pool'.sqrt_price \in p..limit
         /\ IF swap.is_input THEN aout >= swap.threshold ELSE ain <= swap.threshold
    BY <1>2, <1>7, <1>9, <1>11
  <1> QED BY <1>10, <1>12, Zenon DEF RequestHonoured, in, out, q, limit, p, amount

\* A swap that is committed did what was asked, in every pool: no more of the
\* given amount than asked and all of it unless the price is at the limit, the
\* price not past the limit, and the other amount within the threshold.
THEOREM RequestsHonoured == Spec => SwapHonoursRequest
  <1>1. PoolInv /\ [Next]_vars => [RequestHonoured]_vars
    BY CommitHonours
  <1> QED BY PoolInvInit, PoolInvStep, <1>1, PTL DEF Spec, SwapHonoursRequest, RequestHonoured

=============================================================================
