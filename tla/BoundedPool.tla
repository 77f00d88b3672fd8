---------------------------- MODULE BoundedPool ----------------------------
(***************************************************************************)
(* The pool with bounds that make its state space finite: how often the    *)
(* operations that put something new into the pool may happen.  What only  *)
(* takes out or settles is not bounded.  Beside it a record is kept of     *)
(* what each reward emitted by its rates and what it paid out.             *)
(***************************************************************************)
EXTENDS Whirlpool

CONSTANTS
    FirstArrays,   \* tick arrays initialised right after the pool
    Budget         \* how often each bounded operation may happen

BoundedOps == {"array", "open", "increase", "swap", "rate", "emission", "fund", "clock"}

ASSUME BudgetAssumption == FirstArrays \subseteq Starts /\ Budget \in [BoundedOps -> Nat]

VARIABLES
    budget,
    emitted,   \* emissions per second times seconds, in units of 1 / WORD token
    paid       \* reward tokens paid out

boundedVars == <<vars, budget, emitted, paid>>

\* The clock emits, at the rates in force while it moves.  Time that passes
\* while nobody's liquidity is in range emits nothing, and neither does time
\* that was settled before the clock went back.
Record ==
    LET settled == pool.reward_last_updated_timestamp
        seconds == Max({clock', settled}) - Max({clock, settled})
    IN  /\ emitted' = [r \in Rewards |->
                emitted[r] + (IF pool.liquidity > 0 THEN pool.emissions[r] * seconds ELSE 0)]
        /\ paid' = [r \in Rewards |->
                paid[r] + (IF vault'[r] < vault[r] THEN vault[r] - vault'[r] ELSE 0)]

Spend(op) ==
    /\ budget[op] > 0
    /\ budget' = [budget EXCEPT ![op] = @ - 1]
    /\ Record

Free == UNCHANGED budget /\ Record

\* The state after initialize_tick_array for each of FirstArrays.
BoundedInit ==
    /\ \E price \in InitialPrices, fee_rate \in FeeRates, protocol_fee_rate \in ProtocolFeeRates :
        InitializePool(price, fee_rate, protocol_fee_rate)
    /\ tick_arrays = FirstArrays
    /\ budget = Budget
    /\ emitted = [r \in Rewards |-> 0]
    /\ paid = [r \in Rewards |-> 0]

BoundedNext ==
    \/ \E start \in Starts : InitializeTickArray(start) /\ Spend("array")
    \/ \E id \in PositionIds :
        \/ \E range \in RangeInputs : OpenPosition(id, range[1], range[2]) /\ Spend("open")
        \/ ClosePosition(id) /\ Free
        \/ \E amount \in LiquidityInputs, limits \in [Tokens -> TokenLimits] :
            \/ IncreaseLiquidity(id, amount, limits) /\ Spend("increase")
            \/ DecreaseLiquidity(id, amount, limits) /\ Free
        \/ UpdateFeesAndRewards(id) /\ Free
        \/ CollectFees(id) /\ Free
        \/ \E r \in Rewards : CollectReward(id, r) /\ Free
    \/ CollectProtocolFees /\ Free
    \/ \E rate \in FeeRates : SetFeeRate(rate) /\ Spend("rate")
    \/ \E rate \in ProtocolFeeRates : SetProtocolFeeRate(rate) /\ Spend("rate")
    \/ \E i \in 1..Len(RewardNames) : InitializeReward(i) /\ Free
    \/ \E r \in Rewards, emissions \in Emissions :
          SetRewardEmissions(r, emissions) /\ Spend("emission")
    \/ \E amount \in SwapAmounts, threshold \in SwapThresholds, limit \in SwapLimits,
          is_input, a_to_b \in BOOLEAN, arrays \in ArrayInputs :
          BeginSwap(amount, threshold, limit, is_input, a_to_b, arrays) /\ Spend("swap")
    \/ SwapNext /\ Free
    \/ \E r \in Rewards, amount \in FundAmounts : FundReward(r, amount) /\ Spend("fund")
    \/ \E now \in Times : ClockMoves(now) /\ Spend("clock")

BoundedSpec == BoundedInit /\ [][BoundedNext]_boundedVars

-----------------------------------------------------------------------------
\* A reward is never handed out beyond what it emitted: what was paid, what is
\* owed and what the positions have earned and not yet settled are together no
\* more than the rates in force over time, across changes of the rate, ticks
\* that are crossed or initialised before the reward is, and time without
\* liquidity.
RewardsWithinEmission ==
    \A r \in pool.rewards :
        LET claim(id) == positions[id].owed[r] + Earned(positions[id], InsideOf(Committed, id), r)
        IN  WORD * (paid[r] + MapThenSumSet(claim, Open)) <= emitted[r]

=============================================================================
