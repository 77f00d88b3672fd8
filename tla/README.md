# Formal models of Whirlpools

Whirlpools is a concentrated-liquidity market maker: a Solana program
(`programs/whirlpool`, Rust with Anchor) and the TypeScript client that reads
its accounts, quotes, routes and builds transactions for it (`sdk`). This
directory holds TLA+ models of both, TLC configurations that check them on
small instances, and TLAPS proofs for instances of every size. File names below
are relative to `src/programs/whirlpool/src` unless they start with `sdk`, which
stands for `src/sdk/src`.

## 1. The system

The program has no threads. Every instruction is atomic: the runtime locks the
accounts it writes, and an error of any constraint, check or call undoes the
whole transaction. What is concurrent is the *order* of instructions, which
anyone may send at any time, and the time between what a client reads and what
its transaction finds. Three things make the system hard:

- Dozens of instructions, sent in any order by parties that do not trust each
  other, must keep redundant pieces of state in step: liquidity of pool, ticks
  and positions; growth global, outside a tick and at a position's checkpoint;
  vaults and claims on them; bitmaps and accounts.
- Integer arithmetic of fixed width rounds, wraps or fails at every step, and
  the client repeats it in numbers without a width.
- The client decides from a snapshot. Prices, fees, token accounts and authorities
  may differ when its transactions arrive, and these may arrive in another order
  or not at all.

| Component | State | Operations | Interacts with | What makes it correct |
|---|---|---|---|---|
| Pool (`state/whirlpool.rs`, `manager/*`) | price, tick, liquidity, fee growth, protocol fees, rates | create, deposit, withdraw, settle, collect, rate setters | ticks, positions, vaults | liquidity is that of the positions in range; vaults cover all claims |
| Swap (`manager/swap_manager.rs`) | working copy of the pool | the loop, its commit or rollback | pool, ticks | price, tick and liquidity agree after every iteration; it progresses; it does what was asked |
| Ticks (`state/tick.rs`, `util/swap_tick_sequence.rs`) | arrays of ticks | create an array, cross, modify, search | pool, positions | no initialised tick is skipped or crossed twice |
| Position tokens and bundles (`state/position_bundle.rs`, `util/util.rs`) | token, bitmap, accounts | open and close positions, bundles and bundled positions; the token's own operations | positions | one controller per position; bitmap and accounts agree; nothing is stranded |
| Rewards (`manager/whirlpool_manager.rs`) | growth and rate of up to three rewards, time of last update | initialise, set emissions, accrue, collect | pool, ticks, clock | no more is paid than was emitted; no second is counted twice |
| Arithmetic (`math/*`) | none | amounts and prices with rounding, widths, overflow | all | rounds in the pool's favour, never past a target |
| Transfer fees (`util/v2/token.rs`) | none | amounts with and without a fee | v2 instructions | the two are inverse up to rounding |
| Two-hop swap (`instructions/two_hop_swap.rs`, `v2/`) | two pools | two swaps in one instruction | pools, vaults | what one pool pays is what the next takes |
| Governance (`state/config.rs`, `config_extension.rs`, `token_badge.rs`, setters) | authorities, default rates, badges | create, change, hand over, delete | pool and reward creation | power is only passed on; one pool per pair and spacing |
| SDK quotes (`sdk/quotes`) | none | swap, deposit, withdrawal | pool | a quote is what the program will do |
| SDK positions (`sdk/impl`, `sdk/instructions/composites`) | what was read | open, deposit, withdraw, collect, close, collect all | program, token accounts | transactions are accepted; nothing owed is lost, left or collected late |
| SDK router (`sdk/router`, `sdk/utils/graphs`) | graph, quotes, routes | find, rank, select, build | quotes, two-hop swap | every path is seen, the best are kept, limits hold |

## 2. Modules

| Module | Models | Extends |
|---|---|---|
| `PositionAccounts` | tokens, positions, bundles and bitmap; the token program's operations on them | |
| `TickIndex` | bounds and usability of ticks | |
| `PoolMath` | `math/*`: products, shifts, token deltas, next prices, `compute_swap` | `TickIndex` |
| `SwapStep` | one `compute_swap` as a step | `PoolMath` |
| `TickArrays` | start indexes, search ranges, offsets, the search over several arrays | `TickIndex` |
| `TickOrder` | abstract: what a swap promises of the ticks it passes | |
| `TickWalk` | the loop's path through arrays, without prices; implements `TickOrder` | `TickArrays` |
| `Whirlpool` | the pool: every instruction on it, the swap loop step by step | `PoolMath`, `TickArrays` |
| `BoundedPool` | budgets that make the pool finite; a record of rewards emitted and paid | `Whirlpool` |
| `TransferFee`, `FeeRoundTrip` | the fee of a mint and its inverse, in program and SDK; a swap filled in part | `PoolMath` |
| `SdkMath` | the client's arithmetic (`sdk/utils/math`) | `PoolMath` |
| `SwapQuote` | a swap from the SDK's loop over its arrays to the program's loop | `SdkMath`, `TransferFee`, `TickArrays` |
| `LiquidityQuotes` | deposits and withdrawals from quote to execution, the price moving between | `SdkMath`, `TransferFee` |
| `ClientLedger` | what client transactions do on chain: handlers reduced to their conditions and what they credit and pay | |
| `ClientTx` | instruction builders, resolution of token accounts, packing into transactions | `ClientLedger` |
| `ClosePosition`, `CollectAll`, `PositionTx` | the client's calls | `ClientTx` |
| `Wallet` | a wallet that makes these calls and submits, loses or reorders their transactions | the three |
| `GovernanceIx` | the SDK's builders of governing instructions, with the addresses they derive | |
| `Governance` | configs, extensions, badges, fee tiers, pools and rewards under them, who may change what | `GovernanceIx` |
| `PoolGraph` | the graph of pools and its walks | |
| `Selection` | the k-smallest partition | |
| `TradeRouter` | quote map, splits, ranking | `PoolGraph`, `Selection` |
| `RouteTx` | slippage, the transaction of a route, swap and both two-hop swaps | `TradeRouter` |
| `TradeRoutes` | a trade from search to execution while others trade | `RouteTx` |
| `OperatorProofs` | lemmas on arithmetic, transfer fees, and the search through arrays | `SdkMath`, `TransferFee`, `TickArrays` |
| `CalculationProofs` | theorems on a step of a swap, a swap's walk, a transfer fee and its inverse, quotes for deposits and withdrawals, and the partition | `SwapStep`, `TickWalk`, `FeeRoundTrip`, `LiquidityQuotes`, `Selection`, `OperatorProofs` |
| `WhirlpoolProofs` | theorems on types, prices and swaps of the pool | `Whirlpool`, `OperatorProofs` |
| `LiquidityProofs` | theorems on sums over positions: liquidity, growth, rewards and vaults | `WhirlpoolProofs`, `BoundedPool` |
| `SwapQuoteProofs` | theorems on a quote and the swap made from it | `SwapQuote`, `OperatorProofs` |
| `WalletProofs` | theorems on the client's transactions | `Wallet` |
| `PositionAccountsProofs`, `GovernanceProofs` | theorems | `PositionAccounts`, `Governance` |
| `MC…` | the instances for TLC | |

### How state and actions correspond to the code

**Atomicity and errors.** An action is a *successful* instruction; its guard is
the conjunction of all checks, and a failing instruction is no step. Where a
refusal matters (the client's side), execution is an operator that returns an
outcome, and the record of what was refused is state. The swap of `Whirlpool` is
split: `BeginSwap` does what comes before the loop, `SwapIterates` is one
iteration on the working copy `swap`, `SwapFails` an error inside the loop,
`SwapCommits` the threshold check, the write-back and the transfers, and
`SwapRefused` an error there. While `swap # NoSwap` no other action is enabled,
because the runtime locks the accounts; the split only makes every intermediate
state of the loop visible to the invariants, which look at both the committed
and the working view of the pool (`Views`).

**Pool.** `pool`, `ticks`, `positions` are the accounts of the same name.
`ticks` has an entry for every usable index; `tick_arrays` says which arrays
exist. Token a, token b and each reward go through the same code with a global
growth, a growth outside each tick, a checkpoint and an amount owed; they are
indexed here by a *kind*. `vault` holds what is in each vault; all other tokens
(up to `Supply`) belong to users, who may bring any part of them.

**Widths.** `WORD` stands for 2^64. `U64`, `U128` and `I128` are derived from it,
and every addition, subtraction, product and shift wraps, fails or stays exact
as in the code; `Err` is the error of an arithmetic function. The release build
has no overflow checks, so unchecked sums wrap (`WrapU64`). 256-bit intermediate
results are exact integers. The client's numbers have no width; `SdkMath` has its
explicit tests for one, and its roundings where they differ from the program's.

**Prices.** `SqrtPrice` is a table from tick to price, assumed to be increasing,
below 2^96 (`PriceWidthAssumption`) and, for `LeavingSucceeds`, not so dense that
the supply of a token could buy more liquidity than its type holds
(`SupplyAssumption`); `tick_index_from_sqrt_price` is its inverse.

**Callers.** `Whirlpool` does not ask who calls. `PositionAccounts` does for
positions, with delegates, close authorities and allowances as the token program
has them (those definitions are marked external), and reduces a position to what
`is_position_empty` tells apart. `Governance` does for everything else: an
instruction is a record of the accounts it names, any account may be named and
anyone may sign, and the action checks what Anchor's constraints check. Its pools
have no liquidity, protocol fees are a flag "owed", and the vault of a reward may
cover its emissions or not. `appointed` and `intruded` are history: whom the
founder of a configuration, or somebody so named, named to an authority; and who changed
something without being among them.

**The client's transactions.** `ClientLedger` keeps of a position its liquidity,
what is owed, and what is *grown* but not yet credited; the tokens of a
pool and their vaults are told apart, amounts are small. A transaction is a
sequence of instructions that a builder produced from a snapshot; its size is
counted in instructions (`TxSize`). The client's calls are the actions of
`Wallet` named after them; what the caller does not control between (swaps, emissions, another
application that creates or closes token accounts) is an event. Transactions of
one call are submitted in order, as its documentation asks; when one fails or is
lost, the rest are given up. Those of different calls interleave freely.
Each position has its own pool and vaults.

**The router.** A pool's curve is a constant product of two reserves with an end,
which is that of the price range (the trade is filled in part) or of the tick
arrays (it fails). That is coarse, but routing, splitting, rounding of shares,
limits and token accounts do not look into the curve. A quote (`QuoteSwap`) and the
program's swap (`Swap`) are two operators on it. They differ as `SwapQuote` and finding 1 show
of the real one: each step that takes in b may be rounded up or down by one where the
program's is not. Over a swap the sum of these is the pool's `skew`, how much more of b the
quote takes in; it is chosen for each pool with the initial state, may be of either sign, and applies to
exact inputs (less or more is left to trade) as to exact outputs (more or less is asked for).

## 3. Runs

| Run | Module | Properties | Shows |
|---|---|---|---|
| `position_accounts` | `PositionAccounts` | `TypeOK`, `BitmapMatchesAccounts`, `NoStrandedPosition`, `OneTokenPerMint` | No order of instructions and token operations lets bitmap, accounts and tokens drift apart |
| `calculations` | `SwapStep`, `FeeRoundTrip`, `LiquidityQuotes`, `Selection` | `StepSound`, `TransferFeeInverse`, `WithinInput`, `EstimateExact`, `LimitsCover`, `KeepsSmallest` | Four calculations on every input of a bounded range |
| `tick_walk` | `TickWalk` | `NoTickSkipped`, `GoodArraysWalked`, `ImplementsOrder` | The walk through any arrays crosses exactly the ticks it passes, in order, and ends |
| `pool` | `BoundedPool` | `TypeOK`, `LiquidityInRange`, `TicksMatchPositions`, `PriceMatchesTick`, `GrowthNeverRunsBack`, `EveryoneCanLeave`, `SwapHonoursRequest` | Two positions that may share ticks, two swaps, the other instructions in every order |
| `pool_edges` | `BoundedPool` | `PriceMatchesTick`, `SwapProgresses` | Either end of the price range, tick arrays created in any order, changing rates |
| `rewards` | `BoundedPool` | `RewardsWithinEmission`, `SettledTimeMonotone` | A reward with a changing rate, a clock that also goes back, a vault that falls short |
| `swap_quote` | `SwapQuote` | `ArraysSuffice`, `QuoteExact` | The quote's arrays suffice and it ends where the swap ends, unless b is the exact input; a swap of a for b is quoted exactly |
| `swap_quote_rounding` | `SwapQuote` | `QuotedSwapSucceeds` (violated) | Finding 1 below |
| `wallet` | `Wallet` | `RefusedOnlyFor`, `AloneNotRefused`, `NothingLeftBehind`, `EveryTaskOnce`, `CollectsToDate` | Why a client's transaction can be refused, and that nothing is lost or left |
| `close_skips_reward` | `Wallet` | `CloseWillClose` (violated) | Finding 2 below |
| `governance` | `Governance` | `OnePoolPerPair`, `PowerIsGranted`, `RewardsFromLowest`, `ClientAccepted` | Power is only passed on; prepared transactions stay valid |
| `trade_routes` | `TradeRoutes` | `RoutesComplete`, `BestFirst`, `LimitsKept`, `AcceptedAsQuoted`, `HopsBalance` | Every trade between three tokens over four pools, from search to execution |

`PROJECT.json` names for every property a mutation of the code model that breaks
it (`mutants`): a comparison turned strict, a reset dropped, a rounding swapped.
The mutated forms stand before the definitions they replace, marked *Mutant*.

The properties that carry most:

- `LiquidityInRange`, `TicksMatchPositions`: the redundant records of liquidity
  agree in every state, inside the swap loop too.
- `EveryoneCanLeave`: vaults cover, to the last token, the withdrawal of all
  positions at the current price together with all fees owed, earned but not
  settled, and the protocol's; and no full withdrawal fails. It depends on every
  rounding decision in the program.
- `GrowthNeverRunsBack`: growth inside a range, a difference of wrapping
  numbers, never falls behind a checkpoint, although ticks are reset and
  initialised anew with a different growth outside.
- `NoTickSkipped`, `ImplementsOrder`: arrays chosen by the caller, in whatever
  order, can make a swap fail but not jump over liquidity.
- `QuoteExact`, `ArraysSuffice`: two implementations of one loop, in two
  languages with two kinds of numbers and two kinds of arrays, agree, except
  where finding 1 lets them differ.
- `RefusedOnlyFor`: states every reason for which a transaction the client built
  can be refused; that the list is complete is the claim.
- `NothingLeftBehind`, `CollectsToDate`: a closed position leaves no fee, reward or
  wrapped SOL behind, and a collection includes what accrued until it executes,
  although updates are left out where the client takes them to have been done.
- `PowerIsGranted`: of all instructions that take a config, a pool and an
  authority, none can be used across configurations.
- `LimitsKept`: over all parts of a split and both hops, a trade costs no more than its
  tolerance allows.
- `AcceptedAsQuoted`: a route executed at once comes to what the program computes for
  each of its parts alone, so that no split, hop, account or wrapped SOL gets in the way. That is
  what was quoted if no hop takes in token b. With a hop that does, finding 1 lets quote and
  program differ: the trade costs or pays what the program's rounding makes of it, and is refused
  where that misses the limit, as an exact output quoted one short is with no tolerance. The
  property also says when `swapAsync` is refused for wrapping the wrong amount of SOL (below):
  exactly if that is more than there is or less than the swap takes.

### Findings

1. `sdk/utils/math/bit-math.ts:53` decides to round up by the quotient, where the
   program decides by the remainder (`math/bit_math.rs`). An exact output is
   quoted with one token b of input too few, or too many, and with no tolerance
   the swap is refused. The tolerance of ordinary use hides it. That is why
   `QuoteExact` excludes the input of b. For an *exact input* of b the quote may
   stop a tick short of where the program stops, or go on to the end of the range,
   and then name an array too few or another output: `QuoteExact` and
   `ArraysSuffice` say nothing of that direction, and the pools and amounts of
   the run include such cases (a price of 62 or 64, an amount of 2 or 32).
2. `sdk/impl/whirlpool-impl.ts:653` takes a place in a *filtered* list of rewards
   for a reward's index. A position that owes its second reward only asks for the
   first one in the second one's account, and the close is refused.

Smaller divergences met while modelling. They are modelled as the code has them,
without a run of their own:

- `sdk/utils/public/tick-utils.ts:62` says "rounding down"; line 66 rounds toward zero.
- `sdk/impl/whirlpool-impl.ts:497`: the fees to be collected at a close are tested
  net of the transfer fee, the rewards (line 511) gross, "even if all reward will
  be deducted".
- `sdk/impl/position-impl.ts:532`: the loop over rewards says "don't include" of one that was not
  asked for and leaves it with `break`, so the following ones are left out too.
- `sdk/whirlpool-client.ts:388` promises that a missing entry of
  `ownerTokenAccountMap` is resolved; `sdk/impl/position-impl.ts:389` throws.
- `set_reward_authority` documents an error for an index that is not the lowest
  uninitialised one (`lib.rs:456`); any index below three is accepted.
- `sdk/instructions/composites/swap-async.ts:46` wraps `amount` as SOL for an exact output too, where
  it is the amount of the other token: with too little of it the swap is refused, and with more than the
  wallet has, though the swap would take less. `AcceptedAsQuoted` states both.
- `sdk/router/quote-map.ts:312` rounds each share down; the shares of an exact
  output may miss it by less than a token each.
- `convert-quote-map.ts` ranks an exact output that a pool filled only in part as
  if it were filled; `TradeRoutes` has such routes.

### Bounds, and why they suffice

- `position_accounts`: one mint (no action on one mint reads or writes another,
  and the theorems hold for any number), two wallets, a bitmap of two bytes of two
  bits, one index beyond the end, approvals of 0, 1 and 2, the cases
  `verify_position_authority` tells apart.
- `calculations`: all with `WORD = 64`. `compute_swap` between *all* pairs of the prices
  11..16, 45..91 and some far ones, with liquidity from none to 4000,
  so that every combination of rounding up, down and exactly occurs, and
  overflows do; transfer fees with rates 0..10 of 10 and caps from
  none to out of reach; deposits and withdrawals over ticks -5..5, spacing 2, asked
  for on and off the grid, in every price of a list that holds ticks, neighbours
  of ticks and both sides of each range; the partition on every sequence of costs
  1..3 up to length 6, which has all patterns of ties.
- `tick_walk`: ticks -5..4 with spacing 2 and arrays of two slots. The range has
  four arrays, one starting below `MIN_TICK_INDEX`; the lowest tick is not usable, as
  -443636 is not for most spacings, the highest is. One to three arrays never cover
  all of it, so that running out of arrays happens.
- `pool`, `pool_edges`, `rewards`: ticks -5..5, `WORD = 64`, prices 64·√2^t, a fee
  of 3/16 and a protocol share of 1/2, a supply of 63. Large rates and small
  numbers make rounding errors large relative to amounts. Liquidity 25 and swaps
  of 3, 5, 20 and 60 tokens stop within a tick, on a tick, after crossing one or
  two, and at the price limit. `BoundedPool` counts the operations that bring
  something new (two positions, deposits and swaps at most); those that settle,
  withdraw or collect are not counted. Two is what sharing a tick, resetting and
  reinitialising it, and crossing back need. Positions are symmetric.
- `swap_quote`: the sets of four overlapping ranges whose tokens fit an account, prices on and between ticks
  from which both directions lead, current ticks right and left of a tick's price,
  three sets of existing arrays, amounts from 1 to more than there is, fees on
  neither, one or both tokens.
- `wallet`: two positions, one with wrapped SOL and a mint that withholds a fee,
  the other with a reward in SOL; two calls and two events, what an interleaving of two
  calls with a change before and between needs; transactions of five instructions,
  so that calls span several.
- `governance`: two configurations, two users and four mints (two plain, one that
  needs a badge, one never supported), seven instructions: enough to found both,
  create pools, and hand an authority over and back. Configurations and users are symmetric.
- `trade_routes`: five listings of four pools over three tokens (one pool is
  listed twice, two join the same pair), pools near the end of their
  price range or arrays, trades of 0 to 15, two sets of options (25 percent, three
  quotes, nine routes, three parts; 50 percent, two quotes, one route, two parts),
  transactions of four instructions, two events. Quotes take in one b less than the
  program, one more, or as much (`skew`): a swap of several steps can differ by more, but
  what happens to it is decided by which side of its limit it falls on. There
  are chains where a quote is refused for it, accepted within the tolerance, runs
  out of arrays, and where `swapAsync` wraps enough, too little, and more than there is.
- `CHECK_DEADLOCK FALSE` stands where the system may stop: a pool whose budget is
  spent and which is empty, a finished walk, quote or calculation, a wallet or trader
  with nothing left to submit, a governance whose steps are spent.

### Fairness

Only `TickWalk` assumes any: weak fairness of the loop's step, and `TickOrder` of
its own. It is justified because an instruction, once started, runs to its end or
to its error. `ImplementsOrder` therefore includes that the walk ends: `TickOrder`
is fair, so a walk that turned for ever without passing a tick would violate
it. In `Whirlpool` the end of the loop is stated without fairness, as the
invariant `SwapProgresses`: an iteration ends the loop or moves the tick on. Users
are never assumed to act, and transactions never to arrive.

## 4. Proofs

Every theorem holds for all values of the constants under the assumptions named
in the modules, which TLC evaluates in the runs. They say that sizes, bounds and
widths are numbers of the right sign, that prices rise with ticks and fit their type,
that `None`, `NoPosition` and `NoSwap` are none of the values they stand beside, that the
client is given positions that exist (`ListAssumption`), and that a wallet starts from chains as
the program keeps them (`StartsAssumption`, which `WalletsSound` shows of every later one).

| Property | Theorem | Module |
|---|---|---|
| `TypeOK`, `BitmapMatchesAccounts`, `NoStrandedPosition`, `OneTokenPerMint` | `TypeCorrect`, `BitmapAgrees`, `NothingStranded`, `OneHolder` | `PositionAccountsProofs` |
| `NoTickSkipped`, `GoodArraysWalked`, the safety part of `ImplementsOrder` | `EveryTickCrossed`, `GoodArraysSuffice`, `WalkFollowsOrder` | `CalculationProofs` |
| `StepSound`, `TransferFeeInverse`, `WithinInput`, `EstimateExact`, `LimitsCover`, `KeepsSmallest` | `EveryStepSound`, `FeeInverseExact`, `QuotedWithinInput`, `QuotesExact`, `LimitsHold`, `SmallestKept` | `CalculationProofs` |
| `TypeOK`, `PriceMatchesTick`, `SwapProgresses`, `SwapHonoursRequest`, `SettledTimeMonotone` | `TypesKept`, `TickOfThePrice`, `SwapsEnd`, `RequestsHonoured`, `SettledOnce` | `WhirlpoolProofs` |
| `LiquidityInRange`, `TicksMatchPositions`, `GrowthNeverRunsBack`, `RewardsWithinEmission`, `EveryoneCanLeave` | `LiquidityFollowsTick`, `TicksFollowPositions`, `GrowthStaysAhead`, `RewardsBacked`, `LeavingSucceeds` | `LiquidityProofs` |
| `ArraysSuffice`, `QuoteExact` | `QuoteNamesArrays`, `QuotedExactly` | `SwapQuoteProofs` |
| `PowerIsGranted`, `OnePoolPerPair`, `RewardsFromLowest`, `ClientAccepted` | `PowerPassedOn`, `PairHasOnePool`, `RewardsFilledInOrder`, `ClientIsAccepted` | `GovernanceProofs` |
| `NothingLeftBehind`, `CollectsToDate`, `EveryTaskOnce` | `NoneLeft`, `CollectedToDate`, `TasksDone`, over `WalletsSound` | `WalletProofs` |

**`PositionAccountsProofs`.** The inductive invariant is the conjunction of the
properties with `MintDecidesKind`: that opening a position or a bundle finds no token,
account or slot of that mint follows from none of the properties, because the
code never looks; it relies on the mint being new. Two arithmetic lemmas
(`IndexSplit`, `ToggleOne`), one about spending a token, one about all the token
program's operations at once, then one case per instruction.

**The walk of a swap,** in `CalculationProofs`, over `OperatorProofs`. Starts of arrays and usable ticks lie on one grid,
also the first array, which starts below the range (`StartOnGrid`,
`UsableOnGrid`); a tick on the grid within an array has its slot, and slots are
ordered as ticks are (`SlotOf`, `OffsetOrders`), so that `SlotsAhead` is exactly the
initialised ticks ahead within the array (`ArrayFound`, `ArrayPassed`). By the least
counterexample over arrays (`ReachesArray`), the search stands at the edge of an
array only when nothing initialised lies between there and its start, and what
it returns is the nearest tick or before it (`SearchSound`). `WalkInv` adds to
the property that the walk never turned back and, while it runs, is within the range.
It needs neither adjacent arrays nor the right first one: a wrong array fails
`in_search_range`. With adjacent arrays, `GoodInv` says that the walk is within
the search range of the array it is in, or has used them all.

**`CalculationProofs`,** over `OperatorProofs`. Division is defined by its remainder, and every
rounded quotient is pinned between two products (`Rounding`, `RoundedUp`,
`RoundedDown`). From these: an amount in moves the price no further than the
amount pays for, an amount out at least as far as it is worth (`ShortInputOfA`,
`ShortOutputOfA`, `ShortInputOfB`, `ShortOutputOfB`), so a step that was decided to stop short does
(`PriceStopsShort`), and the amounts recomputed from the price cost no more than
what remains (`AmountsCover`). The products are of unknowns, which the solver
does not settle in general; each such fact is a lemma, cited with its terms hidden.
The theorems assume of the inputs what their types say (`StepInputs`, `TripInputs`,
`QuoteInputs`, `PositionsExist`); `MCCalculations` assumes the same of its inputs. `QuoteInputs` also
asks that a range is given lower end first where the client does not compare the
ends (the tolerance on amounts).

For transfer fees one equivalence carries everything: the least amount from which *n*
is left (`BeforeFee`) is at most *x* exactly if the fee leaves *n* of *x* (`LeastBeforeFee`). At
the amount itself and at one less it shows that exactly *n* is left, and at one less
than *n* plus the cap that a capped fee is the cap (`SentInFull`); the program's check of its
own result and the SDK's formula agree case by case. A quote for a deposit rounds
down twice to liquidity and up once to tokens (`EstimateOfA`, `EstimateOfB`), on the part
of the range that the price leaves to the token (`EstimateWithin`), and `SentInFull`
bounds the fee that is added again (`DepositEstimate`).

`QuotesExact` and `LimitsHold` share the invariant `QuotedInv`: until it is used, a quote is what
the client's formulas give at the price it was asked at (`QuoteStands`), and the pool's tick is
on the side of every tick that its price is on, or at it (`TickSides`). Then the
program, which compares ticks, computes the client's estimate at the pool's price
(`DeltasAsEstimated`), where the two choose different branches because both amounts between a
price and itself are nothing (`NothingBetween`). The program computes in words and the client does
not: an estimate that is a u64 implies that no intermediate product overflowed
(`AmountAFits`, `AmountBFits`), because prices are below 2^96 (`PriceWidthAssumption`; the
widest denominator is the square of the highest price). For a deposit, the limit being a u64 is
enough, as the instruction would not hold it otherwise. For a withdrawal, what is there to be
withdrawn must be: `PositionsExist` says that the position's tokens, at every price within the
tolerance, are u64s, as those in a pool's vault are (`LeavingSucceeds`). The limits cover, because the
estimates fall or rise with the price (`EstimatesFollowPrice`), what is sent for an
amount to arrive is at most what is sent for a larger one (`IncludedWithin`), and a fee
leaves more of more (`FeeLeavesMore`). The root in the tolerance's bounds is one less than the
least number whose square is too large (`RootTyped`).

The partition's loops are functions from the number of rounds to the state, which exist
(`LoopExists`) and whose bound, the number of elements, is never what ends them. Of the inner loop `Meeting` is
kept: elements before `i` are at most the pivot, those after `j` at least, the two at `i` and `j` stop
the searches from the other side, so that neither leaves the part (`UpStops`, `DownStops`), and
an element equal to the pivot stays at one end, to be put between the two (`PlaceParts`). Of
the outer loop `Parted` is kept: the element asked for is in the part, or has been put in its place.

**`WhirlpoolProofs`.** `PoolInv` is `TypeOK`, the price being that of the tick, and, of a
swap in progress, that its price lies between the pool's and the limit, its remaining
amount is no more than asked for, and its array index is one of a search
(`SwapRuns`). Types are not inductive without it: the tick that is crossed, the
target and the amounts are in range only because the price is. An iteration is one
lemma on types (`IterationTyped`) and one on movement (`IterationMoves`) over
`SearchOfSwap` and `StepOfSwap`, which apply `OperatorProofs`. `SwapsEnd`
follows from `PoolInv`: an iteration that does not end the loop has reached its target,
which lies beyond the tick. For `SettledOnce` the invariant adds that
a swap in progress started no earlier than the time settled last: a swap checks the
time before its loop and writes it after, and the step that writes has no check of its own.
`PositionAssumption` says that there are finitely many position accounts.

**`SwapQuoteProofs`.** Two loops written twice, in two languages, are shown to run in
lockstep. The inductive invariant (`SwapInv`) speaks of a set `H` of states the quote went through: it
holds the pool's own state and the quote's last, and each of the others leads to one of the set
by the SDK's iteration (`Path`, `Iterates`); while the program trades, it is at one of them
(`Follows`). An iteration of the program then is the SDK's (`TradeRepeats`), for these reasons.

- *The search.* An array is found by the tick in the SDK and by a running index in the program.
  With arrays next to one another both find the first initialised tick ahead, or the end of
  the last array (`SdkSearch`, `ProgramFinds`, `SearchAgrees`). They differ when
  nothing is initialised ahead: the quote then looks to the end of all that was fetched, the
  program to the end of what it was sent. The quote has touched every array it looked
  into (`TouchedAre`), those arrays are a beginning of the sequence (`Prefix`,
  `TouchesNext`), and padding the list and dropping what is repeated gives them back (`ArraysSent`);
  hence what the program was sent reaches as far as the search it repeats.
- *The step.* The SDK's arithmetic has no width and another way to round b. Amounts of a and
  the prices reached by a are the same (`DeltaAAgrees`, `NextAgrees`), amounts of b out as well,
  unless they do not fit a u64 (`DeltaBAgrees`); of b in, they are not, which is finding 1. So an exact
  output of a is followed in price and output only, and its input not at all (`SdkStep`).
- *Widths.* The program's counter is a u64 and the SDK's is not. What the quote has paid out
  of b is no more than what the positions hold below the price it began at
  (`TakenOfB`, `HeldOfB`), and that fits the pool's account. An exact output whose input
  does not fit is not sent at all.
- *Going on.* A quote goes on only from an initialised tick, having crossed it (`GoesOn`): its
  tick and its liquidity are then those of the pool's books (`Placed`), which are never negative, so
  that the program's checked sum cannot fail. After the last iteration they may differ from the program's.
- *Fees.* The amounts that go in are the same (`AmountsAgree`), and so is what is sent and
  received at the end (`OutcomesAgree`, by `IncludedWithin`), which meets any threshold (`SlippageMoves`).

The theorems assume `CallsTyped` and `PoolsReal`: that every pool quoted on is one the program can be in.
Price, tick, liquidity and the net of each tick belong together (what `TickOfThePrice`,
`LiquidityFollowsTick` and `TicksFollowPositions` show of `Whirlpool`), ticks and arrays
are where they can be initialised, and the positions' tokens of b fit a u64, as `vault` does
(`LeavingSucceeds`). The instance `swap_quote` assumes the same of its pools, which TLC evaluates.

**`LiquidityProofs`.** Sums over finite sets come first: the folds of the community
modules are recursive choices, so that a sum is unfolded by well-founded
induction on the order of strict subsets (`SubsetInduction`, `SumsAgree`),
shown independent of the order of its terms (`TotalWithout`), and only then
used (`LiquidityTotal`). `LiquidityInv` has the books of `pool` and of the swap in
progress: liquidity is that of the positions in range, each tick's net and
gross liquidity that of the positions it bounds. Crossing a tick changes the set in
range by exactly the positions that the tick bounds (`RangeAtTick`); that a swap
passes no other end of a position is `SearchSound` again (`IterationPasses`).
For growth, the difference modulo `WORD * WORD` of what lies left of the two ends of a
range is kept by crossing, and by resetting and initialising a tick anew
(`IterationTurns`, `InsideWithin`, `TickUpdateOutside`, `ModifySettles`); it rises by as much
as the global growth or not at all (`GrowthRises`). `GrowthInv` says this of every position, and that no
initialised tick has more growth outside than there is. `GrowthStaysAhead` holds of
behaviours in which no global growth wraps past its own type
(`GrowthUnwrapped`, a condition on steps): after a wrap the property's comparison with the
global growth has no meaning, although the program's differences keep theirs.
The instance `pool` has no step that wraps.

`RewardsBacked` needs no such condition, as it speaks of differences only. What is
*due* to a position is counted in units of `1 / WORD` token: what it is owed, and its
liquidity times the growth within its range since its checkpoint, not rounded
(`Due`). What was paid, what is due to all positions and what the rates emitted
since the time settled last (`Pending`) are together at most what they emitted
(`RewardInv`); of a swap in progress the same without the last, as it settled the
rewards when it began. Settling moves what is pending to the positions in
range: the growth is rounded down, and the liquidity in range is the pool's
(`AccruesPending`, by `DuesRise` and the books above). Crediting a position rounds down
again and may wrap (`ModifyDues`); iterations of a swap leave every due as it was
(`IterationDues`), a clock that moves either way moves what is pending by as much as
what was emitted (`RecordEmits`). What the property sums is at most what is due, since
the growth inside that the program computes is `Within`, up to wrapping, for positions
with liquidity (`EarnedAtMost`); of a reward that is not initialised yet the ticks
hold no growth (`Dormant`). The theorem is about `BoundedSpec`, whose record of
emissions and payments is the only thing it adds to the steps of `Spec`
(`BoundedTakes`), with any budget.

`LeavingSucceeds` has two halves. *The vaults cover what can be taken away.* The amounts
between two prices are fractions: `L * (q - p) / WORD` of token b and
`L * WORD * (1 / p - 1 / q)` of token a. `Unit` is a number that every price divides, so
that in units of `1 / Scale = 1 / (WORD * Unit)` token both are whole, and the deltas that
the program computes are these rounded up or down (`AmountWorth`, over the last part of
`OperatorProofs`). A position's `Stake` is
what its liquidity is worth at the price, and `Worth` adds the fees due as above. The
invariant is `SolvencyInv`: for each token, on chain and as a swap in progress sees it,
`Worth <= Scale * (vault - protocol fees)`. A deposit brings at least what it is worth and
a withdrawal takes at most that (`DeltasWorth`); an iteration moves the price within the ranges
that hold the tick and no other (`IterationSweeps`), so that the stakes change by what the
pool's liquidity is worth over the step, which what came in covers and what went out is
covered by (`StepOfSwap`); and the fees that it adds to the growth are worth at most the
fee it took less the protocol's share (`IterationWorth`).
What is paid out is rounded down from a part of `Worth`, and the sum of the parts is within
the sum (`VaultsCover`). *No withdrawal fails.* What a withdrawal computes is within the
widths because the stakes are within `Scale * Supply`: the supply bounds the
liquidity that can lie within one tick (`NarrowLiquidity`), hence each tick's net and
gross liquidity (`EndsNarrow`), and the amounts (`DeltasSucceed`). Checked subtractions
succeed by the books above; arrays are never closed, so those of a position with
liquidity are there (`EndsInArrays`). The bound on liquidity needs `SupplyAssumption`,
which relates the supply of a token, the price table and the widths (with prices below
2^96, `PriceWidthAssumption`): 2^127 of liquidity
over any part of one tick would take more than 2^64 tokens of one of the two sides. The
program's constants satisfy it by a wide margin: prices are between 2^32 and 2^96, so
that one tick is at least 2^17 steps of price wide, and three would do.

**`GovernanceProofs`.** The inductive invariant has types; `Rooted` (extensions and
pools exist only under configurations that do); `Ordered` (a pool's address has its
mints in order, which with the address being unique makes one pool per
pair); `CallInv` (what the client prepared names mints); `Granted`, which is
`PowerIsGranted` field by field; and the order of rewards. One lemma per kind of
change (a field of a config, an extension, a pool, a reward), then one per group of
instructions. For `ClientIsAccepted`, `CallSound` keeps of a prepared call that its
addresses are those the program derives, that what it names exists (configurations,
tiers and pools are never closed), and that the client's answer on its mints is the
program's for the badges it saw.

**`WalletProofs`.** The client's code is loops over lists, and its model folds over sequences, whose
induction theorems take an operator as a parameter. `Apply` therefore names every loop body there
is, and what a fold returns is proved once, for any of them: a fold is a recursive choice over
the set of indices (`Values`), which has one solution, so that its result is the last of the values
the loop goes through (`Loop`); facts on these follow by induction on sets of numbers. With it, in turn:

- *Transactions are well formed.* Whatever a builder returns is made of its instructions in their
  forms, and creates a temporary account of wrapped SOL only together with the instruction
  that closes it (`Transactions`), through merging, resolving accounts and packing.
- *What an instruction leaves.* Each handler keeps the types of the chain (`Chain`), keeps everything
  credited that a position without liquidity can have, and lets a position be closed only
  when it is empty (`Settled`). A transaction that succeeds keeps both, by induction over its instructions, and ends with
  every temporary account closed that it created (`Tidy`). Swaps, emissions and other applications keep them.
- *Collections are up to date.* `collectAll` leaves the update out where the transaction under
  construction has one already or the position had no liquidity. That is a fact about the boundary between
  transactions: `Current` says of each transaction alone that what it collects from a position with
  liquidity it updates first, and packing keeps it, since a task that does not fit is constructed again
  with nothing remembered. After the update nothing in the transaction makes anything accrue.
- *Every task once.* The loop's state is what was built and what is left: the tasks done in the
  finished transactions, followed by those of the pending one, are the tasks so far, in order; a task that
  does not fit is neither dropped when the pending transaction is put away nor added to it.

`Sound` is the invariant: the chain is `Kept` and `Tidy`, and what waits in each queue is made
of such transactions, for any number of calls and in any order of submission. `CollectedToDate` speaks of positions whose liquidity is
what the cache knew and whose vaults can pay, as the property does.

Only model-checked:

- liveness (the fair part of `ImplementsOrder`) and ENABLED, which are outside the
  prover's reach here;
- the properties of `trade_routes`: the generation of routes is a recursive operator;
- `RefusedOnlyFor` and `AloneNotRefused`: why a transaction may be refused depends on which
  accounts each one of a list finds made by those before it.

## 5. Not modelled

- Prices from ticks and back (`math/tick_math.rs`): bit by bit on constants of 128
  bits, to be compared with real powers; out of TLC's reach. 256-bit division in
  words (`math/u256_math.rs`): comparing it with integer division needs operands of
  several words, more cases than TLC can enumerate.
- Metadata, events, logs, serialisation, account layout, entry points: nothing
  depends on them. Transfer hooks and memos: accounts handed on to other programs.
- Developer fees of a swap (`swapWithDevFees` and its quotes), `initTickArrayForTicks`,
  the estimated end tick of a quote (which may differ from the program's when the price does
  not leave a tick). Of `Decimal` in the bounds of a price tolerance, its precision: the bounds are
  the exact roots rounded towards 0, as `Decimal.set` asks (`sdk/index.ts:19`), without the loss
  of its 40 digits, which can make a root that is a whole number come out one lower.
- Quotes from accounts fetched at different times: a quote's snapshot is one state;
  the wallet and router modules have accounts that changed since, not snapshots that mix two states.
- Router: the sampling in the partition above 600 elements, lookup tables, price
  impact, the measured size of a serialised transaction (a count of
  instructions stands for it), missing tick arrays as a reason for a failed quote.
- The account cache (a wrapper of one in another repository), parsing, price
  calculation in US dollars, generated code.
- In `Governance`, an authority that was replaced keeps the reward
  authorities already copied into pools: that is what the code does, and the model
  has it; the properties do not call it an error.

## 6. What is left

1. The composition of `Wallet` with `Whirlpool`: the ledger's handlers stand for
   the pool's, by reading and not yet by a checked refinement.
