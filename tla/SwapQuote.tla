----------------------------- MODULE SwapQuote -----------------------------
(***************************************************************************)
(* A swap from its quote to its execution: the SDK fetches the pool and    *)
(* the tick arrays ahead of its price, runs its own copy of the swap loop  *)
(* (quotes/swap), and passes the arrays it touched and a threshold to the  *)
(* program, which runs its loop on the same pool.  Each iteration of       *)
(* either loop is a step.                                                  *)
(*                                                                         *)
(* The pool does not change in between.  Transfer fees are those of the    *)
(* input and of the output token.                                          *)
(***************************************************************************)
EXTENDS SdkMath, TransferFee, TickArrays, Functions

CONSTANTS
    MAX_SWAP_TICK_ARRAYS,  \* 3
    FeeRate,
    Pools,                 \* pools quoted on
    Calls,                 \* swaps asked for
    NoValue

ASSUME QuoteAssumption ==
    /\ MAX_SWAP_TICK_ARRAYS \in Nat \ {0}
    /\ FeeRate \in 0..FEE_RATE_MUL_VALUE - 1

VARIABLES
    pool,    \* sqrt_price, tick, liquidity, net (of every initialised tick), arrays
    call,    \* amount, isInput, aToB, limit, slippage, feeIn, feeOut
    phase,   \* what is going on, or how it ended
    quote,   \* the quote being made
    trade    \* the program's swap

vars == <<pool, call, phase, quote, trade>>

Initialized == DOMAIN pool.net
TicksPerArray == TicksInArray(TickSpacing)

\* The longest beginning of a sequence that is within a set.
Leading(s, set) ==
    SubSeq(s, 1, Max({n \in 0..Len(s) : \A i \in 1..n : s[i] \in set}))

\* The elements at some positions of a sequence, in order.
Selected(s, positions) ==
    [k \in 1..Cardinality(positions) |->
        s[CHOOSE i \in positions : Cardinality({j \in positions : j < i}) = k - 1]]

-----------------------------------------------------------------------------
(* What is quoted on *)

\* A pool the program can be in: the price is within its tick, arrays and ticks are
\* where they can be initialised.  depth is the liquidity at every tick, which
\* changes by the net of each; below is what the positions hold of b below
\* the price of a tick, in units of a WORD-th, and all that they hold of b
\* fits the pool's account.
RealPool(p, depth, below) ==
    /\ p.sqrt_price \in MIN_SQRT_PRICE_X64..MAX_SQRT_PRICE_X64
    /\ p.tick \in MIN_TICK_INDEX - 1..MAX_TICK_INDEX
    /\ p.tick >= MIN_TICK_INDEX => SqrtPrice[p.tick] <= p.sqrt_price
    /\ p.tick < MAX_TICK_INDEX => p.sqrt_price <= SqrtPrice[p.tick + 1]
    /\ p.arrays \subseteq Starts
    /\ DOMAIN p.net \subseteq Usable
    /\ p.net \in [DOMAIN p.net -> Int]
    /\ depth \in [MIN_TICK_INDEX - 1..MAX_TICK_INDEX -> U128]
    /\ depth[p.tick] = p.liquidity
    /\ \A t \in MIN_TICK_INDEX..MAX_TICK_INDEX :
           depth[t] = depth[t - 1] + (IF t \in DOMAIN p.net THEN p.net[t] ELSE 0)
    /\ below \in [MIN_TICK_INDEX..MAX_TICK_INDEX -> Nat]
    /\ \A t \in MIN_TICK_INDEX + 1..MAX_TICK_INDEX :
           below[t] = below[t - 1] + depth[t - 1] * (SqrtPrice[t] - SqrtPrice[t - 1])
    /\ p.tick >= MIN_TICK_INDEX =>
           below[p.tick] + p.liquidity * (p.sqrt_price - SqrtPrice[p.tick]) <= U64MAX * WORD

PoolsReal == \A p \in Pools : \E depth, below : RealPool(p, depth, below)

CallsTyped ==
    \A c \in Calls :
        /\ c.amount \in U64 /\ c.isInput \in BOOLEAN /\ c.aToB \in BOOLEAN /\ c.limit \in Nat
        /\ c.feeIn \in FeeSettings /\ c.feeOut \in FeeSettings
        /\ c.slippage.denominator \in Nat \ {0}
        /\ c.slippage.numerator \in 0..c.slippage.denominator

-----------------------------------------------------------------------------
(* swap-utils.ts: the arrays to fetch *)

\* getStartTickIndex, which throws outside of the tick range.
getStartTickIndex(t, offset) == (t \div TicksPerArray + offset) * TicksPerArray

StartRange == MinArrayStart(TickSpacing)..MAX_TICK_INDEX

getTickArrayPublicKeys(t, aToB) ==
    LET from == IF aToB THEN t ELSE t + TickSpacing
        start(i) == getStartTickIndex(from, IF aToB THEN 1 - i ELSE i - 1)
    IN  Leading([i \in 1..MAX_SWAP_TICK_ARRAYS |-> start(i)], StartRange)

\* TickArraySequence keeps the arrays before the first that does not exist.
Existing(keys) == Leading(keys, pool.arrays)

-----------------------------------------------------------------------------
(* tick-array-sequence.ts; a sequence runs in the swap's direction *)

SlotTick(t) == (t \div TickSpacing) * TickSpacing

SequenceTicks(sequence) ==
    UNION {{start + o * TickSpacing : o \in 0..TICK_ARRAY_SIZE - 1} : start \in Range(sequence)}

ArrayOf(t) == (t \div TicksPerArray) * TicksPerArray

InSequence(sequence, t) == ArrayOf(t) \in Range(sequence)

isValidTickArray0(sequence, t, aToB) ==
    in_search_range(sequence[1], t, TickSpacing, ~aToB)

SearchFrom(t, aToB) == IF aToB THEN t ELSE t + TickSpacing

Clamp(t) == Max({Min({t, MAX_TICK_INDEX}), MIN_TICK_INDEX})

\* The slots findNextInitializedTickIndex may look at, in order of the swap.
Ahead(sequence, t, aToB) ==
    {s \in SequenceTicks(sequence) :
        IF aToB THEN s <= SlotTick(SearchFrom(t, aToB)) ELSE s >= SlotTick(SearchFrom(t, aToB))}

\* The next initialised tick of the sequence, or its last index.
findNextInitializedTickIndex(ahead, aToB) ==
    LET found == ahead \cap Initialized
    IN  IF found # {} THEN IF aToB THEN Max(found) ELSE Min(found)
        ELSE Clamp(IF aToB THEN Min(ahead) ELSE Max(ahead) + TickSpacing - 1)

\* Mutant: only the array of the tick found counts as touched.
TouchedFound(ahead, next, aToB) == {ArrayOf(next)}

\* The arrays of the slots it looks at, up to the one found or to the last.
Touched(ahead, next, aToB) ==
    {ArrayOf(s) : s \in {s \in ahead : ahead \cap Initialized # {} =>
                                            IF aToB THEN s >= next ELSE s <= next}}

\* getTouchedArrays, padded with the last of them.
Padded(touched) ==
    [i \in 1..MAX_SWAP_TICK_ARRAYS |-> touched[Min({i, Len(touched)})]]

-----------------------------------------------------------------------------
(* swap-manager.ts and swap-quote-impl.ts *)

Loops(s) == s.remaining > 0 /\ s.sqrt_price # call.limit

\* The amount to compute the swap with.
Tradable ==
    IF call.isInput THEN calculateTransferFeeExcludedAmount(call.feeIn, call.amount)
                    ELSE calculateTransferFeeIncludedAmount(call.feeOut, call.amount)

\* The checks of simulateSwap before its loop.
Quotable(sequence, amount) ==
    /\ call.limit \in MIN_SQRT_PRICE_X64..MAX_SQRT_PRICE_X64
    /\ IF call.aToB THEN call.limit <= pool.sqrt_price ELSE call.limit >= pool.sqrt_price
    /\ call.amount > 0
    /\ sequence # <<>>
    /\ isValidTickArray0(sequence, pool.tick, call.aToB)
    /\ amount # Err
    /\ call.isInput => amount > 0

StartQuote(sequence, amount) ==
    /\ phase = "asked"
    /\ IF Quotable(sequence, amount)
       THEN /\ phase' = "quoting"
            /\ quote' = [sequence |-> sequence, tradable |-> amount, remaining |-> amount,
                         calculated |-> 0, sqrt_price |-> pool.sqrt_price, tick |-> pool.tick,
                         liquidity |-> pool.liquidity, touched |-> {}]
       ELSE phase' = "thrown" /\ UNCHANGED quote
    /\ UNCHANGED <<pool, call, trade>>

Ask == StartQuote(Existing(getTickArrayPublicKeys(pool.tick, call.aToB)), Tradable)

Target(t) ==
    LET price == SqrtPrice[t]
    IN  IF call.aToB THEN Max({call.limit, price}) ELSE Min({call.limit, price})

Used(c) == IF call.isInput THEN c.amount_in + c.fee_amount ELSE c.amount_out
Counted(c) == IF call.isInput THEN c.amount_out ELSE c.amount_in + c.fee_amount

Net(t) == IF t \in Initialized THEN pool.net[t] ELSE 0

\* Mutant: liquidity is added whichever way the tick is crossed.
AddsNet(liquidity, net) == liquidity + net

calculateNextLiquidity(liquidity, net) ==
    IF call.aToB THEN liquidity - net ELSE liquidity + net

QuoteIterates(ahead, next, c) ==
    LET reached == c.next_price = SqrtPrice[next]
    IN  /\ ~c.error
        /\ quote' = [quote EXCEPT
                        !.remaining = @ - Used(c),
                        !.calculated = @ + Counted(c),
                        !.liquidity = IF reached
                                      THEN calculateNextLiquidity(@, Net(SlotTick(next))) ELSE @,
                        !.tick = IF ~reached THEN tick_index_from_sqrt_price(c.next_price)
                                 ELSE IF call.aToB THEN next - 1 ELSE next,
                        !.sqrt_price = c.next_price,
                        !.touched = @ \cup Touched(ahead, next, call.aToB)]
        /\ UNCHANGED <<pool, call, phase, trade>>

QuoteComputes(ahead, next, c) ==
    \/ QuoteIterates(ahead, next, c)
    \/ c.error /\ phase' = "thrown" /\ UNCHANGED <<pool, call, quote, trade>>

\* The swap would go beyond the arrays: "traversed too many arrays".
QuoteRunsOut ==
    /\ phase = "quoting"
    /\ Loops(quote)
    /\ ~InSequence(quote.sequence, SearchFrom(quote.tick, call.aToB))
    /\ phase' = "thrown"
    /\ UNCHANGED <<pool, call, quote, trade>>

\* The values computed on the way are bound one by one: the slots ahead, the
\* next tick and the step towards it.
QuoteStep ==
    /\ phase = "quoting"
    /\ Loops(quote)
    /\ InSequence(quote.sequence, SearchFrom(quote.tick, call.aToB))
    /\ \E ahead \in {Ahead(quote.sequence, quote.tick, call.aToB)} :
       \E next \in {findNextInitializedTickIndex(ahead, call.aToB)} :
       \E c \in {computeSwapStep(quote.remaining, FeeRate, quote.liquidity, quote.sqrt_price,
                                 Target(next), call.isInput, call.aToB)} :
           QuoteComputes(ahead, next, c)

\* calculateEstTokens, and the transfer fees on the outcome.
EstimateIn ==
    LET needed == IF call.isInput THEN quote.tradable - quote.remaining ELSE quote.calculated
    IN  IF call.isInput /\ quote.remaining = 0 THEN call.amount
        ELSE calculateTransferFeeIncludedAmount(call.feeIn, needed)

EstimateOut ==
    calculateTransferFeeExcludedAmount(call.feeOut,
        IF call.isInput THEN quote.calculated ELSE quote.tradable - quote.remaining)

\* calculateSwapAmountsFromQuote
Threshold(in, out) ==
    IF call.isInput THEN adjustForSlippage(out, call.slippage, FALSE)
                    ELSE adjustForSlippage(in, call.slippage, TRUE)

\* In the order of the sequence.
TouchedArrays ==
    Selected(quote.sequence,
             {i \in 1..Len(quote.sequence) : quote.sequence[i] \in quote.touched})

\* The default otherAmountThreshold of an exact output is the largest u64.  A
\* quote that touched no array cannot be sent: the accounts are undefined.
QuoteEnds(in, out) ==
    /\ phase = "quoting"
    /\ ~Loops(quote)
    /\ IF in = Err \/ in > U64MAX \/ quote.touched = {} THEN phase' = "thrown" /\ UNCHANGED trade
       ELSE /\ phase' = "sent"
            /\ trade' = [estimateIn |-> in, estimateOut |-> out, threshold |-> Threshold(in, out),
                         arrays |-> Padded(TouchedArrays)]
    /\ UNCHANGED <<pool, call, quote>>

FinishQuote == QuoteEnds(EstimateIn, EstimateOut)

-----------------------------------------------------------------------------
(* The program: swap_manager.rs within v2/swap.rs *)

\* The same account twice is not borrowed twice: it is dropped.
Distinct(arrays) ==
    Selected(arrays, {i \in 1..Len(arrays) : \A j \in 1..i - 1 : arrays[j] # arrays[i]})

\* The amount the program's swap is computed with.
ProgramAmount ==
    IF call.isInput THEN calculate_transfer_fee_excluded_amount(call.feeIn, call.amount)
                    ELSE calculate_transfer_fee_included_amount(call.feeOut, call.amount)

Execute(amount) ==
    /\ phase = "sent"
    /\ IF amount \in {0, Err} THEN phase' = "refused" /\ UNCHANGED trade
       ELSE /\ phase' = "trading"
            /\ trade' = [estimateIn |-> trade.estimateIn, estimateOut |-> trade.estimateOut,
                         threshold |-> trade.threshold, arrays |-> Distinct(trade.arrays),
                         tradable |-> amount, remaining |-> amount, calculated |-> 0,
                         sqrt_price |-> pool.sqrt_price, tick |-> pool.tick,
                         liquidity |-> pool.liquidity, index |-> 1, cause |-> NoValue]
    /\ UNCHANGED <<pool, call, quote>>

Send == Execute(ProgramAmount)

Refuse(cause) ==
    /\ phase' = "refused"
    /\ trade' = [trade EXCEPT !.cause = cause]
    /\ UNCHANGED <<pool, call, quote>>

Crossed(found, c) ==
    /\ c.next_price = sqrt_price_from_tick_index(found.tick_index)
    /\ has_tick(trade.arrays[found.array_index], found.tick_index, TickSpacing)

LiquidityAfter(found, c) ==
    LET net == IF Crossed(found, c) THEN Net(found.tick_index) ELSE 0
    IN  add_liquidity_delta(trade.liquidity, IF call.aToB THEN -net ELSE net)

IterationFails(found, c) ==
    \/ c.error
    \/ Used(c) > trade.remaining
    \/ trade.calculated + Counted(c) > U64MAX
    \/ LiquidityAfter(found, c) = Err

TradeIterates(found, c) ==
    LET t == found.tick_index
        reached == c.next_price = sqrt_price_from_tick_index(t)
    IN  trade' = [trade EXCEPT
                    !.remaining = @ - Used(c),
                    !.calculated = @ + Counted(c),
                    !.liquidity = LiquidityAfter(found, c),
                    !.index = IF reached
                              THEN ArrayAfter(trade.arrays[found.array_index], found.array_index, t,
                                              TickSpacing, call.aToB)
                              ELSE @,
                    !.tick = IF reached THEN TickAfter(t, call.aToB)
                             ELSE IF c.next_price # trade.sqrt_price
                                  THEN tick_index_from_sqrt_price(c.next_price) ELSE @,
                    !.sqrt_price = c.next_price]

TradeComputes(found, c) ==
    \/ IterationFails(found, c) /\ Refuse("computation")
    \/ ~IterationFails(found, c) /\ TradeIterates(found, c) /\ UNCHANGED <<pool, call, phase, quote>>

TradeMoves(found) ==
    \/ found.error /\ Refuse("arrays")
    \/ /\ ~found.error
       /\ \E c \in {compute_swap(trade.remaining, FeeRate, trade.liquidity, trade.sqrt_price,
                                 Target(found.tick_index), call.isInput, call.aToB)} :
              TradeComputes(found, c)

TradeStep ==
    /\ phase = "trading"
    /\ Loops(trade)
    /\ \E found \in {get_next_initialized_tick_index(trade.arrays, Initialized, trade.tick,
                                                    TickSpacing, call.aToB, trade.index)} :
           TradeMoves(found)

\* What the trader pays, and receives, transfer fees included.
PaidIn ==
    LET needed == IF call.isInput THEN trade.tradable - trade.remaining ELSE trade.calculated
    IN  IF call.isInput /\ trade.remaining = 0 THEN call.amount
        ELSE calculate_transfer_fee_included_amount(call.feeIn, needed)

ReceivedOut ==
    calculate_transfer_fee_excluded_amount(call.feeOut,
        IF call.isInput THEN trade.calculated ELSE trade.tradable - trade.remaining)

Settle(in, out) ==
    /\ phase = "trading"
    /\ ~Loops(trade)
    /\ \/ in = Err /\ Refuse("fee")
       \/ /\ in # Err
          /\ IF call.isInput THEN out < trade.threshold ELSE in > trade.threshold
          /\ Refuse("threshold")
       \/ /\ in # Err
          /\ IF call.isInput THEN out >= trade.threshold ELSE in <= trade.threshold
          /\ phase' = "traded"
          /\ UNCHANGED <<pool, call, quote, trade>>

FinishTrade == Settle(PaidIn, ReceivedOut)

-----------------------------------------------------------------------------
Init ==
    /\ pool \in Pools
    /\ call \in Calls
    /\ phase = "asked"
    /\ quote = NoValue
    /\ trade = NoValue

Next ==
    \/ Ask
    \/ QuoteStep
    \/ QuoteRunsOut
    \/ FinishQuote
    \/ Send
    \/ TradeStep
    \/ FinishTrade

Spec == Init /\ [][Next]_vars

-----------------------------------------------------------------------------
\* An exact input of token b is where the rounding of the SDK decides how far
\* the quote goes: it may stop short of the program, or go further.
InputOfB == ~call.aToB /\ call.isInput

\* Unless b is the exact input, the program never asks for an array that the
\* quote did not name: its search reads no array but those the quote's search
\* touched, whatever arrays do not exist, are left out or are repeated to fill
\* the list.
ArraysSuffice == phase = "refused" /\ ~InputOfB => trade.cause # "arrays"

\* A quote of a for b is exact: the swap is accepted without any tolerance and
\* pays and receives what the quote said, with partial fills, missing arrays and
\* transfer fees on both sides.  So it is for an exact output of a that is
\* accepted, which ends at the quoted price and pays out the quoted amount: only
\* its input may be quoted too low or too high.
QuoteExact ==
    /\ call.aToB => phase # "refused"
    /\ phase = "traded" /\ ~InputOfB =>
          /\ ReceivedOut = trade.estimateOut /\ trade.sqrt_price = quote.sqrt_price
          /\ call.aToB => PaidIn = trade.estimateIn

\* A quote holds the parameters "needed to successfully complete this trade on
\* chain": the pool it was made on does not refuse it.
QuotedSwapSucceeds == phase # "refused"

=============================================================================
