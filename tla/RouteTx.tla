------------------------------- MODULE RouteTx -------------------------------
(***************************************************************************)
(* The transaction of a route (instructions/composites/swap-with-route.ts, *)
(* swap-async.ts) and what the program does with it: the swap and both     *)
(* versions of the two-hop swap, in the trader's token accounts.           *)
(***************************************************************************)
EXTENDS TradeRouter

CONSTANT Native     \* the mint of wrapped SOL

-----------------------------------------------------------------------------
(* Slippage.  A percentage is [numerator, denominator].                     *)

adjustForSlippage(n, slippage, adjustUp) ==
    LET total == slippage.denominator + slippage.numerator
    IN  IF adjustUp THEN (n * total) \div slippage.denominator
                    ELSE (n * slippage.denominator) \div total

calculateSwapAmountsFromQuote(hop, slippage, isInput) ==
    adjustForSlippage(IF isInput THEN hop.estimatedOut ELSE hop.estimatedIn, slippage, ~isInput)

\* Mutant: both hops of an exact output are limited by the last one.
AdjustLast(quote, slippage, isInput) ==
    calculateSwapAmountsFromQuote(quote.hops[Len(quote.hops)], slippage, isInput)

\* The limit is on the output of the last hop, or on the input of the first.
adjustQuoteForSlippage(quote, slippage, isInput) ==
    calculateSwapAmountsFromQuote(IF isInput THEN Last(quote.hops) ELSE Head(quote.hops), slippage, isInput)

-----------------------------------------------------------------------------
(* Instructions and the accounts they are given.                            *)

swapIx(hop, threshold, isInput) ==
    [op |-> "swap", hop |-> hop, amount |-> hop.amount, threshold |-> threshold, isInput |-> isInput]

\* Mutant: the amount is always that of the first hop.
AmountOfFirst(quote, threshold, isInput) ==
    [op |-> "twoHop", one |-> quote.hops[1], two |-> quote.hops[2], threshold |-> threshold,
     amount |-> quote.hops[1].amount, isInput |-> isInput]

\* The amount is that of the first hop's input or of the last hop's output.
twoHopSwapQuoteFromSwapQuotes(quote, threshold, isInput) ==
    [op |-> "twoHop", one |-> quote.hops[1], two |-> quote.hops[2], threshold |-> threshold,
     amount |-> IF isInput THEN quote.hops[1].amount ELSE quote.hops[2].amount, isInput |-> isInput]

twoHopSwapIx(quote, threshold, isInput) == twoHopSwapQuoteFromSwapQuotes(quote, threshold, isInput)
twoHopSwapV2Ix(quote, threshold, isInput) ==
    [twoHopSwapQuoteFromSwapQuotes(quote, threshold, isInput) EXCEPT !.op = "twoHopV2"]

\* What is wrapped for a part of the route that starts with SOL.
InputAmount(quote, threshold, isInput) ==
    IF ~isInput THEN threshold
    ELSE IF Len(quote.hops) = 1 THEN quote.hops[1].amount ELSE quote.hops[1].estimatedIn

MintsOf(quote) == UNION {{h.inputMint, h.outputMint} : h \in ToSet(quote.hops)}

createWrappedNativeAccountInstruction(amount) ==
    [body |-> <<[op |-> "wrap", amount |-> amount]>>, cleanup |-> <<[op |-> "unwrap"]>>]

\* A token account that does not exist is created, and closed again after the
\* swaps when it only holds what passes between two pools.
CreateATA(mint, intermediates) ==
    [body |-> <<[op |-> "create", mint |-> mint]>>,
     cleanup |-> IF mint \in intermediates THEN <<[op |-> "closeAcct", mint |-> mint]>> ELSE <<>>]

\* [accounts] are the trader's token accounts as the caller knows them.
cachedResolveOrCreateNonNativeATAs(accounts, mints, intermediates) ==
    LET missing == SetToSortSeq({m \in mints : accounts[m] = None}, <)
        created == [k \in DOMAIN missing |-> CreateATA(missing[k], intermediates)]
    IN  [body |-> FlattenSeq([k \in DOMAIN created |-> created[k].body]),
         cleanup |-> FlattenSeq(Reverse([k \in DOMAIN created |-> created[k].cleanup]))]

\* getSwapFromRoute: accounts, the swaps of each part, and the clean-up.
getSwapFromRoute(route, slippage, isInput, accounts) ==
    LET quotes    == route.quotes
        Limit(q)  == adjustQuoteForSlippage(q, slippage, isInput)
        mints     == UNION {MintsOf(q) : q \in ToSet(quotes)}
        between   == {q.hops[1].outputMint : q \in {x \in ToSet(quotes) : Len(x.hops) = 2}}
        atas      == cachedResolveOrCreateNonNativeATAs(accounts, mints \ {Native}, between)
        amounts   == [k \in DOMAIN quotes |->
                        IF quotes[k].hops[1].inputMint = Native
                        THEN InputAmount(quotes[k], Limit(quotes[k]), isInput) ELSE 0]
        sol       == IF Native \notin mints THEN [body |-> <<>>, cleanup |-> <<>>]
                     ELSE createWrappedNativeAccountInstruction(FoldLeft(LAMBDA x, y : x + y, 0, amounts))
        Ix(q)     == IF Len(q.hops) = 1 THEN swapIx(q.hops[1], Limit(q), isInput)
                     ELSE twoHopSwapIx(q, Limit(q), isInput)
    IN  [body |-> sol.body \o atas.body \o [k \in DOMAIN quotes |-> Ix(quotes[k])],
         cleanup |-> atas.cleanup \o sol.cleanup]

\* swapAsync: a swap in one pool, with accounts that are created if they do not
\* exist by then.  It wraps the amount of the request, of whichever token that is.
swapAsync(hop, slippage, isInput, accounts) ==
    LET mints == {hop.inputMint, hop.outputMint} \ {Native}
        creates == [k \in 1..Cardinality({m \in mints : accounts[m] = None}) |->
                        [op |-> "createIdempotent",
                         mint |-> SetToSortSeq({m \in mints : accounts[m] = None}, <)[k]]]
        sol == IF Native \notin {hop.inputMint, hop.outputMint} THEN [body |-> <<>>, cleanup |-> <<>>]
               ELSE createWrappedNativeAccountInstruction(IF hop.inputMint = Native THEN hop.amount ELSE 0)
    IN  [body |-> sol.body \o creates
                    \o <<swapIx(hop, calculateSwapAmountsFromQuote(hop, slippage, isInput), isInput)>>,
         cleanup |-> sol.cleanup]

=============================================================================
