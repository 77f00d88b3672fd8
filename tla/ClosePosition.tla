--------------------------- MODULE ClosePosition ---------------------------
(***************************************************************************)
(* Whirlpool.closePosition: the client reads the chain, works out from it  *)
(* which of "withdraw, collect fees, collect rewards, close" a position    *)
(* needs, and packs them into transactions.  [s] is the chain as read.     *)
(***************************************************************************)
EXTENDS ClientTx

\* The fees quote is what would arrive, after the mints' transfer fees.
feeOwed(s, p) == [k \in DOMAIN PairOf[p] |-> Net(PairOf[p][k], Owed(s, p)[k])]
shouldCollectFees(s, p) == \E k \in DOMAIN PairOf[p] : feeOwed(s, p)[k] > 0

\* Rewards count even if all of them would be withheld.
rewardsToCollect(s, p) ==
    Among([i \in DOMAIN RewardsOf[p] |-> i], {i \in Rewards(p) : RewardOwed(s, p, i) > 0})

shouldDecreaseLiquidity(s, p) == s.liq[p] > 0

mintType(s, p) ==
    LET pool   == shouldDecreaseLiquidity(s, p) \/ shouldCollectFees(s, p)
        reward == rewardsToCollect(s, p) # <<>>
    IN  IF pool /\ ~reward THEN "pool" ELSE IF ~pool /\ reward THEN "reward" ELSE "all"

AddDecrease(f, s, p) ==
    IF ~shouldDecreaseLiquidity(s, p) THEN f
    ELSE addInstructions(f, s, PairOf[p],
            [k \in Nat |-> Single(decreaseIx(p, s.liq[p], s.price, AccountsOf(PairOf[p], k)))])

AddFees(f, s, p) ==
    IF ~shouldCollectFees(s, p) THEN f
    ELSE addInstructions(f, s, PairOf[p],
            [k \in Nat |-> Single(feesIx(p, AccountsOf(PairOf[p], k)))])

\* The n-th reward to collect goes into the account of its own mint, and is
\* asked for as reward n of the pool.
AddReward(f, s, p, n) ==
    LET mint == RewardsOf[p][rewardsToCollect(s, p)[n]]
    IN  addInstructions(f, s, <<mint>>, [k \in Nat |-> Single(rewardIx(p, n, AccountOf(mint, k)))])

AddRewards(f, s, p) ==
    FoldLeft(LAMBDA g, n : AddReward(g, s, p, n), f, [n \in DOMAIN rewardsToCollect(s, p) |-> n])

getClosePositionIx(s, p) ==
    addInstructions(
        AddRewards(AddFees(AddDecrease(NewFactory(getTokenMints(p, mintType(s, p))), s, p), s, p), s, p),
        s, <<>>, [k \in Nat |-> Single(closePositionIx(p))])

=============================================================================
