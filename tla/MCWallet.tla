------------------------------ MODULE MCWallet ------------------------------
(* Two positions: p1 in a SOL pool whose token B withholds a fee, p2 in a   *)
(* plain pool whose second reward is paid in SOL, to be opened or open.     *)
EXTENDS Wallet

CONSTANTS p1, p2, usdc, bonk, orca

MCPairOf == [p \in Positions |-> IF p = p1 THEN <<Native, bonk>> ELSE <<usdc, orca>>]
MCRewardsOf == [p \in Positions |-> IF p = p1 THEN <<orca, usdc>> ELSE <<orca, Native>>]
MCPositionList == <<p1, p2>>
MCAccountMaps == {None, {orca}}
MCPrices == {0, 2}

\* With and without liquidity, fees and rewards, and with a vault run dry.
Start(l, f, q, v, open, as) ==
    [liq |-> [p \in Positions |-> IF p \in open THEN l ELSE 0],
     fee |-> [p \in Positions |-> IF p \in open THEN f ELSE <<0, 0>>],
     grown |-> [p \in Positions |-> <<0, 0>>],
     rew |-> [p \in Positions |-> IF p \in open THEN <<0, q>> ELSE <<0, 0>>],
     due |-> [p \in Positions |-> <<0, 0>>],
     vault |-> [p \in Positions |-> <<v, 2>>],
     accounts |-> as, open |-> open, paid |-> [m \in Mints |-> 0], price |-> 0]

MCStarts ==
    {Start(l, f, q, v, {p1}, {ATA(orca)}) : l \in {0, 1}, f \in {<<0, 0>>, <<0, 1>>}, q \in {0, 1}, v \in {0, 2}}
    \cup {Start(l, <<1, 1>>, 0, 2, {p1, p2}, {}) : l \in {0, 1}}

=============================================================================
