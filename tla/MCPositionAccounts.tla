------------------------- MODULE MCPositionAccounts -------------------------
(* Small instance of PositionAccounts: two wallets, a bitmap of two bytes   *)
(* of two bits, and one index that is out of range.                         *)
EXTENDS PositionAccounts, TLC

CONSTANTS alice, bob

MCIndexes == 0..PositionBundleSize

=============================================================================
