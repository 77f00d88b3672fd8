---------------------------- MODULE TransferFee ----------------------------
(***************************************************************************)
(* The fee that a Token-2022 mint withholds from every transfer: what      *)
(* arrives of an amount sent, and what must be sent for an amount to       *)
(* arrive, as the program (util/v2/token.rs) and the SDK                   *)
(* (token-extension-util.ts) compute it.                                   *)
(***************************************************************************)
EXTENDS PoolMath

CONSTANT ONE_IN_BASIS_POINTS   \* 10_000

ASSUME BasisPointAssumption == ONE_IN_BASIS_POINTS \in Nat \ {0}

\* At most all of an amount, up to a cap.
FeeSettings == [basis_points : 0..ONE_IN_BASIS_POINTS, maximum_fee : U64]

\* A mint without the extension, or without a fee in this epoch.
NoFee == [basis_points |-> 0, maximum_fee |-> 0]

Least(x, y) == IF x < y THEN x ELSE y

\* The token program's fee: rounded up, and capped.
calculate_fee(fee, amount) ==
    Least(DivRound(amount * fee.basis_points, ONE_IN_BASIS_POINTS, TRUE), fee.maximum_fee)

calculate_transfer_fee_excluded_amount(fee, amount) == amount - calculate_fee(fee, amount)

\* What the token program takes to have been sent when amount arrived.
calculate_pre_fee_amount(fee, amount) ==
    LET raw == DivRound(amount * ONE_IN_BASIS_POINTS,
                        ONE_IN_BASIS_POINTS - fee.basis_points, TRUE)
    IN  IF fee.basis_points = 0 THEN amount
        ELSE IF raw - amount >= fee.maximum_fee THEN Checked(amount + fee.maximum_fee, U64MAX)
        ELSE Checked(raw, U64MAX)

\* The fee on top of an amount that is to arrive; at 100% it is the cap.
InverseFee(fee, amount) ==
    LET pre == calculate_pre_fee_amount(fee, amount)
    IN  IF fee.basis_points = ONE_IN_BASIS_POINTS THEN fee.maximum_fee
        ELSE IF pre = Err THEN Err ELSE calculate_fee(fee, pre)

\* The program verifies its result, so that a wrong inverse is an error.
Verified(fee, amount, added) ==
    IF added = Err \/ amount + added > U64MAX THEN Err
    ELSE IF calculate_fee(fee, amount + added) # added THEN Err
    ELSE amount + added

\* Mutant: the cap on the fee does not count.
IncludedIgnoringCap(fee, amount) ==
    IF amount = 0 \/ fee.basis_points \in {0, ONE_IN_BASIS_POINTS} THEN amount
    ELSE Checked(DivRound(amount * ONE_IN_BASIS_POINTS,
                          ONE_IN_BASIS_POINTS - fee.basis_points, TRUE), U64MAX)

calculate_transfer_fee_included_amount(fee, amount) ==
    IF amount = 0 THEN 0 ELSE Verified(fee, amount, InverseFee(fee, amount))

-----------------------------------------------------------------------------
(* token-extension-util.ts *)

calculateTransferFeeIncludedAmount(fee, amount) ==
    LET raw == DivRound(amount * ONE_IN_BASIS_POINTS,
                        ONE_IN_BASIS_POINTS - fee.basis_points, TRUE)
    IN  IF fee.basis_points = 0 \/ amount = 0 THEN amount
        ELSE IF \/ fee.basis_points = ONE_IN_BASIS_POINTS
                \/ raw - amount >= fee.maximum_fee
             THEN Checked(amount + fee.maximum_fee, U64MAX)
        ELSE Checked(raw, U64MAX)

calculateTransferFeeExcludedAmount(fee, amount) == amount - calculate_fee(fee, amount)

=============================================================================
