---------------------------- MODULE FeeRoundTrip ----------------------------
(***************************************************************************)
(* A trader is to send an amount through a mint with a transfer fee, and a *)
(* swap turns out to need only part of what would arrive.                  *)
(***************************************************************************)
EXTENDS TransferFee

CONSTANTS
    Fees,      \* fee settings of the mint
    Offers     \* amounts the trader offers

TripInputs == Fees \subseteq FeeSettings /\ Offers \subseteq U64

VARIABLES
    transfer, \* the fee, the amount offered and the part that is needed
    sent      \* by the program, or Unsent before it

tripVars == <<transfer, sent>>

Unsent == -2

TripInit ==
    /\ transfer \in [fee : Fees, offered : Offers, needed : U64]
    /\ transfer.needed <= calculate_transfer_fee_excluded_amount(transfer.fee, transfer.offered)
    /\ sent = Unsent

Send ==
    /\ sent = Unsent
    /\ sent' = calculate_transfer_fee_included_amount(transfer.fee, transfer.needed)
    /\ UNCHANGED transfer

TripNext == Send

TripSpec == TripInit /\ [][TripNext]_tripVars

-----------------------------------------------------------------------------
\* The program's check of its own inverse, which the code believes never to
\* fail, never does for a part of an amount that could be sent: a partially
\* filled swap is not refused for the mint's fee.
InverseVerified == sent # Err

\* For a partial fill the trader sends no more than offered, whatever the
\* rounding and the cap of the fee.
NeverAboveOffer == sent # Unsent => sent <= transfer.offered

\* What is sent arrives as exactly what the swap needs.
ArrivesExactly ==
    sent \notin {Unsent, Err} =>
        calculate_transfer_fee_excluded_amount(transfer.fee, sent) = transfer.needed

\* The SDK, with a formula of its own, foretells what the program sends.
SdkAgrees ==
    sent # Unsent => sent = calculateTransferFeeIncludedAmount(transfer.fee, transfer.needed)

\* The inverse of a transfer fee, with rounding and cap: it verifies itself,
\* a partial fill sends no more than offered, what is sent arrives as what is
\* needed, and the SDK's formula gives what the program's gives.
TransferFeeInverse == InverseVerified /\ NeverAboveOffer /\ ArrivesExactly /\ SdkAgrees

=============================================================================
