---------------------------- MODULE MCGovernance ----------------------------
(* Two configurations that two users may own or share, and four mints:    *)
(* two old ones, one that needs a badge, and one that is never supported.   *)
EXTENDS Governance, TLC

Plain == [program |-> "token", native |-> FALSE, freeze |-> TRUE, extensions |-> {}, frozen |-> FALSE]

MCMintInfo ==
    1 :> Plain @@ 2 :> Plain
 @@ 3 :> [program |-> "token-2022", native |-> FALSE, freeze |-> FALSE,
          extensions |-> {"TransferFeeConfig", "DefaultAccountState"}, frozen |-> FALSE]
 @@ 4 :> [program |-> "token-2022", native |-> FALSE, freeze |-> TRUE,
          extensions |-> {"DefaultAccountState"}, frozen |-> TRUE]

MCSymmetry == Permutations(Configs) \cup Permutations(Users)

=============================================================================
