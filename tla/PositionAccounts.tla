-------------------------- MODULE PositionAccounts --------------------------
(***************************************************************************)
(* Who may act on a position, and which accounts exist for it.             *)
(*                                                                         *)
(* A position is a program account that belongs to whoever holds the one   *)
(* token of its mint.  It is either a standalone account, whose address is *)
(* derived from the mint, or one of the PositionBundleSize slots of a      *)
(* bundle, whose address is derived from the bundle's mint and the slot's  *)
(* index; the bundle account keeps a bitmap of the slots in use.           *)
(*                                                                         *)
(* Every instruction is one atomic transaction: an error of any of its     *)
(* account constraints, checks or calls undoes it, so that an action is    *)
(* the instruction's success and its guard is the conjunction of them all. *)
(* The actions whose name starts with Spl are the token program's, which   *)
(* the holders of position tokens may call at any time.                    *)
(***************************************************************************)
EXTENDS Integers, FiniteSets

CONSTANTS
    Mints,          \* addresses of position and of bundle mints
    Users,          \* wallets: each has at most one token account per mint
    BitmapUsize,    \* POSITION_BITMAP_USIZE, the bytes of a bitmap (32)
    ByteWidth,      \* the bits of one byte of the bitmap (8)
    BundleIndexes,  \* the u16 indexes callers pass, valid or not
    MaxDelegated,   \* bound on the amount a token approval names
    None            \* the account, the delegate or the authority is absent

ASSUME BitmapAssumption ==
    /\ BitmapUsize \in Nat \ {0}
    /\ ByteWidth \in Nat \ {0}
    /\ BundleIndexes \subseteq Nat

ASSUME DelegationAssumption ==
    /\ MaxDelegated \in Nat \ {0}
    /\ None \notin Users
    /\ None \notin {"empty", "funded"}
    /\ None \notin [0..BitmapUsize - 1 -> SUBSET (0..ByteWidth - 1)]
    /\ None \notin [amount : {0, 1}, delegate : Users \cup {None},
                    delegated : 0..MaxDelegated, close : Users \cup {None}]

VARIABLES
    mint,       \* what each mint was created for
    token,      \* the token account of each mint and user
    position,   \* the standalone position of each mint
    bundle,     \* the bitmap of each mint's bundle account
    bundled,    \* the bundled positions of each mint, by index
    selfBurnt   \* mints whose holder burnt the token outside the program

vars == <<mint, token, position, bundle, bundled, selfBurnt>>

-----------------------------------------------------------------------------
(* Values. *)

PositionBundleSize == ByteWidth * BitmapUsize

\* A u8 of the bitmap is the set of its bits that are 1.
Byte == SUBSET (0..ByteWidth - 1)

Bitmap == [0..BitmapUsize - 1 -> Byte]

\* What is_position_empty tells apart: no liquidity and nothing owed, or not.
Content == {"empty", "funded"}

TokenAccount ==
    [amount : {0, 1}, delegate : Users \cup {None},
     delegated : 0..MaxDelegated, close : Users \cup {None}]

\* Mutant: two tokens are minted.
FreshTokenTwice == [amount |-> 2, delegate |-> None, delegated |-> 0, close |-> None]

\* A new associated token account holding the one token of its mint.
FreshToken == [amount |-> 1, delegate |-> None, delegated |-> 0, close |-> None]

\* Every account holds what its Rust type allows, and no token account ever
\* more than the one token of its mint.
TypeOK ==
    /\ mint \in [Mints -> {"none", "position", "bundle"}]
    /\ token \in [Mints -> [Users -> TokenAccount \cup {None}]]
    /\ position \in [Mints -> Content \cup {None}]
    /\ bundle \in [Mints -> Bitmap \cup {None}]
    /\ bundled \in [Mints -> [0..PositionBundleSize - 1 -> Content \cup {None}]]
    /\ selfBurnt \in SUBSET Mints

Init ==
    /\ mint = [m \in Mints |-> "none"]
    /\ token = [m \in Mints |-> [u \in Users |-> None]]
    /\ position = [m \in Mints |-> None]
    /\ bundle = [m \in Mints |-> None]
    /\ bundled = [m \in Mints |-> [i \in 0..PositionBundleSize - 1 |-> None]]
    /\ selfBurnt = {}

-----------------------------------------------------------------------------
(* The bitmap. *)

is_valid_bundle_index(i) == i < PositionBundleSize

is_opened(map, i) == (i % ByteWidth) \in map[i \div ByteWidth]

\* Mutant: bitmap & ~mask, which clears a bit but never sets one.
ToggleBitOff(map, i) == [map EXCEPT ![i \div ByteWidth] = @ \ {i % ByteWidth}]

\* bitmap ^ mask, on the byte that holds bit i.
ToggleBit(map, i) ==
    [map EXCEPT ![i \div ByteWidth] =
        IF i % ByteWidth \in @ THEN @ \ {i % ByteWidth}
                               ELSE @ \cup {i % ByteWidth}]

\* Guard of update_bitmap: the index is valid and the bit is to change.
CanUpdateBitmap(map, i, open) ==
    /\ is_valid_bundle_index(i)
    /\ is_opened(map, i) # open

\* Mutant: the loop over the bytes stops before the last one.
IsDeletableShort(map) == \A b \in 0..BitmapUsize - 2 : map[b] = {}

is_deletable(map) == \A b \in 0..BitmapUsize - 1 : map[b] = {}

-----------------------------------------------------------------------------
(* Authority over a position token. *)

HoldsToken(m, u) == token[m][u] # None /\ token[m][u].amount = 1

\* A signer that is the recorded delegate is judged as the delegate alone,
\* even when it owns the account.
verify_position_authority(m, u, signer) ==
    IF token[m][u].delegate = signer
    THEN token[m][u].delegated = 1
    ELSE u = signer

Authorized(m, u, signer) ==
    HoldsToken(m, u) /\ verify_position_authority(m, u, signer)

\* The token program: the recorded delegate may spend within its allowance,
\* which is used up and forgotten at zero; anyone else must be the owner.
SplMaySpend(m, u, signer) ==
    /\ HoldsToken(m, u)
    /\ IF token[m][u].delegate = signer THEN token[m][u].delegated > 0
                                       ELSE u = signer

SplSpent(acct, signer) ==
    IF acct.delegate # signer
    THEN [acct EXCEPT !.amount = 0]
    ELSE [acct EXCEPT !.amount = 0,
                      !.delegated = @ - 1,
                      !.delegate = IF acct.delegated > 1 THEN @ ELSE None]

SplMayClose(m, u, signer) ==
    IF token[m][u].close = None THEN u = signer ELSE token[m][u].close = signer

-----------------------------------------------------------------------------
(* Instructions on standalone positions. *)

\* Mutant: the mint is not required to be new (init_if_needed).
OpenPositionAgain(m, u) ==
    /\ mint[m] # "bundle"
    /\ mint' = [mint EXCEPT ![m] = "position"]
    /\ position' = [position EXCEPT ![m] = "empty"]
    /\ token' = [token EXCEPT ![m][u] = FreshToken]
    /\ UNCHANGED <<bundle, bundled, selfBurnt>>

\* The mint, the position and the token account are created by the same
\* instruction, which mints one token and gives up the mint authority.
OpenPosition(m, u) ==
    /\ mint[m] = "none"
    /\ mint' = [mint EXCEPT ![m] = "position"]
    /\ position' = [position EXCEPT ![m] = "empty"]
    /\ token' = [token EXCEPT ![m][u] = FreshToken]
    /\ UNCHANGED <<bundle, bundled, selfBurnt>>

\* The token is burnt and its account closed by the signer, which needs the
\* token program's consent to both, then the position account is closed.
ClosePosition(m, u, signer) ==
    /\ position[m] # None
    /\ Authorized(m, u, signer)
    /\ position[m] = "empty"
    /\ SplMaySpend(m, u, signer)
    /\ SplMayClose(m, u, signer)
    /\ position' = [position EXCEPT ![m] = None]
    /\ token' = [token EXCEPT ![m][u] = None]
    /\ UNCHANGED <<mint, bundle, bundled, selfBurnt>>

\* What adding or removing liquidity and collecting leave of a position.
ModifyPosition(m, u, signer, content) ==
    /\ position[m] # None
    /\ Authorized(m, u, signer)
    /\ position' = [position EXCEPT ![m] = content]
    /\ UNCHANGED <<mint, token, bundle, bundled, selfBurnt>>

-----------------------------------------------------------------------------
(* Instructions on bundles. *)

InitializePositionBundle(m, u) ==
    /\ mint[m] = "none"
    /\ mint' = [mint EXCEPT ![m] = "bundle"]
    /\ bundle' = [bundle EXCEPT ![m] = [b \in 0..BitmapUsize - 1 |-> {}]]
    /\ token' = [token EXCEPT ![m][u] = FreshToken]
    /\ UNCHANGED <<position, bundled, selfBurnt>>

\* Anchor creates the account of slot i only where there is none.
OpenBundledPosition(m, i, u, signer) ==
    /\ bundle[m] # None
    /\ i \in DOMAIN bundled[m] => bundled[m][i] = None
    /\ Authorized(m, u, signer)
    /\ CanUpdateBitmap(bundle[m], i, TRUE)
    /\ bundle' = [bundle EXCEPT ![m] = ToggleBit(@, i)]
    /\ bundled' = [bundled EXCEPT ![m][i] = "empty"]
    /\ UNCHANGED <<mint, token, position, selfBurnt>>

CloseBundledPosition(m, i, u, signer) ==
    /\ bundle[m] # None
    /\ i \in DOMAIN bundled[m]
    /\ bundled[m][i] # None
    /\ Authorized(m, u, signer)
    /\ bundled[m][i] = "empty"
    /\ CanUpdateBitmap(bundle[m], i, FALSE)
    /\ bundle' = [bundle EXCEPT ![m] = ToggleBit(@, i)]
    /\ bundled' = [bundled EXCEPT ![m][i] = None]
    /\ UNCHANGED <<mint, token, position, selfBurnt>>

ModifyBundledPosition(m, i, u, signer, content) ==
    /\ i \in DOMAIN bundled[m]
    /\ bundled[m][i] # None
    /\ Authorized(m, u, signer)
    /\ bundled' = [bundled EXCEPT ![m][i] = content]
    /\ UNCHANGED <<mint, token, position, bundle, selfBurnt>>

\* Only the owner of the token account may delete: a delegate may not.
DeletePositionBundle(m, u) ==
    /\ bundle[m] # None
    /\ HoldsToken(m, u)
    /\ is_deletable(bundle[m])
    /\ SplMaySpend(m, u, u)
    /\ SplMayClose(m, u, u)
    /\ bundle' = [bundle EXCEPT ![m] = None]
    /\ token' = [token EXCEPT ![m][u] = None]
    /\ UNCHANGED <<mint, position, bundled, selfBurnt>>

-----------------------------------------------------------------------------
(* The token program, called directly by the token's holders. *)

SplCreateAccount(m, u) ==
    /\ mint[m] # "none"
    /\ token[m][u] = None
    /\ token' = [token EXCEPT ![m][u] = [FreshToken EXCEPT !.amount = 0]]
    /\ UNCHANGED <<mint, position, bundle, bundled, selfBurnt>>

SplTransfer(m, u, to, signer) ==
    /\ u # to
    /\ SplMaySpend(m, u, signer)
    /\ token[m][to] # None
    /\ token' = [token EXCEPT ![m][u] = SplSpent(@, signer),
                              ![m][to].amount = 1]
    /\ UNCHANGED <<mint, position, bundle, bundled, selfBurnt>>

SplApprove(m, u, d, n) ==
    /\ token[m][u] # None
    /\ token' = [token EXCEPT ![m][u].delegate = d, ![m][u].delegated = n]
    /\ UNCHANGED <<mint, position, bundle, bundled, selfBurnt>>

SplRevoke(m, u) ==
    /\ token[m][u] # None
    /\ token' = [token EXCEPT ![m][u].delegate = None, ![m][u].delegated = 0]
    /\ UNCHANGED <<mint, position, bundle, bundled, selfBurnt>>

SplSetCloseAuthority(m, u, c) ==
    /\ token[m][u] # None
    /\ token' = [token EXCEPT ![m][u].close = c]
    /\ UNCHANGED <<mint, position, bundle, bundled, selfBurnt>>

SplBurn(m, u, signer) ==
    /\ SplMaySpend(m, u, signer)
    /\ token' = [token EXCEPT ![m][u] = SplSpent(@, signer)]
    /\ selfBurnt' = selfBurnt \cup {m}
    /\ UNCHANGED <<mint, position, bundle, bundled>>

SplCloseAccount(m, u, signer) ==
    /\ token[m][u] # None
    /\ token[m][u].amount = 0
    /\ SplMayClose(m, u, signer)
    /\ token' = [token EXCEPT ![m][u] = None]
    /\ UNCHANGED <<mint, position, bundle, bundled, selfBurnt>>

-----------------------------------------------------------------------------
Program(m) ==
    \E u, signer \in Users :
        \/ OpenPosition(m, u)
        \/ ClosePosition(m, u, signer)
        \/ \E c \in Content : ModifyPosition(m, u, signer, c)
        \/ InitializePositionBundle(m, u)
        \/ DeletePositionBundle(m, u)
        \/ \E i \in BundleIndexes :
               \/ OpenBundledPosition(m, i, u, signer)
               \/ CloseBundledPosition(m, i, u, signer)
               \/ \E c \in Content : ModifyBundledPosition(m, i, u, signer, c)

Spl(m) ==
    \E u, signer \in Users :
        \/ SplCreateAccount(m, u)
        \/ \E to \in Users : SplTransfer(m, u, to, signer)
        \/ \E n \in 0..MaxDelegated : SplApprove(m, u, signer, n)
        \/ SplRevoke(m, u)
        \/ \E c \in Users \cup {None} : SplSetCloseAuthority(m, u, c)
        \/ SplBurn(m, u, signer)
        \/ SplCloseAccount(m, u, signer)

Next == \E m \in Mints : Program(m) \/ Spl(m)

Spec == Init /\ [][Next]_vars

-----------------------------------------------------------------------------
(* Properties. *)

\* The bit of a slot is set exactly when the slot's position account exists:
\* what makes the two error returns of update_bitmap marked UNREACHABLE
\* unreachable, and an open slot never reusable.
BitmapMatchesAccounts ==
    \A m \in Mints :
        bundle[m] # None =>
            \A i \in 0..PositionBundleSize - 1 :
                is_opened(bundle[m], i) <=> bundled[m][i] # None

\* A bundled position outlives neither its bundle account nor, unless its
\* holder burnt the token outside the program, the token that controls it;
\* the same holds of a standalone position and its token.
NoStrandedPosition ==
    \A m \in Mints :
        /\ (\E i \in 0..PositionBundleSize - 1 : bundled[m][i] # None)
               => bundle[m] # None
        /\ (position[m] # None \/ bundle[m] # None) /\ m \notin selfBurnt
               => \E u \in Users : HoldsToken(m, u)

\* At most one token of a position mint ever exists, and a mint serves one
\* kind of position only: two wallets never both control a position.
OneTokenPerMint ==
    \A m \in Mints :
        /\ \A u, v \in Users : HoldsToken(m, u) /\ HoldsToken(m, v) => u = v
        /\ ~(position[m] # None /\ bundle[m] # None)

=============================================================================
