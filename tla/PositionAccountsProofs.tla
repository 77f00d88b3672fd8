----------------------- MODULE PositionAccountsProofs -----------------------
(***************************************************************************)
(* Proofs about PositionAccounts for every set of mints and of wallets and *)
(* every size of the bitmap.                                               *)
(***************************************************************************)
EXTENDS PositionAccounts, TLAPS

\* A mint that was not used yet has no account of any kind, a mint used for
\* one kind of position has none of the other kind, and a standalone position
\* has no bundled one.  The three properties are not inductive without it.
MintDecidesKind ==
    \A m \in Mints :
        /\ mint[m] = "none" => \A u \in Users : token[m][u] = None
        /\ mint[m] # "position" => position[m] = None
        /\ mint[m] # "bundle" => bundle[m] = None

\* The inductive invariant of the specification.
Inv ==
    /\ TypeOK
    /\ MintDecidesKind
    /\ BitmapMatchesAccounts
    /\ NoStrandedPosition
    /\ OneTokenPerMint

-----------------------------------------------------------------------------
(* Slots of the bitmap. *)

\* An index below the bundle's size addresses a bit of a byte that exists.
LEMMA IndexSplit ==
    ASSUME NEW i \in 0..PositionBundleSize - 1
    PROVE  /\ i \div ByteWidth \in 0..BitmapUsize - 1
           /\ i % ByteWidth \in 0..ByteWidth - 1
           /\ i = ByteWidth * (i \div ByteWidth) + (i % ByteWidth)
<1> USE BitmapAssumption DEF PositionBundleSize
<1> DEFINE q == i \div ByteWidth
           r == i % ByteWidth
<1>1. /\ q \in Int /\ r \in 0..ByteWidth - 1 
      /\ i = ByteWidth * q + r
  OBVIOUS
<1>2. q >= 0
  <2>1. ~(q <= -1)
    <3> SUFFICES ASSUME q <= -1 PROVE FALSE OBVIOUS
    <3>1. ByteWidth * q <= ByteWidth * (-1)
      BY <1>1
    <3> QED BY <1>1, <3>1
  <2> QED BY <1>1, <2>1
<1>3. q < BitmapUsize
  <2> SUFFICES ASSUME q >= BitmapUsize PROVE FALSE BY <1>1
  <2>1. ByteWidth * q >= ByteWidth * BitmapUsize
    BY <1>1
  <2> QED BY <1>1, <2>1
<1> QED BY <1>1, <1>2, <1>3

\* Toggling bit i yields a bitmap that differs from the old one in bit i only.
LEMMA ToggleOne ==
    ASSUME NEW map \in Bitmap,
           NEW i \in 0..PositionBundleSize - 1,
           NEW j \in 0..PositionBundleSize - 1
    PROVE  /\ ToggleBit(map, i) \in Bitmap
           /\ is_opened(ToggleBit(map, i), j) <=>
                 IF i = j THEN ~is_opened(map, i) ELSE is_opened(map, j)
<1> DEFINE iq == i \div ByteWidth
           ir == i % ByteWidth
           jq == j \div ByteWidth
           jr == j % ByteWidth
<1>1. /\ iq \in 0..BitmapUsize - 1 /\ ir \in 0..ByteWidth - 1
      /\ jq \in 0..BitmapUsize - 1 /\ jr \in 0..ByteWidth - 1
  BY IndexSplit
<1>2. i # j => iq # jq \/ ir # jr
  BY IndexSplit
<1>3. i = j => iq = jq /\ ir = jr
  OBVIOUS
<1>4. ToggleBit(map, i) =
        [map EXCEPT ![iq] = IF ir \in map[iq] THEN map[iq] \ {ir} ELSE map[iq] \cup {ir}]
  BY DEF ToggleBit
<1>5. is_opened(map, i) <=> ir \in map[iq]
  BY DEF is_opened
<1>6. is_opened(map, j) <=> jr \in map[jq]
  BY DEF is_opened
<1>7. is_opened(ToggleBit(map, i), j) <=> jr \in ToggleBit(map, i)[jq]
  BY DEF is_opened
<1> HIDE DEF iq, ir, jq, jr
<1>8. ToggleBit(map, i) \in Bitmap
  BY <1>1, <1>4 DEF Bitmap, Byte
<1>9. CASE i = j
  BY <1>1, <1>3, <1>4, <1>5, <1>7, <1>8, <1>9 DEF Bitmap, Byte
<1>10. CASE i # j
  BY <1>1, <1>2, <1>4, <1>6, <1>7, <1>8, <1>10 DEF Bitmap, Byte
<1> QED BY <1>8, <1>9, <1>10

\* An accepted bitmap update names a slot of the bundle.
LEMMA ValidIndex ==
    ASSUME NEW i \in BundleIndexes, is_valid_bundle_index(i)
    PROVE  i \in 0..PositionBundleSize - 1
<1>1. i \in Nat /\ i < PositionBundleSize
  BY BitmapAssumption DEF is_valid_bundle_index
<1>2. PositionBundleSize \in Nat
  BY BitmapAssumption DEF PositionBundleSize
<1> QED BY <1>1, <1>2

-----------------------------------------------------------------------------
(* Type correctness. *)

\* Spending the token leaves a well-formed account without it.
LEMMA SpentType ==
    ASSUME NEW a \in TokenAccount, NEW signer \in Users,
           a.delegate = signer => a.delegated > 0
    PROVE  SplSpent(a, signer) \in TokenAccount /\ SplSpent(a, signer).amount = 0
<1>1. CASE a.delegate # signer
  BY <1>1 DEF SplSpent, TokenAccount
<1>2. CASE a.delegate = signer
  <2>1. a.delegated - 1 \in 0..MaxDelegated
    BY <1>2, DelegationAssumption DEF TokenAccount
  <2>2. (IF a.delegated > 1 THEN a.delegate ELSE None) \in Users \cup {None}
    BY DEF TokenAccount
  <2> QED BY <1>2, <2>1, <2>2 DEF SplSpent, TokenAccount
<1> QED BY <1>1, <1>2

LEMMA TypeInit == Init => TypeOK
BY BitmapAssumption DEF Init, TypeOK, Bitmap, Byte, Content

LEMMA TypeStep == TypeOK /\ [Next]_vars => TypeOK'
<1> USE DelegationAssumption
<1> SUFFICES ASSUME TypeOK, [Next]_vars PROVE TypeOK'
  OBVIOUS
<1>0. FreshToken \in TokenAccount /\ [FreshToken EXCEPT !.amount = 0] \in TokenAccount
  BY DEF FreshToken, TokenAccount
<1>1. ASSUME NEW m \in Mints, NEW u \in Users, OpenPosition(m, u)
      PROVE  TypeOK'
  BY <1>0, <1>1 DEF TypeOK, OpenPosition, Content
<1>2. ASSUME NEW m \in Mints, NEW u \in Users, NEW signer \in Users,
             ClosePosition(m, u, signer)
      PROVE  TypeOK'
  BY <1>2 DEF TypeOK, ClosePosition
<1>3. ASSUME NEW m \in Mints, NEW u \in Users, NEW signer \in Users,
             NEW c \in Content, ModifyPosition(m, u, signer, c)
      PROVE  TypeOK'
  BY <1>3 DEF TypeOK, ModifyPosition
<1>4. ASSUME NEW m \in Mints, NEW u \in Users, InitializePositionBundle(m, u)
      PROVE  TypeOK'
  <2>1. [b \in 0..BitmapUsize - 1 |-> {}] \in Bitmap
    BY DEF Bitmap, Byte
  <2> QED BY <1>0, <1>4, <2>1 DEF TypeOK, InitializePositionBundle
<1>5. ASSUME NEW m \in Mints, NEW u \in Users, DeletePositionBundle(m, u)
      PROVE  TypeOK'
  BY <1>5 DEF TypeOK, DeletePositionBundle
<1>6. ASSUME NEW m \in Mints, NEW u \in Users, NEW signer \in Users,
             NEW i \in BundleIndexes, OpenBundledPosition(m, i, u, signer)
      PROVE  TypeOK'
  <2>1. i \in 0..PositionBundleSize - 1
    BY <1>6, ValidIndex DEF OpenBundledPosition, CanUpdateBitmap
  <2>2. ToggleBit(bundle[m], i) \in Bitmap
    BY <1>6, <2>1, ToggleOne DEF OpenBundledPosition, TypeOK
  <2> QED BY <1>6, <2>1, <2>2 DEF TypeOK, OpenBundledPosition, Content
<1>7. ASSUME NEW m \in Mints, NEW u \in Users, NEW signer \in Users,
             NEW i \in BundleIndexes, CloseBundledPosition(m, i, u, signer)
      PROVE  TypeOK'
  <2>1. i \in 0..PositionBundleSize - 1
    BY <1>7, ValidIndex DEF CloseBundledPosition, CanUpdateBitmap
  <2>2. ToggleBit(bundle[m], i) \in Bitmap
    BY <1>7, <2>1, ToggleOne DEF CloseBundledPosition, TypeOK
  <2> QED BY <1>7, <2>1, <2>2 DEF TypeOK, CloseBundledPosition
<1>8. ASSUME NEW m \in Mints, NEW u \in Users, NEW signer \in Users,
             NEW i \in BundleIndexes, NEW c \in Content,
             ModifyBundledPosition(m, i, u, signer, c)
      PROVE  TypeOK'
  BY <1>8 DEF TypeOK, ModifyBundledPosition
<1>9. ASSUME NEW m \in Mints, NEW u \in Users, SplCreateAccount(m, u)
      PROVE  TypeOK'
  BY <1>0, <1>9 DEF TypeOK, SplCreateAccount
<1>10. ASSUME NEW m \in Mints, NEW u \in Users, NEW to \in Users, NEW signer \in Users,
              SplTransfer(m, u, to, signer)
       PROVE  TypeOK'
  <2>1. token[m][u] \in TokenAccount /\ token[m][to] \in TokenAccount
    BY <1>10 DEF TypeOK, SplTransfer, SplMaySpend, HoldsToken
  <2>2. SplSpent(token[m][u], signer) \in TokenAccount
    BY <1>10, <2>1, SpentType DEF SplTransfer, SplMaySpend
  <2>3. [token[m][to] EXCEPT !.amount = 1] \in TokenAccount
    BY <2>1 DEF TokenAccount
  <2>4. token' = [token EXCEPT ![m] = [token[m] EXCEPT
                    ![u] = SplSpent(token[m][u], signer),
                    ![to] = [token[m][to] EXCEPT !.amount = 1]]]
    BY <1>10 DEF SplTransfer, TypeOK
  <2>5. token' \in [Mints -> [Users -> TokenAccount \cup {None}]]
    BY <2>2, <2>3, <2>4 DEF TypeOK
  <2> QED BY <1>10, <2>5 DEF TypeOK, SplTransfer
<1>11. ASSUME NEW m \in Mints, NEW u \in Users, NEW d \in Users,
              NEW n \in 0..MaxDelegated, SplApprove(m, u, d, n)
       PROVE  TypeOK'
  <2>0. token[m][u] \in TokenAccount
    BY <1>11 DEF TypeOK, SplApprove
  <2>1. [token[m][u] EXCEPT !.delegate = d, !.delegated = n] \in TokenAccount
    BY <2>0 DEF TokenAccount
  <2>2. token' = [token EXCEPT ![m] = [token[m] EXCEPT
                    ![u] = [token[m][u] EXCEPT !.delegate = d, !.delegated = n]]]
    BY <1>11 DEF SplApprove, TypeOK
  <2>3. token' \in [Mints -> [Users -> TokenAccount \cup {None}]]
    BY <2>1, <2>2 DEF TypeOK
  <2> QED BY <1>11, <2>3 DEF TypeOK, SplApprove
<1>12. ASSUME NEW m \in Mints, NEW u \in Users, SplRevoke(m, u)
       PROVE  TypeOK'
  <2>0. token[m][u] \in TokenAccount
    BY <1>12 DEF TypeOK, SplRevoke
  <2>4. 0 \in 0..MaxDelegated /\ None \in Users \cup {None}
    OBVIOUS
  <2>1. [token[m][u] EXCEPT !.delegate = None, !.delegated = 0] \in TokenAccount
    BY <2>0, <2>4 DEF TokenAccount
  <2>2. token' = [token EXCEPT ![m] = [token[m] EXCEPT
                    ![u] = [token[m][u] EXCEPT !.delegate = None, !.delegated = 0]]]
    BY <1>12 DEF SplRevoke, TypeOK
  <2>3. token' \in [Mints -> [Users -> TokenAccount \cup {None}]]
    BY <2>1, <2>2 DEF TypeOK
  <2> QED BY <1>12, <2>3 DEF TypeOK, SplRevoke
<1>13. ASSUME NEW m \in Mints, NEW u \in Users, NEW c \in Users \cup {None},
              SplSetCloseAuthority(m, u, c)
       PROVE  TypeOK'
  <2>0. token[m][u] \in TokenAccount
    BY <1>13 DEF TypeOK, SplSetCloseAuthority
  <2>1. [token[m][u] EXCEPT !.close = c] \in TokenAccount
    BY <2>0 DEF TokenAccount
  <2> QED BY <1>13, <2>1 DEF TypeOK, SplSetCloseAuthority
<1>14. ASSUME NEW m \in Mints, NEW u \in Users, NEW signer \in Users, SplBurn(m, u, signer)
       PROVE  TypeOK'
  <2>1. token[m][u] \in TokenAccount
    BY <1>14 DEF TypeOK, SplBurn, SplMaySpend, HoldsToken
  <2>2. SplSpent(token[m][u], signer) \in TokenAccount
    BY <1>14, <2>1, SpentType DEF SplBurn, SplMaySpend
  <2> QED BY <1>14, <2>2 DEF TypeOK, SplBurn
<1>15. ASSUME NEW m \in Mints, NEW u \in Users, NEW signer \in Users,
              SplCloseAccount(m, u, signer)
       PROVE  TypeOK'
  BY <1>15 DEF TypeOK, SplCloseAccount
<1>16. CASE UNCHANGED vars
  BY <1>16 DEF TypeOK, vars
<1> QED
  BY <1>1, <1>2, <1>3, <1>4, <1>5, <1>6, <1>7, <1>8, <1>9, <1>10, <1>11, <1>12,
     <1>13, <1>14, <1>15, <1>16 DEF Next, Program, Spl

-----------------------------------------------------------------------------
(* Preservation of the inductive invariant. *)

\* What the token program can do to the tokens of one mint: it neither makes
\* an account of an unused mint nor a second token, and a token only goes
\* when its holder or its delegate burns it.
LEMMA SplTokens ==
    ASSUME TypeOK, MintDecidesKind, OneTokenPerMint, NEW m \in Mints, Spl(m)
    PROVE  /\ UNCHANGED <<mint, position, bundle, bundled>>
           /\ selfBurnt \subseteq selfBurnt'
           /\ mint[m] # "none"
           /\ \A n \in Mints \ {m} : token'[n] = token[n]
           /\ m \notin selfBurnt' =>
                 ((\E u \in Users : HoldsToken(m, u)) => \E u \in Users : HoldsToken(m, u)')
           /\ \A u, v \in Users : HoldsToken(m, u)' /\ HoldsToken(m, v)' => u = v
<1> USE DEF HoldsToken
<1>0. \A u, v \in Users : HoldsToken(m, u) /\ HoldsToken(m, v) => u = v
  BY DEF OneTokenPerMint
<1>t. \A u \in Users : token[m][u] \in TokenAccount \cup {None}
  BY DEF TypeOK
<1>k. \A u \in Users : token[m][u] # None => mint[m] # "none"
  BY DEF MintDecidesKind
<1>1. ASSUME NEW u \in Users, SplCreateAccount(m, u)
      PROVE  /\ UNCHANGED selfBurnt /\ mint[m] # "none"
             /\ token' = [token EXCEPT ![m] = [token[m] EXCEPT ![u] = token'[m][u]]]
             /\ token'[m][u].amount = 0
             /\ ~HoldsToken(m, u)
  BY <1>1 DEF SplCreateAccount, TypeOK, FreshToken
<1>2. ASSUME NEW u \in Users, NEW to \in Users, NEW signer \in Users,
             SplTransfer(m, u, to, signer)
      PROVE  /\ UNCHANGED selfBurnt /\ mint[m] # "none" /\ u # to
             /\ token' = [token EXCEPT ![m] = [token[m] EXCEPT
                             ![u] = token'[m][u], ![to] = token'[m][to]]]
             /\ HoldsToken(m, u) /\ ~HoldsToken(m, u)' /\ HoldsToken(m, to)'
  <2>1. token[m][u] \in TokenAccount /\ token[m][to] \in TokenAccount /\ HoldsToken(m, u)
    BY <1>2 DEF TypeOK, SplTransfer, SplMaySpend
  <2>2. SplSpent(token[m][u], signer).amount = 0
    BY <1>2, <2>1, SpentType DEF SplTransfer, SplMaySpend
  <2>3. token' = [token EXCEPT ![m] = [token[m] EXCEPT
                    ![u] = SplSpent(token[m][u], signer),
                    ![to] = [token[m][to] EXCEPT !.amount = 1]]]
    BY <1>2 DEF SplTransfer, TypeOK
  <2>4. [token[m][to] EXCEPT !.amount = 1].amount = 1 /\
        [token[m][to] EXCEPT !.amount = 1] \in TokenAccount
    BY <2>1 DEF TokenAccount
  <2>5. None \notin TokenAccount
    BY DelegationAssumption DEF TokenAccount
  <2>6. u # to /\ token'[m][to] = [token[m][to] EXCEPT !.amount = 1]
               /\ token'[m][u] = SplSpent(token[m][u], signer)
    BY <1>2, <2>3 DEF SplTransfer, TypeOK
  <2>7. HoldsToken(m, to)' /\ ~HoldsToken(m, u)'
    BY <2>2, <2>4, <2>5, <2>6
  <2> QED BY <1>2, <1>k, <2>1, <2>3, <2>6, <2>7 DEF SplTransfer
<1>3. ASSUME NEW u \in Users, NEW a, token[m][u] # None, a.amount = token[m][u].amount,
             a \in TokenAccount, token' = [token EXCEPT ![m][u] = a], UNCHANGED selfBurnt
      PROVE  /\ mint[m] # "none"
             /\ \A n \in Mints \ {m} : token'[n] = token[n]
             /\ \A v \in Users : HoldsToken(m, v)' <=> HoldsToken(m, v)
  <2>1. None \notin TokenAccount
    BY DelegationAssumption DEF TokenAccount
  <2> QED BY <1>3, <1>k, <2>1 DEF TypeOK
<1>4. ASSUME NEW u \in Users, NEW a, ~HoldsToken(m, u)',
             token[m][u] # None, token' = [token EXCEPT ![m][u] = a]
      PROVE  /\ mint[m] # "none"
             /\ \A n \in Mints \ {m} : token'[n] = token[n]
             /\ \A v \in Users \ {u} : HoldsToken(m, v)' <=> HoldsToken(m, v)
  BY <1>4, <1>k DEF TypeOK
<1>5. ASSUME NEW u \in Users, SplCreateAccount(m, u)
      PROVE  /\ mint[m] # "none"
             /\ \A n \in Mints \ {m} : token'[n] = token[n]
             /\ \A v \in Users : HoldsToken(m, v)' <=> HoldsToken(m, v)
  BY <1>1, <1>5, SMTT(60) DEF TypeOK
<1>6. CASE \E u \in Users : SplCreateAccount(m, u)
  BY <1>0, <1>5, <1>6 DEF SplCreateAccount
<1>7. CASE \E u, to, signer \in Users : SplTransfer(m, u, to, signer)
  <2> PICK u \in Users, to \in Users, signer \in Users : SplTransfer(m, u, to, signer)
    BY <1>7
  <2>0. \A v \in Users \ {u, to} : token'[m][v] = token[m][v]
    BY <1>2 DEF TypeOK
  <2>1. \A v \in Users \ {to} : ~HoldsToken(m, v)'
    BY <1>0, <1>2, <2>0
  <2>2. \A n \in Mints \ {m} : token'[n] = token[n]
    BY <1>2 DEF TypeOK
  <2> QED BY <1>2, <2>1, <2>2, ZenonT(60) DEF SplTransfer
<1>8. CASE \E u, d \in Users, n \in 0..MaxDelegated : SplApprove(m, u, d, n)
  <2> PICK u \in Users, d \in Users, n \in 0..MaxDelegated : SplApprove(m, u, d, n)
    BY <1>8
  <2> DEFINE a == [token[m][u] EXCEPT !.delegate = d, !.delegated = n]
  <2>1. token[m][u] \in TokenAccount /\ token[m][u] # None
    BY <1>t DEF SplApprove
  <2>2. a \in TokenAccount /\ a.amount = token[m][u].amount
    BY <2>1 DEF TokenAccount
  <2>3. token' = [token EXCEPT ![m][u] = a]
    BY DEF SplApprove, TypeOK
  <2> QED BY <1>0, <1>3, <2>1, <2>2, <2>3 DEF SplApprove
<1>9. CASE \E u \in Users : SplRevoke(m, u)
  <2> PICK u \in Users : SplRevoke(m, u)
    BY <1>9
  <2> DEFINE a == [token[m][u] EXCEPT !.delegate = None, !.delegated = 0]
  <2>1. token[m][u] \in TokenAccount /\ token[m][u] # None
    BY <1>t DEF SplRevoke
  <2>4. 0 \in 0..MaxDelegated /\ None \in Users \cup {None}
    BY DelegationAssumption
  <2>2. a \in TokenAccount /\ a.amount = token[m][u].amount
    BY <2>1, <2>4 DEF TokenAccount
  <2>3. token' = [token EXCEPT ![m][u] = a]
    BY DEF SplRevoke, TypeOK
  <2> QED BY <1>0, <1>3, <2>1, <2>2, <2>3 DEF SplRevoke
<1>10. CASE \E u \in Users, c \in Users \cup {None} : SplSetCloseAuthority(m, u, c)
  <2> PICK u \in Users, c \in Users \cup {None} : SplSetCloseAuthority(m, u, c)
    BY <1>10
  <2> DEFINE a == [token[m][u] EXCEPT !.close = c]
  <2>1. token[m][u] \in TokenAccount /\ token[m][u] # None
    BY <1>t DEF SplSetCloseAuthority
  <2>2. a \in TokenAccount /\ a.amount = token[m][u].amount
    BY <2>1 DEF TokenAccount
  <2>3. token' = [token EXCEPT ![m][u] = a]
    BY DEF SplSetCloseAuthority, TypeOK
  <2> QED BY <1>0, <1>3, <2>1, <2>2, <2>3 DEF SplSetCloseAuthority
<1>11. CASE \E u, signer \in Users : SplBurn(m, u, signer)
  <2> PICK u \in Users, signer \in Users : SplBurn(m, u, signer)
    BY <1>11
  <2>1. token[m][u] \in TokenAccount /\ token[m][u] # None
    BY <1>t DEF SplBurn, SplMaySpend
  <2>2. SplSpent(token[m][u], signer).amount = 0
    BY <2>1, SpentType DEF SplBurn, SplMaySpend
  <2>3. token' = [token EXCEPT ![m][u] = SplSpent(token[m][u], signer)]
    BY DEF SplBurn, TypeOK
  <2>4. ~HoldsToken(m, u)'
    BY <2>2, <2>3 DEF TypeOK
  <2>5. /\ mint[m] # "none"
        /\ \A n \in Mints \ {m} : token'[n] = token[n]
        /\ \A v \in Users \ {u} : HoldsToken(m, v)' <=> HoldsToken(m, v)
    BY <1>4, <2>1, <2>3, <2>4
  <2>6. m \in selfBurnt' /\ selfBurnt \subseteq selfBurnt'
        /\ UNCHANGED <<mint, position, bundle, bundled>>
    BY DEF SplBurn
  <2> HIDE DEF HoldsToken
  <2> QED BY <1>0, <2>4, <2>5, <2>6
<1>12. CASE \E u, signer \in Users : SplCloseAccount(m, u, signer)
  <2> PICK u \in Users, signer \in Users : SplCloseAccount(m, u, signer)
    BY <1>12
  <2>1. ~HoldsToken(m, u) /\ ~HoldsToken(m, u)' /\ token[m][u] # None
    BY DEF SplCloseAccount, TypeOK
  <2>2. token' = [token EXCEPT ![m][u] = None] /\ UNCHANGED selfBurnt
        /\ UNCHANGED <<mint, position, bundle, bundled>>
    BY DEF SplCloseAccount
  <2>3. /\ mint[m] # "none"
        /\ \A n \in Mints \ {m} : token'[n] = token[n]
        /\ \A v \in Users \ {u} : HoldsToken(m, v)' <=> HoldsToken(m, v)
    BY <1>4, <2>1, <2>2
  <2> HIDE DEF HoldsToken
  <2> QED BY <1>0, <2>1, <2>2, <2>3
<1> QED BY <1>6, <1>7, <1>8, <1>9, <1>10, <1>11, <1>12 DEF Spl

LEMMA InvInit == Init => Inv
<1> SUFFICES ASSUME Init PROVE Inv
  OBVIOUS
<1>1. TypeOK
  BY TypeInit
<1> QED
  BY <1>1 DEF Init, Inv, MintDecidesKind, BitmapMatchesAccounts, NoStrandedPosition,
              OneTokenPerMint, HoldsToken

\* Creating the first token of an unused mint makes its creator the only
\* holder.
LEMMA FirstToken ==
    ASSUME Inv, NEW m \in Mints, NEW u \in Users, mint[m] = "none",
           token' = [token EXCEPT ![m][u] = FreshToken]
    PROVE  /\ \A v \in Users : HoldsToken(m, v)' <=> v = u
           /\ \A n \in Mints \ {m} : token'[n] = token[n]
<1>1. \A v \in Users : token[m][v] = None
  BY DEF Inv, MintDecidesKind
<1>2. FreshToken # None /\ FreshToken.amount = 1
  BY DelegationAssumption DEF FreshToken
<1> QED BY <1>1, <1>2 DEF HoldsToken, Inv, TypeOK

\* Burning the token and closing its account leaves the mint without holder.
LEMMA LastToken ==
    ASSUME Inv, NEW m \in Mints, NEW u \in Users, HoldsToken(m, u),
           token' = [token EXCEPT ![m][u] = None]
    PROVE  /\ \A v \in Users : ~HoldsToken(m, v)'
           /\ \A n \in Mints \ {m} : token'[n] = token[n]
           /\ mint[m] # "none"
<1>1. \A v \in Users : HoldsToken(m, v) => v = u
  BY DEF Inv, OneTokenPerMint
<1>2. mint[m] # "none"
  BY DEF Inv, MintDecidesKind, HoldsToken
<1> QED BY <1>1, <1>2 DEF HoldsToken, Inv, TypeOK

\* The part of the invariant about the accounts of one mint.
MintInv(m) ==
    /\ mint[m] = "none" => \A u \in Users : token[m][u] = None
    /\ mint[m] # "position" => position[m] = None
    /\ mint[m] # "bundle" => bundle[m] = None
    /\ bundle[m] # None =>
           \A i \in 0..PositionBundleSize - 1 :
               is_opened(bundle[m], i) <=> bundled[m][i] # None
    /\ (\E i \in 0..PositionBundleSize - 1 : bundled[m][i] # None) => bundle[m] # None
    /\ (position[m] # None \/ bundle[m] # None) /\ m \notin selfBurnt
           => \E u \in Users : HoldsToken(m, u)
    /\ \A u, v \in Users : HoldsToken(m, u) /\ HoldsToken(m, v) => u = v
    /\ ~(position[m] # None /\ bundle[m] # None)

LEMMA InvIsPerMint == Inv <=> TypeOK /\ \A m \in Mints : MintInv(m)
<1>1. (\A m \in Mints : MintInv(m)) =>
         MintDecidesKind /\ BitmapMatchesAccounts /\ NoStrandedPosition /\ OneTokenPerMint
  BY DEF MintInv, MintDecidesKind, BitmapMatchesAccounts, NoStrandedPosition, OneTokenPerMint
<1>2. MintDecidesKind /\ BitmapMatchesAccounts /\ NoStrandedPosition /\ OneTokenPerMint
         => \A m \in Mints : MintInv(m)
  BY DEF MintInv, MintDecidesKind, BitmapMatchesAccounts, NoStrandedPosition, OneTokenPerMint
<1> QED BY <1>1, <1>2 DEF Inv

\* A step on one mint leaves the accounts of the others alone.
LEMMA OtherMints ==
    ASSUME Inv, NEW m \in Mints, TypeOK', MintInv(m)',
           \A n \in Mints \ {m} :
               /\ mint'[n] = mint[n] /\ token'[n] = token[n]
               /\ position'[n] = position[n] /\ bundle'[n] = bundle[n]
               /\ bundled'[n] = bundled[n]
               /\ n \in selfBurnt => n \in selfBurnt'
    PROVE  Inv'
<1>1. ASSUME NEW n \in Mints \ {m} PROVE MintInv(n)'
  <2>1. MintInv(n)
    BY InvIsPerMint
  <2>2. \A u \in Users : HoldsToken(n, u)' <=> HoldsToken(n, u)
    BY DEF HoldsToken
  <2> QED BY <2>1, <2>2 DEF MintInv
<1>2. \A n \in Mints : MintInv(n)'
  BY <1>1
<1>3. MintDecidesKind' /\ BitmapMatchesAccounts' /\ NoStrandedPosition' /\ OneTokenPerMint'
  BY <1>2 DEF MintInv, MintDecidesKind, BitmapMatchesAccounts, NoStrandedPosition,
              OneTokenPerMint
<1> QED BY <1>3 DEF Inv

LEMMA InvStep == Inv /\ [Next]_vars => Inv'
<1> SUFFICES ASSUME Inv, [Next]_vars PROVE Inv'
  OBVIOUS
<1>t. TypeOK /\ TypeOK'
  BY TypeStep DEF Inv
<1>i. \A m \in Mints : MintInv(m)
  BY InvIsPerMint
<1>1. ASSUME NEW m \in Mints, NEW u \in Users, OpenPosition(m, u)
      PROVE  Inv'
  <2>1. /\ \A v \in Users : HoldsToken(m, v)' <=> v = u
        /\ \A n \in Mints \ {m} : token'[n] = token[n]
    BY <1>1, FirstToken DEF OpenPosition
  <2>2. MintInv(m)'
    BY <1>1, <1>i, <1>t, <2>1 DEF MintInv, OpenPosition, TypeOK
  <2> QED BY <1>1, <1>t, <2>1, <2>2, OtherMints DEF OpenPosition, TypeOK
<1>2. ASSUME NEW m \in Mints, NEW u \in Users, NEW signer \in Users,
             ClosePosition(m, u, signer)
      PROVE  Inv'
  <2>1. /\ \A v \in Users : ~HoldsToken(m, v)'
        /\ \A n \in Mints \ {m} : token'[n] = token[n]
        /\ mint[m] # "none"
    BY <1>2, LastToken DEF ClosePosition, Authorized
  <2>2. MintInv(m)'
    BY <1>2, <1>i, <1>t, <2>1 DEF MintInv, ClosePosition, TypeOK
  <2> QED BY <1>2, <1>t, <2>1, <2>2, OtherMints DEF ClosePosition, TypeOK
<1>3. ASSUME NEW m \in Mints, NEW u \in Users, NEW signer \in Users,
             NEW c \in Content, ModifyPosition(m, u, signer, c)
      PROVE  Inv'
  <2>1. c # None /\ \A v \in Users : HoldsToken(m, v)' <=> HoldsToken(m, v)
    BY <1>3, DelegationAssumption DEF ModifyPosition, HoldsToken, Content
  <2>2. MintInv(m)'
    BY <1>3, <1>i, <1>t, <2>1 DEF MintInv, ModifyPosition, TypeOK
  <2> QED BY <1>3, <1>t, <2>1, <2>2, OtherMints DEF ModifyPosition, TypeOK
<1>4. ASSUME NEW m \in Mints, NEW u \in Users, InitializePositionBundle(m, u)
      PROVE  Inv'
  <2>1. /\ \A v \in Users : HoldsToken(m, v)' <=> v = u
        /\ \A n \in Mints \ {m} : token'[n] = token[n]
    BY <1>4, FirstToken DEF InitializePositionBundle
  <2>2. bundle'[m] = [b \in 0..BitmapUsize - 1 |-> {}]
    BY <1>4, <1>t DEF InitializePositionBundle, TypeOK
  <2>3. \A i \in 0..PositionBundleSize - 1 : ~is_opened(bundle'[m], i)
    BY <2>2, IndexSplit DEF is_opened
  <2>4. \A i \in 0..PositionBundleSize - 1 : bundled'[m][i] = None
    BY <1>4, <1>i DEF InitializePositionBundle, MintInv
  <2>5. bundle'[m] # None
    BY <2>2, DelegationAssumption
  <2>6. MintInv(m)'
    BY <1>4, <1>i, <1>t, <2>1, <2>3, <2>4, <2>5 DEF MintInv, InitializePositionBundle, TypeOK
  <2> QED BY <1>4, <1>t, <2>1, <2>6, OtherMints DEF InitializePositionBundle, TypeOK
<1>5. ASSUME NEW m \in Mints, NEW u \in Users, DeletePositionBundle(m, u)
      PROVE  Inv'
  <2>1. /\ \A v \in Users : ~HoldsToken(m, v)'
        /\ \A n \in Mints \ {m} : token'[n] = token[n]
        /\ mint[m] # "none"
    BY <1>5, LastToken DEF DeletePositionBundle
  <2>2. \A i \in 0..PositionBundleSize - 1 : ~is_opened(bundle[m], i)
    BY <1>5, IndexSplit DEF DeletePositionBundle, is_deletable, is_opened
  <2>3. \A i \in 0..PositionBundleSize - 1 : bundled'[m][i] = None
    BY <1>5, <1>i, <2>2 DEF DeletePositionBundle, MintInv
  <2>4. MintInv(m)'
    BY <1>5, <1>i, <1>t, <2>1, <2>3 DEF MintInv, DeletePositionBundle, TypeOK
  <2> QED BY <1>5, <1>t, <2>1, <2>4, OtherMints DEF DeletePositionBundle, TypeOK
<1>6. ASSUME NEW m \in Mints, NEW u \in Users, NEW signer \in Users,
             NEW i \in BundleIndexes, OpenBundledPosition(m, i, u, signer)
      PROVE  Inv'
  <2>1. i \in 0..PositionBundleSize - 1
    BY <1>6, ValidIndex DEF OpenBundledPosition, CanUpdateBitmap
  <2>2. bundle[m] \in Bitmap /\ bundle'[m] = ToggleBit(bundle[m], i)
    BY <1>6, <1>t DEF OpenBundledPosition, TypeOK
  <2>3. \A j \in 0..PositionBundleSize - 1 :
           is_opened(bundle'[m], j) <=> IF i = j THEN ~is_opened(bundle[m], i)
                                                 ELSE is_opened(bundle[m], j)
    BY <2>1, <2>2, ToggleOne
  <2>4. bundled'[m] = [bundled[m] EXCEPT ![i] = "empty"] /\ "empty" # None
    BY <1>6, <1>t, <2>1, DelegationAssumption DEF OpenBundledPosition, TypeOK
  <2>5. ~is_opened(bundle[m], i)
    BY <1>6 DEF OpenBundledPosition, CanUpdateBitmap
  <2>6. bundle[m] # None /\ bundle'[m] # None
    BY <1>6, <1>t, <2>1, <2>2, ToggleOne, DelegationAssumption
       DEF OpenBundledPosition, Bitmap, Byte
  <2>7. \A v \in Users : HoldsToken(m, v)' <=> HoldsToken(m, v)
    BY <1>6 DEF OpenBundledPosition, HoldsToken
  <2>8. \A j \in 0..PositionBundleSize - 1 :
           is_opened(bundle'[m], j) <=> bundled'[m][j] # None
    <3>1. \A j \in 0..PositionBundleSize - 1 : is_opened(bundle[m], j) <=> bundled[m][j] # None
      BY <1>i, <2>6 DEF MintInv
    <3>2. DOMAIN bundled[m] = 0..PositionBundleSize - 1
      BY <1>t DEF TypeOK
    <3> QED BY <2>1, <2>3, <2>4, <2>5, <3>1, <3>2
  <2>9. MintInv(m)'
    BY <1>6, <1>i, <2>6, <2>7, <2>8 DEF MintInv, OpenBundledPosition
  <2> QED BY <1>6, <1>t, <2>9, OtherMints DEF OpenBundledPosition, TypeOK
<1>7. ASSUME NEW m \in Mints, NEW u \in Users, NEW signer \in Users,
             NEW i \in BundleIndexes, CloseBundledPosition(m, i, u, signer)
      PROVE  Inv'
  <2>1. i \in 0..PositionBundleSize - 1
    BY <1>7, ValidIndex DEF CloseBundledPosition, CanUpdateBitmap
  <2>2. bundle[m] \in Bitmap /\ bundle'[m] = ToggleBit(bundle[m], i)
    BY <1>7, <1>t DEF CloseBundledPosition, TypeOK
  <2>3. \A j \in 0..PositionBundleSize - 1 :
           is_opened(bundle'[m], j) <=> IF i = j THEN ~is_opened(bundle[m], i)
                                                 ELSE is_opened(bundle[m], j)
    BY <2>1, <2>2, ToggleOne
  <2>4. bundled'[m] = [bundled[m] EXCEPT ![i] = None]
    BY <1>7, <1>t, <2>1 DEF CloseBundledPosition, TypeOK
  <2>5. is_opened(bundle[m], i)
    BY <1>7, <1>i, <2>1 DEF CloseBundledPosition, MintInv
  <2>6. bundle[m] # None /\ bundle'[m] # None
    BY <1>7, <1>t, <2>1, <2>2, ToggleOne, DelegationAssumption
       DEF CloseBundledPosition, Bitmap, Byte
  <2>7. \A v \in Users : HoldsToken(m, v)' <=> HoldsToken(m, v)
    BY <1>7 DEF CloseBundledPosition, HoldsToken
  <2>8. \A j \in 0..PositionBundleSize - 1 :
           is_opened(bundle'[m], j) <=> bundled'[m][j] # None
    <3>1. \A j \in 0..PositionBundleSize - 1 : is_opened(bundle[m], j) <=> bundled[m][j] # None
      BY <1>i, <2>6 DEF MintInv
    <3>2. DOMAIN bundled[m] = 0..PositionBundleSize - 1
      BY <1>t DEF TypeOK
    <3> QED BY <2>1, <2>3, <2>4, <2>5, <3>1, <3>2
  <2>9. MintInv(m)'
    BY <1>7, <1>i, <2>6, <2>7, <2>8 DEF MintInv, CloseBundledPosition
  <2> QED BY <1>7, <1>t, <2>9, OtherMints DEF CloseBundledPosition, TypeOK
<1>8. ASSUME NEW m \in Mints, NEW u \in Users, NEW signer \in Users,
             NEW i \in BundleIndexes, NEW c \in Content,
             ModifyBundledPosition(m, i, u, signer, c)
      PROVE  Inv'
  <2>1. i \in 0..PositionBundleSize - 1 /\ c # None
    BY <1>8, <1>t, DelegationAssumption DEF ModifyBundledPosition, TypeOK, Content
  <2>2. bundled'[m] = [bundled[m] EXCEPT ![i] = c]
    BY <1>8, <1>t DEF ModifyBundledPosition, TypeOK
  <2>3. \A j \in 0..PositionBundleSize - 1 : bundled'[m][j] # None <=> bundled[m][j] # None
    BY <1>8, <1>t, <2>1, <2>2 DEF ModifyBundledPosition, TypeOK
  <2>4. \A v \in Users : HoldsToken(m, v)' <=> HoldsToken(m, v)
    BY <1>8 DEF ModifyBundledPosition, HoldsToken
  <2>5. MintInv(m)'
    BY <1>8, <1>i, <2>3, <2>4 DEF MintInv, ModifyBundledPosition
  <2> QED BY <1>8, <1>t, <2>5, OtherMints DEF ModifyBundledPosition, TypeOK
<1>9. ASSUME NEW m \in Mints, Spl(m)
      PROVE  Inv'
  <2>1. /\ UNCHANGED <<mint, position, bundle, bundled>>
        /\ selfBurnt \subseteq selfBurnt'
        /\ mint[m] # "none"
        /\ \A n \in Mints \ {m} : token'[n] = token[n]
        /\ m \notin selfBurnt' =>
              ((\E u \in Users : HoldsToken(m, u)) => \E u \in Users : HoldsToken(m, u)')
        /\ \A u, v \in Users : HoldsToken(m, u)' /\ HoldsToken(m, v)' => u = v
    BY <1>9, SplTokens DEF Inv
  <2>2. MintInv(m)'
    BY <1>i, <2>1 DEF MintInv
  <2> QED BY <1>t, <2>1, <2>2, OtherMints
<1>10. CASE UNCHANGED vars
  BY <1>10 DEF vars, Inv, TypeOK, MintDecidesKind, BitmapMatchesAccounts, NoStrandedPosition,
               OneTokenPerMint, HoldsToken
<1> QED
  BY <1>1, <1>2, <1>3, <1>4, <1>5, <1>6, <1>7, <1>8, <1>9, <1>10 DEF Next, Program

-----------------------------------------------------------------------------
(* The theorems. *)

\* Every account and token of a position has its declared form in every
\* reachable state.
THEOREM TypeCorrect == Spec => []TypeOK
<1>1. Init => TypeOK
  BY TypeInit
<1>2. TypeOK /\ [Next]_vars => TypeOK'
  BY TypeStep
<1> QED BY <1>1, <1>2, PTL DEF Spec

\* Whatever the instructions and the token program do and in whatever order.
LEMMA AccountsAlways == Spec => []Inv
<1>1. Init => Inv
  BY InvInit
<1>2. Inv /\ [Next]_vars => Inv'
  BY InvStep
<1> QED BY <1>1, <1>2, PTL DEF Spec

\* A bundle's bitmap has a bit for every bundled position that exists and for
\* no other: the UNREACHABLE error returns of update_bitmap are so.
THEOREM BitmapAgrees == Spec => []BitmapMatchesAccounts
<1>1. Inv => BitmapMatchesAccounts
  BY DEF Inv
<1> QED BY <1>1, AccountsAlways, PTL

\* A position or a bundle exists while its token can be held, unless its holder
\* burnt it by himself: no instruction closes one and leaves the other, so that
\* nothing of value is left in an account that nobody can sign for.
THEOREM NothingStranded == Spec => []NoStrandedPosition
<1>1. Inv => NoStrandedPosition
  BY DEF Inv
<1> QED BY <1>1, AccountsAlways, PTL

\* At most one wallet holds a position's token, whatever is minted, moved or
\* burnt: verify_position_authority lets one owner, or his delegate, act.
THEOREM OneHolder == Spec => []OneTokenPerMint
<1>1. Inv => OneTokenPerMint
  BY DEF Inv
<1> QED BY <1>1, AccountsAlways, PTL

=============================================================================
