---------------------------- MODULE OperatorProofs ----------------------------
(***************************************************************************)
(* The operators that the model is built from, for every value of the      *)
(* constants.  First the arithmetic of PoolMath: what the rounding of      *)
(* amounts and prices preserves, what one step of a swap does, and what    *)
(* liquidity is worth between prices.  Then transfer fees and their        *)
(* inverses.  Last the search of TickArrays for the next initialised tick: *)
(* what it returns is the nearest one ahead or one before it.              *)
(***************************************************************************)
EXTENDS SdkMath, TransferFee, TickArrays, SequenceTheorems, WellFoundedInduction, TLAPS

-----------------------------------------------------------------------------
(* Products.  A factor that is not a number of the source text is beyond   *)
(* the solver: each fact about one is a lemma.                             *)

LEMMA ProductInt == ASSUME NEW a \in Int, NEW b \in Int PROVE a * b \in Int
  OBVIOUS

LEMMA ProductNat == ASSUME NEW a \in Nat, NEW b \in Nat PROVE a * b \in Nat
  OBVIOUS

LEMMA ProductPositive ==
    ASSUME NEW a \in Nat \ {0}, NEW b \in Nat \ {0} PROVE a * b \in Nat \ {0}
  OBVIOUS

LEMMA ProductOrder ==
    ASSUME NEW a \in Int, NEW b \in Int, NEW d \in Nat \ {0}
    PROVE  (a <= b <=> a * d <= b * d) /\ (a < b <=> a * d < b * d)
  <1>1. a < b => a * d < b * d
    OBVIOUS
  <1>2. b < a => b * d < a * d
    OBVIOUS
  <1>3. a = b => a * d = b * d
    OBVIOUS
  <1> QED BY <1>1, <1>2, <1>3

LEMMA ProductMonotone ==
    ASSUME NEW a \in Int, NEW b \in Int, NEW d \in Nat, a <= b PROVE a * d <= b * d
  OBVIOUS

LEMMA ProductAtMost ==
    ASSUME NEW a \in Nat, NEW b \in Nat, NEW d \in Nat, NEW n \in Nat, a <= b, b * d <= n
    PROVE  a * d <= n
  <1>1. a * d <= b * d
    BY ProductMonotone
  <1> DEFINE x == a * d
             y == b * d
  <1>2. x \in Nat /\ y \in Nat
    BY ProductNat
  <1> HIDE DEF x, y
  <1>3. x <= n
    BY <1>1, <1>2 DEF x, y
  <1> QED BY <1>3 DEF x

LEMMA Distributes ==
    ASSUME NEW a \in Int, NEW b \in Int, NEW d \in Int
    PROVE  (a + b) * d = a * d + b * d /\ (a - b) * d = a * d - b * d
  OBVIOUS

LEMMA ProductTurned == ASSUME NEW a \in Int, NEW b \in Int PROVE a * b = b * a
  OBVIOUS

LEMMA DivisionOf ==
    ASSUME NEW n \in Int, NEW d \in Nat \ {0}
    PROVE  n \div d \in Int /\ n % d \in 0..d - 1 /\ n = (n \div d) * d + (n % d)
  OBVIOUS

-----------------------------------------------------------------------------
(* Rounding. *)

\* A quotient, rounded either way, against a whole number m: it is on the side
\* of m that the exact quotient is on.
LEMMA Rounding ==
    ASSUME NEW n \in Nat, NEW d \in Nat \ {0}, NEW up \in BOOLEAN, NEW m \in Int
    PROVE  /\ DivRound(n, d, up) \in Nat
           /\ m * d <= n => m <= DivRound(n, d, up)
           /\ n <= m * d => DivRound(n, d, up) <= m
           /\ up => n <= DivRound(n, d, up) * d
           /\ ~up => DivRound(n, d, up) * d <= n
  <1> DEFINE q == n \div d
             r == n % d
             e == DivRound(n, d, up)
  <1>1. q \in Int /\ r \in 0..d - 1 /\ n = q * d + r
    BY DivisionOf
  <1>2. e = q + (IF up /\ r > 0 THEN 1 ELSE 0)
    BY DEF DivRound
  <1> HIDE DEF q, r, e
  <1>3. (q + 1) * d = q * d + d
    BY <1>1
  <1>4. q >= 0
    <2>1. 0 * d < (q + 1) * d
      BY <1>1, <1>3
    <2>2. 0 < q + 1
      BY <1>1, <2>1, ProductOrder
    <2> QED BY <1>1, <2>2
  <1>5. m * d <= n => m <= q
    <2> SUFFICES ASSUME m * d <= n PROVE m <= q
      OBVIOUS
    <2>1. m * d < (q + 1) * d
      BY <1>1, <1>3
    <2>2. m < q + 1
      BY <1>1, <2>1, ProductOrder
    <2> QED BY <1>1, <2>2
  <1>6. n <= m * d => q <= m /\ (r > 0 => q < m)
    <2> SUFFICES ASSUME n <= m * d PROVE q <= m /\ (r > 0 => q < m)
      OBVIOUS
    <2>1. q * d <= m * d /\ (r > 0 => q * d < m * d)
      BY <1>1
    <2> QED BY <1>1, <2>1, ProductOrder
  <1>7. CASE up /\ r > 0
    <2>1. e = q + 1 /\ e * d = q * d + d
      BY <1>2, <1>3, <1>7
    <2>2. e \in Nat
      BY <1>1, <1>4, <2>1
    <2>3. (m * d <= n => m <= e) /\ (n <= m * d => e <= m)
      BY <1>1, <1>5, <1>6, <1>7, <2>1
    <2>4. (up => n <= e * d) /\ (~up => e * d <= n)
      BY <1>1, <1>7, <2>1
    <2> QED BY <2>2, <2>3, <2>4 DEF e
  <1>8. CASE ~(up /\ r > 0)
    <2>1. e = q /\ e * d = q * d
      BY <1>1, <1>2, <1>8
    <2>2. e \in Nat
      BY <1>1, <1>4, <2>1
    <2>3. (m * d <= n => m <= e) /\ (n <= m * d => e <= m)
      BY <1>1, <1>5, <1>6, <1>8, <2>1
    <2>4. (up => n <= e * d) /\ (~up => e * d <= n)
      BY <1>1, <1>8, <2>1
    <2> QED BY <2>2, <2>3, <2>4 DEF e
  <1> QED BY <1>7, <1>8

\* A quotient rounded up, between the two whole numbers the exact one is between.
LEMMA RoundedBetween ==
    ASSUME NEW n \in Nat, NEW d \in Nat \ {0}, NEW low \in Int, NEW high \in Int, NEW x,
           x = DivRound(n, d, TRUE), low * d <= n, n <= high * d
    PROVE  x \in Nat /\ low <= x /\ x <= high /\ n <= x * d
  BY Rounding

LEMMA RoundedUp ==
    ASSUME NEW n \in Nat, NEW d \in Nat \ {0}, NEW x, x = DivRound(n, d, TRUE)
    PROVE  x \in Nat /\ n <= x * d
  <1>1. 0 \in Int
    OBVIOUS
  <1> QED BY <1>1, Rounding

LEMMA RoundedDown ==
    ASSUME NEW n \in Nat, NEW d \in Nat \ {0}, NEW x, x = DivRound(n, d, FALSE)
    PROVE  x \in Nat /\ x * d <= n
  <1>1. 0 \in Int
    OBVIOUS
  <1> QED BY <1>1, Rounding

LEMMA RoundedBelow ==
    ASSUME NEW n \in Nat, NEW d \in Nat \ {0}, NEW high \in Int, NEW x,
           x = DivRound(n, d, TRUE), n <= high * d
    PROVE  x \in Nat /\ x <= high
  BY Rounding

\* What is below a rounded quotient is below the exact one.
LEMMA BelowRounded ==
    ASSUME NEW n \in Nat, NEW d \in Nat \ {0}, NEW up \in BOOLEAN, NEW m \in Int,
           m < DivRound(n, d, up)
    PROVE  m * d < n
  <1>1. DivRound(n, d, up) \in Nat /\ (n <= m * d => DivRound(n, d, up) <= m)
    BY Rounding
  <1>2. m * d \in Int
    BY ProductInt
  <1> QED BY <1>1, <1>2

\* Wrapping keeps a value within the width, and a value within the width.
LEMMA Wraps ==
    ASSUME NEW x \in Int
    PROVE  /\ WrapU64(x) \in U64 /\ (x \in U64 => WrapU64(x) = x)
           /\ WrapU128(x) \in U128 /\ (x \in U128 => WrapU128(x) = x)
  <1>1. ASSUME NEW d \in Nat \ {0} PROVE x % d \in 0..d - 1 /\ (x \in 0..d - 1 => x % d = x)
    OBVIOUS
  <1>2. WORD * WORD \in Nat \ {0} /\ WORD \in Nat \ {0}
    BY WordAssumption, ProductPositive
  <1> QED BY <1>1, <1>2 DEF WrapU64, WrapU128, U64, U128, U64MAX, U128MAX

LEMMA Widths ==
    /\ WORD \in Nat \ {0} /\ WORD * WORD \in Nat \ {0}
    /\ U64MAX \in Nat /\ U128MAX \in Nat /\ U64MAX <= U128MAX
    /\ I128MAX \in Nat /\ I128MAX <= U128MAX
    /\ U64 \subseteq Nat /\ U128 \subseteq Nat /\ U64 \subseteq U128
  <1>1. WORD \in Nat \ {0} /\ WORD * WORD \in Nat \ {0} /\ WORD <= WORD * WORD /\ 2 <= WORD * WORD
    <2>1. WORD \in Nat /\ WORD > 1 /\ WORD \in Nat \ {0}
      BY WordAssumption
    <2>2. 1 * WORD <= WORD * WORD
      BY <2>1, ProductMonotone
    <2> QED BY <2>1, <2>2, ProductPositive
  <1> DEFINE w == WORD * WORD
  <1>2. w \div 2 - 1 \in Nat /\ w \div 2 - 1 <= w - 1
    <2> HIDE DEF w
    <2>1. w \in Nat /\ 2 <= w
      BY <1>1 DEF w
    <2> QED BY <2>1
  <1> QED BY <1>1, <1>2 DEF U64MAX, U128MAX, I128MAX, U64, U128

LEMMA Unsigned ==
    /\ \A x \in U64 : x \in Nat /\ x \in Int /\ x <= U64MAX
    /\ \A x \in U128 : x \in Nat /\ x \in Int /\ x <= U128MAX
    /\ 0 \in U64 /\ 0 \in U128 /\ Err \notin U64 /\ Err \notin U128
  <1>1. U64MAX \in Nat /\ U128MAX \in Nat
    BY Widths
  <1> QED BY <1>1 DEF U64, U128, Err

LEMMA Remainder ==
    ASSUME NEW x \in Int, NEW d \in Nat \ {0}, NEW q \in Int, NEW r \in 0..d - 1, x = q * d + r
    PROVE  x % d = r
  <1> DEFINE z == x \div d
             y == x % d
  <1>1. z \in Int /\ y \in 0..d - 1 /\ x = z * d + y
    BY DivisionOf
  <1> HIDE DEF y, z
  <1>2. ASSUME NEW a \in Int, NEW b \in Int, a < b PROVE a * d + d <= b * d
    <2>1. a + 1 \in Int /\ a + 1 <= b
      BY <1>2
    <2>2. (a + 1) * d <= b * d
      BY <2>1, ProductMonotone
    <2>3. (a + 1) * d = a * d + 1 * d
      BY Distributes
    <2> QED BY <2>2, <2>3
  <1>3. q * d \in Int /\ z * d \in Int
    BY <1>1, ProductInt
  <1>4. q * d + r = z * d + y
    BY <1>1
  <1>5. ~(q < z) /\ ~(z < q)
    <2>1. q < z => q * d + d <= z * d
      BY <1>1, <1>2
    <2>2. z < q => z * d + d <= q * d
      BY <1>1, <1>2
    <2> DEFINE a == q * d
               b == z * d
    <2> HIDE DEF a, b
    <2> QED BY <1>1, <1>3, <1>4, <2>1, <2>2 DEF a, b
  <1>6. q = z
    BY <1>1, <1>5
  <1>7. q * d = z * d
    BY <1>6
  <1> QED BY <1>1, <1>3, <1>4, <1>7 DEF y

\* A difference of wrapping numbers may be taken before or after they wrap.
LEMMA WrapOfWrap ==
    ASSUME NEW x \in Int, NEW c \in Int
    PROVE  WrapU128(WrapU128(x) - c) = WrapU128(x - c)
  <1> DEFINE d == WORD * WORD
             q == x \div d
             r == x % d
             y == r - c
             z == y \div d
             e == y % d
  <1>1. d \in Nat \ {0}
    BY WordAssumption, ProductPositive
  <1> HIDE DEF d
  <1>2. q \in Int /\ r \in Int /\ x = q * d + r
    BY <1>1, DivisionOf
  <1> HIDE DEF q, r
  <1>3. y \in Int /\ y = r - c
    BY <1>2
  <1> HIDE DEF y
  <1>4. z \in Int /\ e \in 0..d - 1 /\ y = z * d + e
    BY <1>1, <1>3, DivisionOf
  <1> HIDE DEF z
  <1>5. q + z \in Int /\ (q + z) * d = q * d + z * d
    BY <1>1, <1>2, <1>4, Distributes
  <1>6. q * d \in Int /\ z * d \in Int
    BY <1>1, <1>2, <1>4, ProductInt
  <1>7. x - c = (q + z) * d + e
    <2> DEFINE a == q * d
               b == z * d
    <2> HIDE DEF a, b, e
    <2>1. x = a + r /\ y = b + e /\ a \in Int /\ b \in Int /\ (q + z) * d = a + b /\ e \in Int
      BY <1>1, <1>2, <1>4, <1>5, <1>6 DEF a, b
    <2> QED BY <1>2, <1>3, <2>1
  <1>8. x - c \in Int
    OBVIOUS
  <1>9. (x - c) % d = e
    <2> DEFINE u == x - c
               v == q + z
    <2> HIDE DEF u, v, e
    <2>1. u \in Int /\ v \in Int /\ u = v * d + e
      BY <1>5, <1>7, <1>8 DEF u, v
    <2> QED BY <1>1, <1>4, <2>1, Remainder DEF u
  <1> QED BY <1>9 DEF WrapU128, d, r, y, e

\* What is added to a wrapping number adds to its value as long as that fits.
LEMMA WrapRises ==
    ASSUME NEW x \in Int, NEW n \in Nat, WrapU128(x) + n \in U128
    PROVE  WrapU128(x + n) = WrapU128(x) + n
  <1>1. WrapU128(x) \in U128 /\ WrapU128(x) \in Int
    BY Wraps, Unsigned
  <1> DEFINE y == WrapU128(x) + n
  <1>2. WrapU128(WrapU128(x) - (-n)) = WrapU128(x - (-n))
    BY WrapOfWrap
  <1>3. WrapU128(x) - (-n) = y /\ x - (-n) = x + n
    BY <1>1
  <1>4. y \in Int /\ WrapU128(y) = y
    <2> HIDE DEF y
    <2>1. y \in U128
      BY DEF y
    <2> QED BY <2>1, Wraps, Unsigned
  <1> QED BY <1>2, <1>3, <1>4, Zenon

LEMMA WrapUnder ==
    ASSUME NEW x \in Int, NEW c \in Int
    PROVE  WrapU128(c - WrapU128(x)) = WrapU128(c - x)
  <1> DEFINE d == WORD * WORD
             q == x \div d
             r == x % d
             y == c - r
             z == y \div d
             e == y % d
  <1>1. d \in Nat \ {0}
    BY WordAssumption, ProductPositive
  <1> HIDE DEF d
  <1>2. q \in Int /\ r \in Int /\ x = q * d + r
    BY <1>1, DivisionOf
  <1> HIDE DEF q, r
  <1>3. y \in Int /\ y = c - r
    BY <1>2
  <1> HIDE DEF y
  <1>4. z \in Int /\ e \in 0..d - 1 /\ y = z * d + e
    BY <1>1, <1>3, DivisionOf
  <1> HIDE DEF z
  <1>5. z - q \in Int /\ (z - q) * d = z * d - q * d
    BY <1>1, <1>2, <1>4, Distributes
  <1>6. q * d \in Int /\ z * d \in Int
    BY <1>1, <1>2, <1>4, ProductInt
  <1>7. c - x = (z - q) * d + e
    <2> DEFINE a == q * d
               b == z * d
    <2> HIDE DEF a, b, e
    <2>1. x = a + r /\ y = b + e /\ a \in Int /\ b \in Int /\ (z - q) * d = b - a /\ e \in Int
      BY <1>1, <1>2, <1>4, <1>5, <1>6 DEF a, b
    <2> QED BY <1>2, <1>3, <2>1
  <1>8. c - x \in Int
    OBVIOUS
  <1>9. (c - x) % d = e
    <2> DEFINE u == c - x
               v == z - q
    <2> HIDE DEF u, v, e
    <2>1. u \in Int /\ v \in Int /\ u = v * d + e
      BY <1>5, <1>7, <1>8 DEF u, v
    <2> QED BY <1>1, <1>4, <2>1, Remainder DEF u
  <1> QED BY <1>9 DEF WrapU128, d, r, y, e

LEMMA WrapDifference ==
    ASSUME NEW x \in Int, NEW y \in Int, NEW z \in Int, NEW w \in Int,
           WrapU128(x) = WrapU128(y), WrapU128(z) = WrapU128(w)
    PROVE  WrapU128(x - z) = WrapU128(y - w)
  <1>1. WrapU128(WrapU128(x) - z) = WrapU128(x - z) /\ WrapU128(WrapU128(y) - z) = WrapU128(y - z)
    BY WrapOfWrap
  <1>2. WrapU128(y - WrapU128(z)) = WrapU128(y - z) /\ WrapU128(y - WrapU128(w)) = WrapU128(y - w)
    BY WrapUnder
  <1> QED BY <1>1, <1>2, Zenon

LEMMA WrapsToNothing ==
    ASSUME NEW x \in Int
    PROVE  WrapU128(x - WrapU128(x)) = 0
  <1>1. WrapU128(x - WrapU128(x)) = WrapU128(x - x)
    BY WrapUnder
  <1>2. x - x = 0 /\ WrapU128(0) = 0
    BY Wraps, Unsigned
  <1> QED BY <1>1, <1>2, Zenon

\* What is added to a wrapping number adds at most as much to its value.
LEMMA WrapAtMost ==
    ASSUME NEW x \in Int, NEW n \in Nat
    PROVE  WrapU128(x) \in Nat /\ WrapU128(x + n) \in Nat /\ WrapU128(x + n) <= WrapU128(x) + n
  <1>1. WrapU128(x) \in Nat /\ WrapU128(x + n) \in Nat
    <2>1. x + n \in Int
      OBVIOUS
    <2> QED BY <2>1, Wraps, Unsigned
  <1> DEFINE y == WrapU128(x) + n
  <1>2. WrapU128(WrapU128(x) - (-n)) = WrapU128(x - (-n))
    BY WrapOfWrap
  <1>3. WrapU128(x) - (-n) = y /\ x - (-n) = x + n
    BY <1>1
  <1>4. y \in Nat
    BY <1>1
  <1> HIDE DEF y
  <1>5. WrapU128(y) <= y
    <2> DEFINE d == WORD * WORD
    <2>1. d \in Nat \ {0}
      BY WordAssumption, ProductPositive
    <2> HIDE DEF d
    <2>2. y % d <= y
      BY <1>4, <2>1
    <2> QED BY <2>2 DEF WrapU128, d
  <1>6. WrapU128(x + n) = WrapU128(y)
    BY <1>2, <1>3, Zenon
  <1> QED BY <1>1, <1>5, <1>6 DEF y

-----------------------------------------------------------------------------
(* Results: the value or Err. *)

LEMMA CheckedResult ==
    ASSUME NEW x \in Int, NEW max \in Nat, Checked(x, max) # Err
    PROVE  Checked(x, max) = x /\ x \in 0..max
  BY DEF Checked, Err

LEMMA NoErr == Err \notin Nat
  BY DEF Err

LEMMA GapNat == ASSUME NEW p \in Nat, NEW q \in Nat PROVE PriceGap(p, q) \in Nat
  BY DEF PriceGap

LEMMA AmountA ==
    ASSUME NEW p \in Nat, NEW q \in Nat, NEW L \in Nat, NEW up \in BOOLEAN,
           get_amount_delta_a(p, q, L, up) # Err
    PROVE  /\ get_amount_delta_a(p, q, L, up) \in U64
           /\ p * q \in Nat \ {0} /\ L * PriceGap(p, q) * WORD \in Nat
           /\ get_amount_delta_a(p, q, L, up)
                = DivRound(L * PriceGap(p, q) * WORD, p * q, up)
  <1> DEFINE n == L * PriceGap(p, q) * WORD
             d == p * q
  <1>1. n \in Nat /\ d \in Nat
    BY GapNat, ProductNat, Widths
  <1>2. get_amount_delta_a(p, q, L, up)
          = IF n > U256MAX \/ d = 0 THEN Err ELSE Checked(DivRound(n, d, up), U64MAX)
    BY DEF get_amount_delta_a
  <1> HIDE DEF n, d
  <1>3. d \in Nat \ {0} /\ get_amount_delta_a(p, q, L, up) = Checked(DivRound(n, d, up), U64MAX)
    BY <1>1, <1>2
  <1>4. DivRound(n, d, up) \in Nat
    BY <1>1, <1>3, Rounding
  <1>5. /\ Checked(DivRound(n, d, up), U64MAX) = DivRound(n, d, up)
        /\ DivRound(n, d, up) \in U64
    <2> DEFINE x == DivRound(n, d, up)
    <2> HIDE DEF x
    <2> QED BY <1>3, <1>4, CheckedResult, Widths DEF U64, x
  <1> QED BY <1>1, <1>3, <1>5 DEF n, d

LEMMA ShiftRight ==
    ASSUME NEW a \in Nat, NEW b \in Nat, NEW up \in BOOLEAN,
           checked_mul_shift_right_round_up_if(a, b, up) # Err
    PROVE  /\ checked_mul_shift_right_round_up_if(a, b, up) \in U64
           /\ checked_mul_shift_right_round_up_if(a, b, up) = DivRound(a * b, WORD, up)
  <1> DEFINE n == a * b
             x == DivRound(n, WORD, up)
  <1>1. n \in Nat
    BY ProductNat
  <1>2. checked_mul_shift_right_round_up_if(a, b, up)
          = IF n > U128MAX THEN Err ELSE Checked(x, U64MAX)
    BY DEF checked_mul_shift_right_round_up_if
  <1> HIDE DEF n
  <1>3. x \in Nat
    BY <1>1, Rounding, Widths
  <1> HIDE DEF x
  <1>4. checked_mul_shift_right_round_up_if(a, b, up) = Checked(x, U64MAX)
    BY <1>2
  <1> QED BY <1>3, <1>4, CheckedResult, Widths DEF U64, n, x

LEMMA AmountB ==
    ASSUME NEW p \in Nat, NEW q \in Nat, NEW L \in Nat, NEW up \in BOOLEAN,
           get_amount_delta_b(p, q, L, up) # Err
    PROVE  /\ get_amount_delta_b(p, q, L, up) \in U64
           /\ L * PriceGap(p, q) \in Nat
           /\ get_amount_delta_b(p, q, L, up) = DivRound(L * PriceGap(p, q), WORD, up)
  BY GapNat, ProductNat, ShiftRight DEF get_amount_delta_b

LEMMA MulDiv ==
    ASSUME NEW a \in Nat, NEW b \in Nat, NEW d \in Nat, NEW up \in BOOLEAN,
           checked_mul_div_round_up_if(a, b, d, up) # Err
    PROVE  /\ d \in Nat \ {0} /\ a * b \in Nat /\ a * b <= U128MAX
           /\ checked_mul_div_round_up_if(a, b, d, up) = DivRound(a * b, d, up)
           /\ checked_mul_div_round_up_if(a, b, d, up) \in U128
  <1> DEFINE n == a * b
             x == DivRound(n, d, up)
  <1>1. n \in Nat
    BY ProductNat
  <1>2. checked_mul_div_round_up_if(a, b, d, up) = IF d = 0 \/ n > U128MAX THEN Err ELSE x
    BY DEF checked_mul_div_round_up_if
  <1> HIDE DEF n
  <1>3. d \in Nat \ {0} /\ n <= U128MAX /\ checked_mul_div_round_up_if(a, b, d, up) = x
    BY <1>1, <1>2, Widths
  <1>4. n <= n * d
    BY <1>1, <1>3, ProductMonotone
  <1>5. x \in Nat /\ x <= n
    BY <1>1, <1>3, <1>4, Rounding
  <1> HIDE DEF x
  <1>6. x \in U128
    BY <1>1, <1>3, <1>5, Widths DEF U128
  <1> QED BY <1>1, <1>3, <1>6 DEF n, x

-----------------------------------------------------------------------------
(* The price that an amount moves the pool to. *)

\* Liquidity times a difference of prices, multiplied out.
LEMMA GapOut ==
    ASSUME NEW L \in Nat, NEW p \in Nat, NEW q \in Nat
    PROVE  /\ L * WORD \in Nat
           /\ L * p * WORD = p * (L * WORD)
           /\ q <= p => L * PriceGap(p, q) * WORD = p * (L * WORD) - q * (L * WORD)
           /\ p <= q => L * PriceGap(p, q) * WORD = q * (L * WORD) - p * (L * WORD)
  <1>1. WORD \in Nat
    BY Widths
  <1>2. ASSUME NEW g \in Int PROVE L * g * WORD = g * (L * WORD)
    BY <1>1
  <1>3. L * WORD \in Nat
    BY <1>1, ProductNat
  <1>4. q <= p => PriceGap(p, q) = p - q
    BY DEF PriceGap
  <1>5. p <= q => PriceGap(p, q) = q - p
    BY DEF PriceGap
  <1>6. (p - q) * (L * WORD) = p * (L * WORD) - q * (L * WORD)
    BY <1>3, Distributes
  <1>7. (q - p) * (L * WORD) = q * (L * WORD) - p * (L * WORD)
    BY <1>3, Distributes
  <1>8. p - q \in Int /\ q - p \in Int
    OBVIOUS
  <1> QED BY <1>2, <1>3, <1>4, <1>5, <1>6, <1>7, <1>8

\* The next price by an amount of a, as a rounded quotient.
LEMMA NextByA ==
    ASSUME NEW p \in Nat, NEW L \in Nat, NEW m \in Nat, NEW in \in BOOLEAN, m # 0,
           get_next_sqrt_price_from_a_round_up(p, L, m, in) # Err
    PROVE  LET d == IF in THEN L * WORD + p * m ELSE L * WORD - p * m
           IN  /\ d \in Nat \ {0} /\ p * (L * WORD) \in Nat
               /\ get_next_sqrt_price_from_a_round_up(p, L, m, in)
                    = DivRound(p * (L * WORD), d, TRUE)
  <1> DEFINE d == IF in THEN L * WORD + p * m ELSE L * WORD - p * m
             n == L * p * WORD
             x == DivRound(n, d, TRUE)
             next == get_next_sqrt_price_from_a_round_up(p, L, m, in)
  <1>1. n = p * (L * WORD) /\ n \in Nat /\ d \in Int
    <2>1. L * WORD \in Nat /\ p * m \in Nat /\ n = p * (L * WORD)
      BY GapOut, ProductNat
    <2> QED BY <2>1, ProductNat
  <1>2. next = IF m = 0 THEN p
               ELSE IF n > U256MAX \/ d <= 0 THEN Err
               ELSE IF x < MIN_SQRT_PRICE_X64 \/ x > MAX_SQRT_PRICE_X64 THEN Err
               ELSE x
    BY DEF get_next_sqrt_price_from_a_round_up
  <1> HIDE DEF d, n, next
  <1>3. next = x /\ ~(d <= 0)
    BY <1>2 DEF next
  <1>4. d \in Nat \ {0} /\ next = DivRound(p * (L * WORD), d, TRUE)
    BY <1>1, <1>3
  <1> QED BY <1>1, <1>4 DEF d, n, next

\* An input of a too small to reach the target lowers the price to above the
\* target, and no further than it pays for.
LEMMA ShortInputOfA ==
    ASSUME NEW p \in Nat \ {0}, NEW t \in Nat \ {0}, t <= p, NEW L \in Nat, NEW m \in Nat,
           m * (p * t) < L * PriceGap(p, t) * WORD,
           get_next_sqrt_price_from_a_round_up(p, L, m, TRUE) # Err
    PROVE  LET next == get_next_sqrt_price_from_a_round_up(p, L, m, TRUE)
           IN  next \in t + 1..p /\ L * PriceGap(p, next) * WORD <= m * (p * next)
  <1> DEFINE next == get_next_sqrt_price_from_a_round_up(p, L, m, TRUE)
             A == L * WORD
             d == A + p * m
  <1>1. A \in Nat /\ m * (p * t) < p * A - t * A
    BY GapOut
  <1>2. CASE m = 0
    <2>1. next = p
      BY <1>2 DEF get_next_sqrt_price_from_a_round_up
    <2>2. p # t
      <3>1. m * (p * t) = 0 /\ p * A \in Int
        BY <1>1, <1>2, ProductInt
      <3> HIDE DEF A
      <3> QED BY <1>1, <3>1
    <2> HIDE DEF next
    <2>3. L * PriceGap(p, next) * WORD = 0 /\ m * (p * next) = 0
      <3>1. PriceGap(p, next) = 0
        BY <2>1 DEF PriceGap
      <3> QED BY <1>2, <2>1, <3>1, Widths
    <2>4. next \in t + 1..p /\ L * PriceGap(p, next) * WORD <= m * (p * next)
      BY <2>1, <2>2, <2>3
    <2> QED BY <2>4 DEF next
  <1>3. CASE m # 0
    <2>1. d \in Nat \ {0} /\ p * A \in Nat /\ next = DivRound(p * A, d, TRUE)
      BY <1>3, NextByA, ZenonT(60)
    <2>2. t * d < p * A
      <3>1. t * d = t * A + t * (p * m)
        BY <1>1, ProductNat, Distributes
      <3>2. t * (p * m) = m * (p * t)
        OBVIOUS
      <3> HIDE DEF A, d
      <3>3. t * A \in Int /\ p * A \in Int /\ m * (p * t) \in Int
        BY <1>1, ProductInt, ProductNat
      <3> QED BY <1>1, <3>1, <3>2, <3>3
    <2>3. p * A <= p * d
      <3>1. p * d = p * A + p * (p * m)
        BY <1>1, ProductNat, Distributes
      <3>2. p * A \in Nat /\ p * (p * m) \in Nat
        BY <1>1, ProductNat
      <3> HIDE DEF A, d
      <3> QED BY <3>1, <3>2
    <2>4. t \in Int /\ p \in Int
      OBVIOUS
    <2> DEFINE n == p * A
    <2>5. n \in Nat /\ next = DivRound(n, d, TRUE) /\ t * d < n /\ n <= p * d
      BY <2>1, <2>2, <2>3
    <2> HIDE DEF A, d, n, next
    <2>6. next \in Nat /\ next <= p /\ n <= next * d
      <3>1. t * d <= n
        BY <2>1, <2>4, <2>5, ProductInt
      <3> QED BY <2>1, <2>4, <2>5, <3>1, RoundedBetween, Zenon
    <2>7. t < next
      <3>1. d \in Nat \ {0} /\ d \in Int /\ next \in Int
        <4>1. d \in Nat \ {0} /\ next \in Nat
          BY <2>1, <2>6, Zenon
        <4> QED BY <4>1
      <3>2. t * d \in Int /\ next * d \in Int /\ (t < next <=> t * d < next * d)
        BY <2>4, <3>1, ProductInt, ProductOrder, Zenon
      <3>3. t * d < n /\ n <= next * d /\ n \in Int
        <4>1. t * d < n /\ n <= next * d /\ n \in Nat
          BY <2>5, <2>6, Zenon
        <4> QED BY <4>1
      <3> DEFINE a == t * d
                 b == next * d
      <3> HIDE DEF a, b
      <3>4. a < b
        BY <3>2, <3>3 DEF a, b
      <3> QED BY <3>2, <3>4 DEF a, b
    <2>8. L * PriceGap(p, next) * WORD <= m * (p * next)
      <3>1. L * PriceGap(p, next) * WORD = n - next * A
        BY <2>6, GapOut DEF A, n
      <3>2. next * d = next * A + next * (p * m)
        BY <1>1, <2>6, ProductNat, Distributes DEF d
      <3>3. next * (p * m) = m * (p * next)
        BY <2>6
      <3>4. next * A \in Int /\ m * (p * next) \in Int
        BY <1>1, <2>6, ProductInt, ProductNat
      <3> DEFINE a == next * A
                 b == m * (p * next)
      <3>5. a \in Int /\ b \in Int
        BY <3>4, Zenon
      <3>6. n <= a + b
        BY <2>6, <3>2, <3>3
      <3>7. L * PriceGap(p, next) * WORD = n - a
        BY <3>1
      <3> HIDE DEF a, b
      <3>8. n - a <= b
        BY <2>5, <3>5, <3>6
      <3> QED BY <3>7, <3>8 DEF b
    <2>9. next \in t + 1..p
      BY <2>6, <2>7
    <2> QED BY <2>8, <2>9 DEF next
  <1> QED BY <1>2, <1>3

\* An output of a too small to reach the target raises the price to the target
\* at most, and far enough to pay for that output.
LEMMA ShortOutputOfA ==
    ASSUME NEW p \in Nat \ {0}, NEW t \in Nat \ {0}, p <= t, NEW L \in Nat, NEW m \in Nat,
           m * (p * t) < L * PriceGap(p, t) * WORD,
           get_next_sqrt_price_from_a_round_up(p, L, m, FALSE) # Err
    PROVE  LET next == get_next_sqrt_price_from_a_round_up(p, L, m, FALSE)
           IN  next \in p..t /\ m * (p * next) <= L * PriceGap(p, next) * WORD
  <1> DEFINE next == get_next_sqrt_price_from_a_round_up(p, L, m, FALSE)
             A == L * WORD
             d == A - p * m
  <1>1. A \in Nat /\ m * (p * t) < t * A - p * A
    BY GapOut
  <1>2. CASE m = 0
    <2>1. next = p
      BY <1>2 DEF get_next_sqrt_price_from_a_round_up
    <2> HIDE DEF next
    <2>2. m * (p * next) = 0
      BY <1>2, <2>1
    <2>3. L * PriceGap(p, next) * WORD \in Nat
      BY <2>1, GapNat, ProductNat, Widths
    <2>4. next \in p..t /\ m * (p * next) <= L * PriceGap(p, next) * WORD
      BY <2>1, <2>2, <2>3
    <2> QED BY <2>4 DEF next
  <1>3. CASE m # 0
    <2>1. d \in Nat \ {0} /\ p * A \in Nat /\ next = DivRound(p * A, d, TRUE)
      BY <1>3, NextByA, ZenonT(60)
    <2>2. p * A <= t * d
      <3>1. t * d = t * A - t * (p * m)
        BY <1>1, ProductNat, Distributes
      <3>2. t * (p * m) = m * (p * t)
        OBVIOUS
      <3> HIDE DEF A, d
      <3>3. t * A \in Int /\ p * A \in Int /\ m * (p * t) \in Int
        BY <1>1, ProductInt, ProductNat
      <3> QED BY <1>1, <3>1, <3>2, <3>3
    <2>3. p * d <= p * A
      <3>1. p * d = p * A - p * (p * m)
        BY <1>1, ProductNat, Distributes
      <3>2. p * A \in Nat /\ p * (p * m) \in Nat
        BY <1>1, ProductNat
      <3> HIDE DEF A, d
      <3> QED BY <3>1, <3>2
    <2>10. t \in Int /\ p \in Int
      OBVIOUS
    <2> DEFINE n == p * A
    <2>7. n \in Nat /\ next = DivRound(n, d, TRUE) /\ p * d <= n /\ n <= t * d
      BY <2>1, <2>2, <2>3
    <2> HIDE DEF A, d, n, next
    <2>4. next \in Nat /\ p <= next /\ next <= t /\ p * A <= next * d
      BY <2>1, <2>7, <2>10, RoundedBetween, Zenon DEF n
    <2>5. m * (p * next) <= L * PriceGap(p, next) * WORD
      <3>1. L * PriceGap(p, next) * WORD = next * A - p * A
        BY <2>4, GapOut DEF A
      <3>2. next * d = next * A - next * (p * m)
        BY <1>1, <2>4, ProductNat, Distributes DEF d
      <3>3. next * (p * m) = m * (p * next)
        BY <2>4
      <3>4. next * A \in Int /\ m * (p * next) \in Int
        BY <1>1, <2>4, ProductInt, ProductNat
      <3> DEFINE a == next * A
                 b == m * (p * next)
                 e == p * A
      <3>5. a \in Int /\ b \in Int /\ e \in Int /\ e <= a - b
        <4>1. next * (p * m) = b /\ e <= next * d
          BY <2>4, <3>3
        <4>2. a \in Int /\ b \in Int
          BY <3>4, Zenon
        <4>4. e \in Int
          <5>1. e \in Nat
            BY <2>1, Zenon
          <5> HIDE DEF e
          <5> QED BY <5>1
        <4>3. next * d = a - b
          BY <3>2, <4>1
        <4> HIDE DEF a, b, e
        <4> QED BY <4>1, <4>2, <4>3, <4>4
      <3>6. L * PriceGap(p, next) * WORD = a - e
        BY <3>1
      <3> HIDE DEF a, b, e
      <3>7. b <= a - e
        BY <3>5
      <3> QED BY <3>6, <3>7 DEF b
    <2>6. next \in p..t
      BY <2>4
    <2> QED BY <2>5, <2>6 DEF next
  <1> QED BY <1>2, <1>3

\* The next price by an amount of b: a rounded quotient added or taken off.
LEMMA NextByB ==
    ASSUME NEW p \in Nat, NEW L \in Nat, NEW m \in Nat, NEW in \in BOOLEAN,
           get_next_sqrt_price_from_b_round_down(p, L, m, in) # Err
    PROVE  /\ L \in Nat \ {0}
           /\ in => get_next_sqrt_price_from_b_round_down(p, L, m, in)
                        = p + DivRound(m * WORD, L, FALSE)
           /\ ~in => get_next_sqrt_price_from_b_round_down(p, L, m, in)
                        = p - DivRound(m * WORD, L, TRUE)
  <1> DEFINE n == m * WORD
             x == DivRound(n, L, ~in)
             y == IF in THEN p + x ELSE p - x
             next == get_next_sqrt_price_from_b_round_down(p, L, m, in)
  <1>1. n \in Nat
    BY Widths, ProductNat
  <1>2. next = IF div_round_up_if(n, L, ~in) = Err THEN Err
               ELSE Checked(IF in THEN p + div_round_up_if(n, L, ~in)
                                  ELSE p - div_round_up_if(n, L, ~in), U128MAX)
    BY DEF get_next_sqrt_price_from_b_round_down
  <1>3. div_round_up_if(n, L, ~in) = IF L = 0 THEN Err ELSE x
    BY DEF div_round_up_if
  <1> HIDE DEF n, next
  <1>4. L \in Nat \ {0} /\ next = Checked(y, U128MAX)
    <2>1. L # 0
      BY <1>2, <1>3 DEF next
    <2>2. x # Err
      BY <1>2, <1>3, <2>1 DEF next
    <2> QED BY <1>2, <1>3, <2>1, <2>2
  <1>5. x \in Nat
    <2>1. \A up \in BOOLEAN : DivRound(n, L, up) \in Nat
      BY <1>1, <1>4, Rounding
    <2> QED BY <2>1
  <1>8. x = DivRound(n, L, ~in)
    OBVIOUS
  <1> HIDE DEF x
  <1>6. y \in Int
    BY <1>5
  <1> HIDE DEF y
  <1>7. next = y
    <2>1. Checked(y, U128MAX) # Err
      BY <1>4 DEF next
    <2> QED BY <1>4, <1>6, <2>1, CheckedResult, Widths
  <1>9. /\ in => next = p + DivRound(n, L, FALSE)
        /\ ~in => next = p - DivRound(n, L, TRUE)
    <2>1. CASE in = TRUE
      BY <1>7, <1>8, <2>1 DEF y
    <2>2. CASE in = FALSE
      BY <1>7, <1>8, <2>2 DEF y
    <2> QED BY <2>1, <2>2
  <1> QED BY <1>4, <1>9 DEF n, next

\* An input of b too small to reach the target raises the price to below the
\* target, and no further than it pays for.
LEMMA ShortInputOfB ==
    ASSUME NEW p \in Nat, NEW t \in Nat, p <= t, NEW L \in Nat, NEW m \in Nat,
           m * WORD < L * PriceGap(p, t),
           get_next_sqrt_price_from_b_round_down(p, L, m, TRUE) # Err
    PROVE  LET next == get_next_sqrt_price_from_b_round_down(p, L, m, TRUE)
           IN  next \in p..t - 1 /\ L * PriceGap(p, next) <= m * WORD
  <1> DEFINE next == get_next_sqrt_price_from_b_round_down(p, L, m, TRUE)
             n == m * WORD
             x == DivRound(n, L, FALSE)
  <1>1. L \in Nat \ {0} /\ n \in Nat /\ x \in Nat /\ next = p + x
    <2>1. L \in Nat \ {0} /\ next = p + x
      BY NextByB
    <2>2. n \in Nat
      BY Widths, ProductNat
    <2> HIDE DEF n, next
    <2>3. \A up \in BOOLEAN : DivRound(n, L, up) \in Nat
      BY <2>1, <2>2, Rounding
    <2> QED BY <2>1, <2>2, <2>3
  <1>2. n < (t - p) * L
    <2>1. PriceGap(p, t) = t - p
      BY DEF PriceGap
    <2>2. L * (t - p) = (t - p) * L
      OBVIOUS
    <2> HIDE DEF n, x, next
    <2> QED BY <2>1, <2>2 DEF n
  <1>3. t - p \in Int
    OBVIOUS
  <1> HIDE DEF n, next
  <1>4. x * L <= n
    <2>1. \A up \in BOOLEAN : ~up => DivRound(n, L, up) * L <= n
      BY <1>1, Rounding
    <2> QED BY <2>1
  <1> HIDE DEF x
  <1>5. x < t - p
    <2>1. x * L < (t - p) * L
      BY <1>1, <1>2, <1>3, <1>4, ProductInt
    <2> QED BY <1>1, <1>3, <2>1, ProductOrder
  <1>6. next \in p..t - 1 /\ PriceGap(p, next) = x
    BY <1>1, <1>5 DEF PriceGap
  <1>7. L * PriceGap(p, next) <= n
    BY <1>1, <1>4, <1>6
  <1> QED BY <1>6, <1>7 DEF n, next

\* An output of b too small to reach the target lowers the price to the target
\* at most, and far enough to pay for that output.
LEMMA ShortOutputOfB ==
    ASSUME NEW p \in Nat, NEW t \in Nat, t <= p, NEW L \in Nat, NEW m \in Nat,
           m * WORD < L * PriceGap(p, t),
           get_next_sqrt_price_from_b_round_down(p, L, m, FALSE) # Err
    PROVE  LET next == get_next_sqrt_price_from_b_round_down(p, L, m, FALSE)
           IN  next \in t..p /\ m * WORD <= L * PriceGap(p, next)
  <1> DEFINE next == get_next_sqrt_price_from_b_round_down(p, L, m, FALSE)
             n == m * WORD
             x == DivRound(n, L, TRUE)
  <1>1. L \in Nat \ {0} /\ n \in Nat /\ x \in Nat /\ next = p - x
    <2>1. L \in Nat \ {0} /\ next = p - x
      BY NextByB
    <2>2. n \in Nat
      BY Widths, ProductNat
    <2> HIDE DEF n, next
    <2>3. \A up \in BOOLEAN : DivRound(n, L, up) \in Nat
      BY <2>1, <2>2, Rounding
    <2> QED BY <2>1, <2>2, <2>3
  <1>2. n <= (p - t) * L
    <2>1. PriceGap(p, t) = p - t
      BY DEF PriceGap
    <2>2. L * (p - t) = (p - t) * L /\ L * (p - t) \in Int
      OBVIOUS
    <2> HIDE DEF x, next
    <2>3. n < (p - t) * L
      BY <2>1, <2>2
    <2> HIDE DEF n
    <2> QED BY <1>1, <2>2, <2>3
  <1>3. p - t \in Int
    OBVIOUS
  <1> HIDE DEF n, next
  <1>4. x <= p - t /\ n <= x * L
    BY <1>1, <1>2, <1>3, Rounding
  <1> HIDE DEF x
  <1>5. next \in t..p /\ PriceGap(p, next) = x
    BY <1>1, <1>4 DEF PriceGap
  <1>6. n <= L * PriceGap(p, next)
    BY <1>1, <1>4, <1>5
  <1> QED BY <1>5, <1>6 DEF n, next

-----------------------------------------------------------------------------
(* One step of a swap. *)

\* An amount below the rounded one is below the exact one; one that is not
\* above the exact one is not above the rounded one.
LEMMA ComparedWithA ==
    ASSUME NEW p \in Nat, NEW q \in Nat, NEW L \in Nat, NEW up \in BOOLEAN, NEW m \in Nat,
           get_amount_delta_a(p, q, L, up) # Err
    PROVE  /\ m < get_amount_delta_a(p, q, L, up) => m * (p * q) < L * PriceGap(p, q) * WORD
           /\ m * (p * q) <= L * PriceGap(p, q) * WORD => m <= get_amount_delta_a(p, q, L, up)
           /\ L * PriceGap(p, q) * WORD <= m * (p * q) => get_amount_delta_a(p, q, L, up) <= m
  <1> DEFINE n == L * PriceGap(p, q) * WORD
             d == p * q
             x == get_amount_delta_a(p, q, L, up)
  <1>1. n \in Nat /\ d \in Nat \ {0} /\ x = DivRound(n, d, up)
    BY AmountA
  <1> HIDE DEF n, d, x
  <1>2. m < x => m * d < n
    BY <1>1, BelowRounded
  <1>3. (m * d <= n => m <= x) /\ (n <= m * d => x <= m)
    BY <1>1, Rounding
  <1> QED BY <1>2, <1>3 DEF n, d, x

LEMMA ComparedWithB ==
    ASSUME NEW p \in Nat, NEW q \in Nat, NEW L \in Nat, NEW up \in BOOLEAN, NEW m \in Nat,
           get_amount_delta_b(p, q, L, up) # Err
    PROVE  /\ m < get_amount_delta_b(p, q, L, up) => m * WORD < L * PriceGap(p, q)
           /\ m * WORD <= L * PriceGap(p, q) => m <= get_amount_delta_b(p, q, L, up)
           /\ L * PriceGap(p, q) <= m * WORD => get_amount_delta_b(p, q, L, up) <= m
  <1> DEFINE n == L * PriceGap(p, q)
             x == get_amount_delta_b(p, q, L, up)
  <1>1. n \in Nat /\ x = DivRound(n, WORD, up)
    BY AmountB
  <1>2. WORD \in Nat \ {0}
    BY Widths
  <1> HIDE DEF n, x
  <1>3. m < x => m * WORD < n
    BY <1>1, <1>2, BelowRounded
  <1>4. (m * WORD <= n => m <= x) /\ (n <= m * WORD => x <= m)
    BY <1>1, <1>2, Rounding
  <1> QED BY <1>3, <1>4 DEF n, x

\* The target is on the side that the swap moves to, and so is a price between.
Towards(p, t, a_to_b) == IF a_to_b THEN t <= p ELSE p <= t

Between(next, p, t, a_to_b) == IF a_to_b THEN next \in t..p ELSE next \in p..t

\* An amount that does not reach the target moves the price to no further than
\* the target: a given input, short of it and no further than it pays for; a
\* given output, far enough to be paid for.
LEMMA PriceStopsShort ==
    ASSUME NEW p \in Nat \ {0}, NEW t \in Nat \ {0}, NEW L \in Nat, NEW m \in Nat,
           NEW is_input \in BOOLEAN, NEW a_to_b \in BOOLEAN, Towards(p, t, a_to_b),
           get_amount_fixed_delta(p, t, L, is_input, a_to_b) # Err,
           m < get_amount_fixed_delta(p, t, L, is_input, a_to_b),
           NEW next, next = get_next_sqrt_price(p, L, m, is_input, a_to_b), next # Err
    PROVE  /\ Between(next, p, t, a_to_b)
           /\ is_input => next # t
           /\ (is_input /\ get_amount_fixed_delta(p, next, L, is_input, a_to_b) # Err)
                => get_amount_fixed_delta(p, next, L, is_input, a_to_b) <= m
           /\ (~is_input /\ get_amount_fixed_delta(p, next, L, is_input, a_to_b) # Err)
                => m <= get_amount_fixed_delta(p, next, L, is_input, a_to_b)
  <1>1. CASE is_input = TRUE /\ a_to_b = TRUE
    <2>1. /\ get_amount_delta_a(p, t, L, TRUE) # Err /\ m < get_amount_delta_a(p, t, L, TRUE)
          /\ next = get_next_sqrt_price_from_a_round_up(p, L, m, TRUE) /\ t <= p
      BY <1>1 DEF get_amount_fixed_delta, get_next_sqrt_price, Towards
    <2>2. m * (p * t) < L * PriceGap(p, t) * WORD
      BY <2>1, ComparedWithA
    <2>3. next \in t + 1..p /\ L * PriceGap(p, next) * WORD <= m * (p * next)
      BY <2>1, <2>2, ShortInputOfA
    <2>4. next \in Nat /\ next \in t..p /\ next # t
      BY <2>3
    <2>5. get_amount_delta_a(p, next, L, TRUE) # Err => get_amount_delta_a(p, next, L, TRUE) <= m
      BY <2>3, <2>4, ComparedWithA
    <2> QED BY <1>1, <2>4, <2>5 DEF Between, get_amount_fixed_delta
  <1>2. CASE is_input = TRUE /\ a_to_b = FALSE
    <2>1. /\ get_amount_delta_b(p, t, L, TRUE) # Err /\ m < get_amount_delta_b(p, t, L, TRUE)
          /\ next = get_next_sqrt_price_from_b_round_down(p, L, m, TRUE) /\ p <= t
      BY <1>2 DEF get_amount_fixed_delta, get_next_sqrt_price, Towards
    <2>2. m * WORD < L * PriceGap(p, t)
      BY <2>1, ComparedWithB
    <2>3. next \in p..t - 1 /\ L * PriceGap(p, next) <= m * WORD
      BY <2>1, <2>2, ShortInputOfB
    <2>4. next \in Nat /\ next \in p..t /\ next # t
      BY <2>3
    <2>5. get_amount_delta_b(p, next, L, TRUE) # Err => get_amount_delta_b(p, next, L, TRUE) <= m
      BY <2>3, <2>4, ComparedWithB
    <2> QED BY <1>2, <2>4, <2>5 DEF Between, get_amount_fixed_delta
  <1>3. CASE is_input = FALSE /\ a_to_b = FALSE
    <2>1. /\ get_amount_delta_a(p, t, L, FALSE) # Err /\ m < get_amount_delta_a(p, t, L, FALSE)
          /\ next = get_next_sqrt_price_from_a_round_up(p, L, m, FALSE) /\ p <= t
      BY <1>3 DEF get_amount_fixed_delta, get_next_sqrt_price, Towards
    <2>2. m * (p * t) < L * PriceGap(p, t) * WORD
      BY <2>1, ComparedWithA
    <2>3. next \in p..t /\ m * (p * next) <= L * PriceGap(p, next) * WORD
      BY <2>1, <2>2, ShortOutputOfA
    <2>4. get_amount_delta_a(p, next, L, FALSE) # Err => m <= get_amount_delta_a(p, next, L, FALSE)
      <3>1. next \in Nat
        BY <2>3
      <3> QED BY <2>3, <3>1, ComparedWithA
    <2> QED BY <1>3, <2>3, <2>4 DEF Between, get_amount_fixed_delta
  <1>4. CASE is_input = FALSE /\ a_to_b = TRUE
    <2>1. /\ get_amount_delta_b(p, t, L, FALSE) # Err /\ m < get_amount_delta_b(p, t, L, FALSE)
          /\ next = get_next_sqrt_price_from_b_round_down(p, L, m, FALSE) /\ t <= p
      BY <1>4 DEF get_amount_fixed_delta, get_next_sqrt_price, Towards
    <2>2. m * WORD < L * PriceGap(p, t)
      BY <2>1, ComparedWithB
    <2>3. next \in t..p /\ m * WORD <= L * PriceGap(p, next)
      BY <2>1, <2>2, ShortOutputOfB
    <2>4. get_amount_delta_b(p, next, L, FALSE) # Err => m <= get_amount_delta_b(p, next, L, FALSE)
      <3>1. next \in Nat
        BY <2>3
      <3> QED BY <2>3, <3>1, ComparedWithB
    <2> QED BY <1>4, <2>3, <2>4 DEF Between, get_amount_fixed_delta
  <1> QED BY <1>1, <1>2, <1>3, <1>4

\* The intermediate values of a step that succeeds.
Computes(c, remaining, fee_rate, L, p, t, is_input, a_to_b, toTarget, calc, unfixed, fixed) ==
    /\ toTarget = get_amount_fixed_delta(p, t, L, is_input, a_to_b) /\ toTarget # Err
    /\ calc = AmountCalc(remaining, fee_rate, is_input) /\ calc # Err
    /\ IF calc >= toTarget THEN c.next_price = t
       ELSE c.next_price = get_next_sqrt_price(p, L, calc, is_input, a_to_b)
    /\ c.next_price # Err
    /\ unfixed = get_amount_unfixed_delta(p, c.next_price, L, is_input, a_to_b) /\ unfixed # Err
    /\ fixed = get_amount_fixed_delta(p, c.next_price, L, is_input, a_to_b) /\ fixed # Err
    /\ c.amount_in = IF is_input THEN fixed ELSE unfixed
    /\ c.amount_out = IF is_input THEN unfixed
                      ELSE IF fixed > remaining THEN remaining ELSE fixed
    /\ c.fee_amount = StepFee(remaining, c.amount_in, fee_rate, is_input, c.next_price = t)
    /\ c.fee_amount # Err

LEMMA ComputeSwap ==
    ASSUME NEW remaining, NEW fee_rate, NEW L, NEW p, NEW t, NEW is_input, NEW a_to_b, NEW c,
           c = compute_swap(remaining, fee_rate, L, p, t, is_input, a_to_b), ~c.error
    PROVE  \E toTarget, calc, unfixed, fixed :
              Computes(c, remaining, fee_rate, L, p, t, is_input, a_to_b, toTarget, calc, unfixed, fixed)
  <1> DEFINE toTarget == get_amount_fixed_delta(p, t, L, is_input, a_to_b)
             calc == AmountCalc(remaining, fee_rate, is_input)
             next == NextPrice(calc, toTarget, L, p, t, is_input, a_to_b)
             unfixed == get_amount_unfixed_delta(p, next, L, is_input, a_to_b)
             moved == get_amount_fixed_delta(p, next, L, is_input, a_to_b)
             fixed == IF next = t THEN toTarget ELSE moved
             in == IF is_input THEN fixed ELSE unfixed
             out == IF is_input THEN unfixed
                    ELSE IF fixed > remaining THEN remaining ELSE fixed
             fee == StepFee(remaining, in, fee_rate, is_input, next = t)
  <1>1. c = IF \/ toTarget = Err \/ calc = Err \/ next = Err
               \/ unfixed = Err \/ fixed = Err \/ fee = Err
            THEN StepError
            ELSE [error |-> FALSE, amount_in |-> in, amount_out |-> out,
                  next_price |-> next, fee_amount |-> fee]
    BY Zenon DEF compute_swap
  <1>2. next = IF calc >= toTarget THEN t ELSE get_next_sqrt_price(p, L, calc, is_input, a_to_b)
    BY DEF NextPrice
  <1>3. fixed = moved
    BY Zenon
  <1>4. in = IF is_input THEN fixed ELSE unfixed
    OBVIOUS
  <1>5. out = IF is_input THEN unfixed ELSE IF fixed > remaining THEN remaining ELSE fixed
    OBVIOUS
  <1>6. fee = StepFee(remaining, in, fee_rate, is_input, next = t)
    OBVIOUS
  <1>7. /\ unfixed = get_amount_unfixed_delta(p, next, L, is_input, a_to_b)
        /\ fixed = get_amount_fixed_delta(p, next, L, is_input, a_to_b)
    BY <1>3
  <1>8. toTarget = get_amount_fixed_delta(p, t, L, is_input, a_to_b)
        /\ calc = AmountCalc(remaining, fee_rate, is_input)
    OBVIOUS
  <1> HIDE DEF toTarget, calc, next, unfixed, moved, fixed, in, out, fee
  <1>9. /\ toTarget # Err /\ calc # Err /\ next # Err /\ unfixed # Err /\ fixed # Err /\ fee # Err
        /\ c.next_price = next /\ c.amount_in = in /\ c.amount_out = out /\ c.fee_amount = fee
    BY <1>1 DEF StepError
  <1>10. IF calc >= toTarget THEN c.next_price = t
         ELSE c.next_price = get_next_sqrt_price(p, L, calc, is_input, a_to_b)
    BY <1>2, <1>9, Zenon
  <1>11. /\ unfixed = get_amount_unfixed_delta(p, c.next_price, L, is_input, a_to_b)
         /\ fixed = get_amount_fixed_delta(p, c.next_price, L, is_input, a_to_b)
         /\ c.next_price # Err /\ c.fee_amount # Err
    BY <1>7, <1>9, Zenon
  <1>12. /\ c.amount_in = IF is_input THEN fixed ELSE unfixed
         /\ c.amount_out = IF is_input THEN unfixed
                           ELSE IF fixed > remaining THEN remaining ELSE fixed
    BY <1>4, <1>5, <1>9, Zenon
  <1>13. c.fee_amount = StepFee(remaining, c.amount_in, fee_rate, is_input, c.next_price = t)
    BY <1>6, <1>9, Zenon
  <1>14. Computes(c, remaining, fee_rate, L, p, t, is_input, a_to_b, toTarget, calc, unfixed, fixed)
    BY <1>8, <1>9, <1>10, <1>11, <1>12, <1>13, Zenon DEF Computes
  <1> QED BY <1>14, Zenon

LEMMA AmountsTyped ==
    ASSUME NEW p \in Nat, NEW q \in Nat, NEW L \in Nat, NEW is_input \in BOOLEAN,
           NEW a_to_b \in BOOLEAN
    PROVE  /\ get_amount_fixed_delta(p, q, L, is_input, a_to_b) \in U64 \cup {Err}
           /\ get_amount_unfixed_delta(p, q, L, is_input, a_to_b) \in U64 \cup {Err}
  <1>1. \A up \in BOOLEAN : /\ get_amount_delta_a(p, q, L, up) \in U64 \cup {Err}
                            /\ get_amount_delta_b(p, q, L, up) \in U64 \cup {Err}
    BY AmountA, AmountB
  <1>2. is_input \in BOOLEAN /\ (~is_input) \in BOOLEAN
    OBVIOUS
  <1> QED BY <1>1, <1>2, Zenon DEF get_amount_fixed_delta, get_amount_unfixed_delta

\* What is left of a given input after its fee, and the fee on an amount.
LEMMA AmountCalcFacts ==
    ASSUME NEW remaining \in Nat, NEW fee_rate \in 0..FEE_RATE_MUL_VALUE - 1,
           NEW is_input \in BOOLEAN, AmountCalc(remaining, fee_rate, is_input) # Err
    PROVE  /\ AmountCalc(remaining, fee_rate, is_input) \in Nat
           /\ is_input => AmountCalc(remaining, fee_rate, is_input) * FEE_RATE_MUL_VALUE
                            <= remaining * (FEE_RATE_MUL_VALUE - fee_rate)
           /\ ~is_input => AmountCalc(remaining, fee_rate, is_input) = remaining
  <1> DEFINE M == FEE_RATE_MUL_VALUE
             g == M - fee_rate
             x == AmountCalc(remaining, fee_rate, is_input)
  <1>1. M \in Nat \ {0} /\ g \in Nat
    BY FeeAssumption
  <1>2. CASE ~is_input
    BY <1>2 DEF AmountCalc
  <1>3. CASE is_input
    <2>1. x = checked_mul_div_round_up_if(remaining, g, M, FALSE) /\ x # Err
      BY <1>3 DEF AmountCalc, checked_mul_div
    <2> HIDE DEF M, g, x
    <2>2. x = DivRound(remaining * g, M, FALSE) /\ remaining * g \in Nat
      <3>1. M \in Nat
        BY <1>1
      <3> QED BY <1>1, <2>1, <3>1, MulDiv
    <2> DEFINE n == remaining * g
    <2>3. n \in Nat /\ x = DivRound(n, M, FALSE)
      BY <2>2
    <2> HIDE DEF n
    <2>4. \A up \in BOOLEAN : DivRound(n, M, up) \in Nat /\ (~up => DivRound(n, M, up) * M <= n)
      BY <1>1, <2>3, Rounding
    <2>5. x \in Nat /\ x * M <= n
      BY <2>3, <2>4
    <2> QED BY <1>3, <2>5 DEF M, g, x, n
  <1> QED BY <1>2, <1>3

\* The fee added to an amount: at least the rate of both, and no more than is
\* left over when the amount fits into what remains after the fee.
LEMMA FeeOnAmount ==
    ASSUME NEW in \in Nat, NEW remaining \in Nat, NEW fee_rate \in 0..FEE_RATE_MUL_VALUE - 1,
           NEW fee,
           fee = Checked(checked_mul_div_round_up(in, fee_rate, FEE_RATE_MUL_VALUE - fee_rate), U64MAX),
           fee # Err
    PROVE  /\ fee \in U64
           /\ in * fee_rate <= fee * (FEE_RATE_MUL_VALUE - fee_rate)
           /\ in * FEE_RATE_MUL_VALUE <= remaining * (FEE_RATE_MUL_VALUE - fee_rate)
                => in + fee <= remaining
  <1> DEFINE M == FEE_RATE_MUL_VALUE
             g == M - fee_rate
             y == checked_mul_div_round_up_if(in, fee_rate, g, TRUE)
             n == in * fee_rate
  <1>1. M \in Nat \ {0} /\ g \in Nat \ {0} /\ fee_rate \in Nat /\ M = g + fee_rate
    BY FeeAssumption
  <1>2. fee = Checked(y, U64MAX)
    BY DEF checked_mul_div_round_up
  <1>3. y # Err
    BY <1>2, Widths DEF Checked, Err
  <1>4. y = DivRound(n, g, TRUE) /\ n \in Nat /\ y \in U128
    <2> HIDE DEF M, g
    <2>1. g \in Nat
      BY <1>1
    <2> QED BY <1>1, <1>3, <2>1, MulDiv
  <1>5. fee = y /\ fee \in U64
    <2> HIDE DEF M, g, n, y
    <2>1. y \in U128 /\ U128 \subseteq Nat /\ U64MAX \in Nat
      BY <1>4, Widths
    <2>2. y \in Int
      <3> HIDE DEF U128
      <3> QED BY <2>1
    <2>3. Checked(y, U64MAX) = y /\ y \in 0..U64MAX
      BY <1>2, <2>1, <2>2, CheckedResult
    <2> QED BY <1>2, <2>3 DEF U64
  <1> HIDE DEF M, g, n, y
  <1>6. n <= fee * g /\ fee \in Nat
    BY <1>1, <1>4, <1>5, RoundedUp
  <1>7. ASSUME in * M <= remaining * g PROVE in + fee <= remaining
    <2>1. in * M = in * g + n
      BY <1>1 DEF n
    <2>2. n <= (remaining - in) * g
      <3>1. (remaining - in) * g = remaining * g - in * g
        BY <1>1, Distributes
      <3>2. remaining * g \in Int /\ in * g \in Int
        BY <1>1, ProductInt
      <3> QED BY <1>4, <1>7, <2>1, <3>1, <3>2
    <2>3. remaining - in \in Int
      OBVIOUS
    <2>4. fee <= remaining - in
      BY <1>1, <1>4, <1>5, <2>2, <2>3, RoundedBelow
    <2> QED BY <1>6, <2>4
  <1> QED BY <1>5, <1>6, <1>7 DEF M, g, n


\* The price of a step that succeeds, and the fixed amount against what there
\* was to move the price with.
LEMMA StepPrice ==
    ASSUME NEW remaining \in Nat, NEW fee_rate \in 0..FEE_RATE_MUL_VALUE - 1, NEW L \in Nat,
           NEW p \in Nat \ {0}, NEW t \in Nat \ {0}, NEW is_input \in BOOLEAN,
           NEW a_to_b \in BOOLEAN, Towards(p, t, a_to_b),
           NEW c, NEW toTarget, NEW calc, NEW unfixed, NEW fixed,
           Computes(c, remaining, fee_rate, L, p, t, is_input, a_to_b,
                    toTarget, calc, unfixed, fixed)
    PROVE  /\ c.next_price \in Nat \ {0} /\ Between(c.next_price, p, t, a_to_b)
           /\ calc \in Nat /\ fixed \in U64 /\ unfixed \in U64
           /\ is_input => fixed <= calc
           /\ ~is_input /\ c.next_price # t => remaining <= fixed
  <1> DEFINE next == c.next_price
  <1>1. /\ toTarget = get_amount_fixed_delta(p, t, L, is_input, a_to_b) /\ toTarget # Err
        /\ calc = AmountCalc(remaining, fee_rate, is_input) /\ calc # Err
        /\ (calc >= toTarget => next = t)
        /\ (~(calc >= toTarget) => next = get_next_sqrt_price(p, L, calc, is_input, a_to_b))
        /\ next # Err
        /\ unfixed = get_amount_unfixed_delta(p, next, L, is_input, a_to_b) /\ unfixed # Err
        /\ fixed = get_amount_fixed_delta(p, next, L, is_input, a_to_b) /\ fixed # Err
    BY DEF Computes
  <1> HIDE DEF next
  <1>2. toTarget \in U64 /\ toTarget \in Nat
    <2>1. p \in Nat /\ t \in Nat
      OBVIOUS
    <2>2. toTarget \in U64 \cup {Err}
      BY <1>1, <2>1, AmountsTyped, Zenon
    <2> QED BY <1>1, <2>2, Widths, Zenon
  <1>3. calc \in Nat /\ (~is_input => calc = remaining)
    BY <1>1, AmountCalcFacts
  <1>4. CASE calc >= toTarget
    <2>1. next = t /\ fixed = toTarget
      BY <1>1, <1>4
    <2>2. Between(next, p, t, a_to_b)
      BY <2>1 DEF Between, Towards
    <2>3. unfixed \in U64
      BY <1>1, <2>1, AmountsTyped
    <2> QED BY <1>2, <1>3, <1>4, <2>1, <2>2, <2>3 DEF next
  <1>5. CASE ~(calc >= toTarget)
    <2>1. calc < toTarget /\ next = get_next_sqrt_price(p, L, calc, is_input, a_to_b)
      BY <1>1, <1>2, <1>3, <1>5
    <2>2. /\ Between(next, p, t, a_to_b)
          /\ (is_input /\ fixed # Err) => fixed <= calc
          /\ (~is_input /\ fixed # Err) => calc <= fixed
      BY <1>1, <1>3, <2>1, PriceStopsShort
    <2>3. next \in Nat \ {0}
      BY <2>2 DEF Between
    <2>4. fixed \in U64 /\ unfixed \in U64
      BY <1>1, <2>3, AmountsTyped
    <2> QED BY <1>1, <1>3, <2>2, <2>3, <2>4 DEF next
  <1> QED BY <1>4, <1>5

\* A fee at the rate of an amount alone is at the rate of both.
LEMMA RateOfBoth ==
    ASSUME NEW in \in Nat, NEW fee \in Nat, NEW M \in Nat, NEW f \in Nat, f <= M
    PROVE  /\ in * f <= fee * (M - f) => (in + fee) * f <= fee * M
           /\ in * M <= (in + fee) * (M - f) => (in + fee) * f <= fee * M
  <1>1. /\ in * f \in Nat /\ fee * f \in Nat /\ fee * M \in Nat /\ in * M \in Nat
        /\ in * (M - f) \in Int /\ fee * (M - f) \in Int
    BY ProductNat, ProductInt
  <1>2. fee * (M - f) = fee * M - fee * f /\ in * (M - f) = in * M - in * f
    OBVIOUS
  <1>3. (in + fee) * f = in * f + fee * f
    OBVIOUS
  <1>4. (in + fee) * (M - f) = in * (M - f) + fee * (M - f)
    OBVIOUS
  <1> QED BY <1>1, <1>2, <1>3, <1>4

\* The fee of a step that succeeds.
LEMMA StepFeeFacts ==
    ASSUME NEW remaining \in U64, NEW fee_rate \in 0..FEE_RATE_MUL_VALUE - 1, NEW in \in Nat,
           NEW is_input \in BOOLEAN, NEW isMax \in BOOLEAN,
           is_input => in * FEE_RATE_MUL_VALUE <= remaining * (FEE_RATE_MUL_VALUE - fee_rate),
           NEW fee, fee = StepFee(remaining, in, fee_rate, is_input, isMax), fee # Err
    PROVE  /\ fee \in U64
           /\ is_input => in + fee <= remaining
           /\ (is_input /\ ~isMax) => in + fee = remaining
           /\ (in + fee) * fee_rate <= fee * FEE_RATE_MUL_VALUE
  <1> DEFINE M == FEE_RATE_MUL_VALUE
             g == M - fee_rate
  <1>1. M \in Nat \ {0} /\ g \in Nat \ {0} /\ fee_rate \in Nat /\ fee_rate <= M /\ remaining \in Nat
    BY FeeAssumption, Widths
  <1>2. CASE is_input /\ ~isMax
    <2>1. fee = WrapU64(remaining - in)
      BY <1>2 DEF StepFee
    <2>2. in * M <= remaining * g
      BY <1>2
    <2>3. remaining * g <= remaining * M
      <3> HIDE DEF M, g
      <3>1. g * remaining <= M * remaining
        <4>1. g <= M
          BY <1>1 DEF g
        <4> QED BY <1>1, <4>1, ProductMonotone
      <3> QED BY <1>1, <3>1
    <2> HIDE DEF M
    <2>4. in <= remaining
      <3>1. in * M \in Int /\ remaining * g \in Int /\ remaining * M \in Int
        <4> HIDE DEF g
        <4>1. M \in Int /\ g \in Int /\ remaining \in Int
          BY <1>1
        <4> QED BY <4>1, ProductInt
      <3>2. in * M <= remaining * M
        <4> DEFINE x == in * M
                   y == remaining * g
                   z == remaining * M
        <4>1. x \in Int /\ y \in Int /\ z \in Int /\ x <= y /\ y <= z
          BY <2>2, <2>3, <3>1
        <4> HIDE DEF x, y, z
        <4>2. x <= z
          BY <4>1
        <4> QED BY <4>2 DEF x, z
      <3> QED BY <1>1, <3>2, ProductOrder
    <2>5. fee = remaining - in /\ fee \in U64 /\ fee \in Nat /\ in + fee = remaining
      <3>1. remaining - in \in U64
        BY <1>1, <2>4, Widths DEF U64
      <3>2. remaining - in \in Int
        BY <1>1
      <3>3. fee = remaining - in
        BY <2>1, <3>1, <3>2, Wraps
      <3> QED BY <1>1, <2>4, <3>1, <3>3
    <2>6. in * M <= (in + fee) * (M - fee_rate)
      BY <2>2, <2>5 DEF g
    <2>7. (in + fee) * fee_rate <= fee * M
      BY <1>1, <2>5, <2>6, RateOfBoth
    <2>8. in + fee <= remaining
      BY <1>1, <2>5
    <2> QED BY <1>2, <2>5, <2>7, <2>8, Zenon DEF M
  <1>3. CASE ~(is_input /\ ~isMax)
    <2>1. fee = Checked(checked_mul_div_round_up(in, fee_rate, FEE_RATE_MUL_VALUE - fee_rate), U64MAX)
      BY <1>3 DEF StepFee
    <2>2. /\ fee \in U64
          /\ in * fee_rate <= fee * (FEE_RATE_MUL_VALUE - fee_rate)
          /\ in * FEE_RATE_MUL_VALUE <= remaining * (FEE_RATE_MUL_VALUE - fee_rate)
                => in + fee <= remaining
      BY <1>1, <2>1, FeeOnAmount
    <2>3. is_input => in + fee <= remaining
      BY <2>2
    <2>4. fee \in Nat
      BY <2>2, Widths
    <2>5. (in + fee) * fee_rate <= fee * M
      BY <1>1, <2>2, <2>4, RateOfBoth
    <2> QED BY <1>3, <2>2, <2>3, <2>5
  <1> QED BY <1>2, <1>3


\* What goes in covers what the pool holds of that token between the prices, and
\* what goes out does not exceed it.
Covers(in, out, L, p, q, a_to_b) ==
    IF a_to_b THEN L * PriceGap(p, q) * WORD <= in * (p * q) /\ out * WORD <= L * PriceGap(p, q)
    ELSE out * (p * q) <= L * PriceGap(p, q) * WORD /\ L * PriceGap(p, q) <= in * WORD

LEMMA AmountsCover ==
    ASSUME NEW p \in Nat, NEW q \in Nat, NEW L \in Nat, NEW a_to_b \in BOOLEAN,
           NEW in, NEW most, NEW out \in Nat, in # Err, most # Err, out <= most,
           in = IF a_to_b THEN get_amount_delta_a(p, q, L, TRUE)
                          ELSE get_amount_delta_b(p, q, L, TRUE),
           most = IF a_to_b THEN get_amount_delta_b(p, q, L, FALSE)
                            ELSE get_amount_delta_a(p, q, L, FALSE)
    PROVE  Covers(in, out, L, p, q, a_to_b)
  <1> DEFINE nA == L * PriceGap(p, q) * WORD
             nB == L * PriceGap(p, q)
             d == p * q
  <1>1. WORD \in Nat \ {0}
    BY Widths
  <1>2. CASE a_to_b = TRUE
    <2>1. in = DivRound(nA, d, TRUE) /\ nA \in Nat /\ d \in Nat \ {0}
      BY <1>2, AmountA, ZenonT(60)
    <2>2. most = DivRound(nB, WORD, FALSE) /\ nB \in Nat
      BY <1>2, AmountB
    <2> HIDE DEF nA, nB, d
    <2>3. nA <= in * d
      BY <2>1, RoundedUp
    <2>4. most \in Nat /\ most * WORD <= nB
      BY <1>1, <2>2, RoundedDown
    <2>5. WORD \in Nat
      BY <1>1
    <2>6. out * WORD <= nB
      BY <2>2, <2>4, <2>5, ProductAtMost, Zenon
    <2> QED BY <1>2, <2>3, <2>6, Zenon DEF Covers, nA, nB, d
  <1>3. CASE a_to_b = FALSE
    <2>1. in = DivRound(nB, WORD, TRUE) /\ nB \in Nat
      BY <1>3, AmountB
    <2>2. most = DivRound(nA, d, FALSE) /\ nA \in Nat /\ d \in Nat \ {0}
      BY <1>3, AmountA
    <2> HIDE DEF nA, nB, d
    <2>3. nB <= in * WORD
      BY <1>1, <2>1, RoundedUp
    <2>4. most \in Nat /\ most * d <= nA
      BY <2>2, RoundedDown
    <2>5. d \in Nat
      BY <2>2
    <2>6. out * d <= nA
      BY <2>2, <2>4, <2>5, ProductAtMost, Zenon
    <2> QED BY <1>3, <2>3, <2>6, Zenon DEF Covers, nA, nB, d
  <1> QED BY <1>2, <1>3

\* What a step takes from the amount that remains of the swap.
UsedOf(c, is_input) == IF is_input THEN c.amount_in + c.fee_amount ELSE c.amount_out

\* What a step of a swap that does not fail does.
StepResult(c, remaining, fee_rate, L, p, t, is_input, a_to_b) ==
    /\ c.amount_in \in U64 /\ c.amount_out \in U64 /\ c.fee_amount \in U64
    /\ c.next_price \in Nat \ {0} /\ Between(c.next_price, p, t, a_to_b)
    /\ UsedOf(c, is_input) <= remaining
    /\ c.next_price # t => UsedOf(c, is_input) = remaining
    /\ Covers(c.amount_in, c.amount_out, L, p, c.next_price, a_to_b)
    /\ (c.amount_in + c.fee_amount) * fee_rate <= c.fee_amount * FEE_RATE_MUL_VALUE

LEMMA StepFacts ==
    ASSUME NEW remaining \in U64, NEW fee_rate \in 0..FEE_RATE_MUL_VALUE - 1, NEW L \in Nat,
           NEW p \in Nat \ {0}, NEW t \in Nat \ {0}, NEW is_input \in BOOLEAN,
           NEW a_to_b \in BOOLEAN, Towards(p, t, a_to_b),
           NEW c, c = compute_swap(remaining, fee_rate, L, p, t, is_input, a_to_b), ~c.error
    PROVE  StepResult(c, remaining, fee_rate, L, p, t, is_input, a_to_b)
  <1>1. PICK toTarget, calc, unfixed, fixed :
            Computes(c, remaining, fee_rate, L, p, t, is_input, a_to_b,
                     toTarget, calc, unfixed, fixed)
    BY ComputeSwap
  <1> DEFINE next == c.next_price
             in == c.amount_in
             out == c.amount_out
             fee == c.fee_amount
             isMax == next = t
  <1>2. remaining \in Nat
    BY Widths
  <1>3. /\ next \in Nat \ {0} /\ Between(next, p, t, a_to_b)
        /\ calc \in Nat /\ fixed \in U64 /\ unfixed \in U64
        /\ is_input => fixed <= calc
        /\ ~is_input /\ ~isMax => remaining <= fixed
    BY <1>1, <1>2, StepPrice
  <1>4. /\ calc = AmountCalc(remaining, fee_rate, is_input) /\ calc # Err
        /\ unfixed = get_amount_unfixed_delta(p, next, L, is_input, a_to_b)
        /\ fixed = get_amount_fixed_delta(p, next, L, is_input, a_to_b)
        /\ in = IF is_input THEN fixed ELSE unfixed
        /\ out = IF is_input THEN unfixed ELSE IF fixed > remaining THEN remaining ELSE fixed
        /\ fee = StepFee(remaining, in, fee_rate, is_input, isMax) /\ fee # Err
    BY <1>1 DEF Computes
  <1> HIDE DEF next, in, out, fee, isMax
  <1>5. U64 \subseteq Nat /\ fixed \in Nat /\ unfixed \in Nat /\ fixed # Err /\ unfixed # Err
    BY <1>3, Widths, NoErr
  <1>6. in \in U64 /\ out \in U64 /\ in \in Nat /\ out \in Nat /\ in # Err
    BY <1>3, <1>4, <1>5
  <1>7. is_input => in * FEE_RATE_MUL_VALUE <= remaining * (FEE_RATE_MUL_VALUE - fee_rate)
    <2> SUFFICES ASSUME is_input
                 PROVE  in * FEE_RATE_MUL_VALUE <= remaining * (FEE_RATE_MUL_VALUE - fee_rate)
      OBVIOUS
    <2> DEFINE x == in * FEE_RATE_MUL_VALUE
               y == calc * FEE_RATE_MUL_VALUE
               z == remaining * (FEE_RATE_MUL_VALUE - fee_rate)
    <2>1. in <= calc
      BY <1>3, <1>4
    <2>2. x <= y
      BY <1>3, <1>6, <2>1, FeeAssumption, ProductMonotone
    <2>3. y <= z
      BY <1>2, <1>4, AmountCalcFacts
    <2>4. x \in Int /\ y \in Int /\ z \in Int
      BY <1>2, <1>3, <1>6, FeeAssumption, ProductInt
    <2> HIDE DEF x, y, z
    <2>5. x <= z
      BY <2>2, <2>3, <2>4
    <2> QED BY <2>5 DEF x, z
  <1>8. /\ fee \in U64
        /\ is_input => in + fee <= remaining
        /\ is_input /\ ~isMax => in + fee = remaining
        /\ (in + fee) * fee_rate <= fee * FEE_RATE_MUL_VALUE
    <2>1. isMax \in BOOLEAN
      BY DEF isMax
    <2> QED BY <1>4, <1>6, <1>7, <2>1, StepFeeFacts
  <1>9. ~is_input => out <= remaining /\ (~isMax => out = remaining)
    BY <1>2, <1>3, <1>4, <1>5
  <1>10. Covers(in, out, L, p, next, a_to_b)
    <2> DEFINE most == IF is_input THEN unfixed ELSE fixed
    <2>1. in = IF a_to_b THEN get_amount_delta_a(p, next, L, TRUE)
                         ELSE get_amount_delta_b(p, next, L, TRUE)
      BY <1>4, Zenon DEF get_amount_fixed_delta, get_amount_unfixed_delta
    <2>2. most = IF a_to_b THEN get_amount_delta_b(p, next, L, FALSE)
                           ELSE get_amount_delta_a(p, next, L, FALSE)
      BY <1>4, Zenon DEF get_amount_fixed_delta, get_amount_unfixed_delta
    <2>3. most # Err /\ out <= most
      BY <1>2, <1>4, <1>5
    <2> HIDE DEF most
    <2> QED BY <1>3, <1>6, <2>1, <2>2, <2>3, AmountsCover, ZenonT(60)
  <1>11. /\ UsedOf(c, is_input) <= remaining
         /\ ~isMax => UsedOf(c, is_input) = remaining
    BY <1>8, <1>9, Zenon DEF UsedOf, in, out, fee
  <1> QED BY <1>3, <1>6, <1>8, <1>10, <1>11, Zenon DEF StepResult, in, out, fee, next, isMax

-----------------------------------------------------------------------------
(* Ticks and prices. *)

LEMMA TickPrices ==
    ASSUME NEW t \in MIN_TICK_INDEX..MAX_TICK_INDEX
    PROVE  /\ SqrtPrice[t] \in MIN_SQRT_PRICE_X64..MAX_SQRT_PRICE_X64
           /\ SqrtPrice[t] \in 1..U128MAX /\ SqrtPrice[t] \in Nat \ {0}
  <1> USE TickIndexAssumption, TickPriceAssumption
  <1>1. \A s \in MIN_TICK_INDEX..MAX_TICK_INDEX : SqrtPrice[s] \in 1..U128MAX
    BY DEF U128MAX
  <1>2. MIN_TICK_INDEX \in MIN_TICK_INDEX..MAX_TICK_INDEX
        /\ MAX_TICK_INDEX \in MIN_TICK_INDEX..MAX_TICK_INDEX
    OBVIOUS
  <1>3. t # MIN_TICK_INDEX => SqrtPrice[MIN_TICK_INDEX] < SqrtPrice[t]
    <2>1. t # MIN_TICK_INDEX => MIN_TICK_INDEX < t
      OBVIOUS
    <2> QED BY <1>2, <2>1
  <1>4. t # MAX_TICK_INDEX => SqrtPrice[t] < SqrtPrice[MAX_TICK_INDEX]
    <2>1. t # MAX_TICK_INDEX => t < MAX_TICK_INDEX
      OBVIOUS
    <2> QED BY <1>2, <2>1
  <1>5. \A x \in 1..U128MAX : x \in Nat \ {0}
    OBVIOUS
  <1> QED BY <1>1, <1>2, <1>3, <1>4, <1>5 DEF MIN_SQRT_PRICE_X64, MAX_SQRT_PRICE_X64

LEMMA PriceOrder ==
    ASSUME NEW s \in MIN_TICK_INDEX..MAX_TICK_INDEX, NEW t \in MIN_TICK_INDEX..MAX_TICK_INDEX
    PROVE  (s <= t => SqrtPrice[s] <= SqrtPrice[t]) /\ (SqrtPrice[s] < SqrtPrice[t] => s < t)
  <1>1. SqrtPrice[s] \in Nat /\ SqrtPrice[t] \in Nat
    BY TickPrices
  <1>2. s < t => SqrtPrice[s] < SqrtPrice[t]
    BY TickPriceAssumption
  <1>3. t < s => SqrtPrice[t] < SqrtPrice[s]
    BY TickPriceAssumption
  <1> QED BY TickIndexAssumption, <1>1, <1>2, <1>3

\* The tick of a price: it exists, and it is the greatest with a price not above.
LEMMA TickOfPrice ==
    ASSUME NEW p \in MIN_SQRT_PRICE_X64..MAX_SQRT_PRICE_X64
    PROVE  LET t == tick_index_from_sqrt_price(p)
           IN  /\ t \in MIN_TICK_INDEX..MAX_TICK_INDEX
               /\ SqrtPrice[t] <= p
               /\ t < MAX_TICK_INDEX => p < SqrtPrice[t + 1]
  <1> USE TickIndexAssumption
  <1> DEFINE ticks == MIN_TICK_INDEX..MAX_TICK_INDEX
             S == {t \in ticks : SqrtPrice[t] <= p}
             D == {MAX_TICK_INDEX - t : t \in S}
             less == {ss \in Nat \X Nat : ss[1] < ss[2]}
  <1>1. MIN_TICK_INDEX \in S
    BY DEF MIN_SQRT_PRICE_X64
  <1>2. D \subseteq Nat /\ D # {}
    BY <1>1
  <1>3. PICK d \in D : \A e \in D : ~(e < d)
    <2>1. IsWellFoundedOn(less, Nat)
      BY NatLessThanWellFounded DEF OpToRel
    <2>2. PICK d \in D : \A e \in D : <<e, d>> \notin less
      <3> HIDE DEF less, D
      <3> QED BY <1>2, <2>1, WFMin
    <2> HIDE DEF D
    <2> QED BY <1>2, <2>2
  <1>4. PICK t \in S : d = MAX_TICK_INDEX - t
    OBVIOUS
  <1>5. \A u \in S : u <= t
    <2> SUFFICES ASSUME NEW u \in S PROVE u <= t
      OBVIOUS
    <2>1. MAX_TICK_INDEX - u \in D
      OBVIOUS
    <2>2. ~(MAX_TICK_INDEX - u < MAX_TICK_INDEX - t)
      BY <1>3, <1>4, <2>1
    <2> QED BY <2>2
  <1>6. t \in ticks /\ SqrtPrice[t] <= p
    OBVIOUS
  <1>7. t < MAX_TICK_INDEX => p < SqrtPrice[t + 1]
    <2> SUFFICES ASSUME t < MAX_TICK_INDEX PROVE p < SqrtPrice[t + 1]
      OBVIOUS
    <2>1. t + 1 \in ticks /\ t + 1 \notin S
      BY <1>5
    <2>2. SqrtPrice[t + 1] \in Nat /\ SqrtPrice[MIN_TICK_INDEX] \in Nat
          /\ SqrtPrice[MAX_TICK_INDEX] \in Nat
      BY <2>1, TickPrices
    <2>3. p \in Int
      BY <2>2 DEF MIN_SQRT_PRICE_X64, MAX_SQRT_PRICE_X64
    <2> QED BY <2>1, <2>2, <2>3
  <1> QED BY <1>6, <1>7 DEF tick_index_from_sqrt_price

-----------------------------------------------------------------------------
(* What liquidity is worth.  The amounts between two prices are fractions  *)
(* of tokens; in a unit that every price divides they are whole numbers.   *)

\* A number that all numbers up to n divide.
DividedUpTo(M, n) == M \in Nat \ {0} /\ \A p \in 1..n : \E q \in Nat : M = p * q

LEMMA CommonMultiples == ASSUME NEW n \in Nat PROVE \E M : DividedUpTo(M, n)
  <1> DEFINE bad == {m \in Nat : ~\E M : DividedUpTo(M, m)}
             less == {ss \in Nat \X Nat : ss[1] < ss[2]}
  <1> SUFFICES ASSUME bad # {} PROVE FALSE
    OBVIOUS
  <1>1. PICK m \in bad : \A e \in bad : ~(e < m)
    <2>1. IsWellFoundedOn(less, Nat)
      BY NatLessThanWellFounded DEF OpToRel
    <2>2. bad \subseteq Nat
      OBVIOUS
    <2>3. PICK m \in bad : \A e \in bad : <<e, m>> \notin less
      <3> HIDE DEF less, bad
      <3> QED BY <2>1, <2>2, WFMin
    <2> HIDE DEF bad
    <2> QED BY <2>2, <2>3
  <1>2. m \in Nat /\ ~\E M : DividedUpTo(M, m)
    OBVIOUS
  <1>3. DividedUpTo(1, 0)
    BY DEF DividedUpTo
  <1>4. m # 0
    BY <1>2, <1>3
  <1>5. m - 1 \in Nat /\ m - 1 \notin bad
    BY <1>1, <1>2, <1>4
  <1>6. PICK M : DividedUpTo(M, m - 1)
    BY <1>5
  <1>7. M \in Nat \ {0} /\ \A p \in 1..m - 1 : \E q \in Nat : M = p * q
    BY <1>6 DEF DividedUpTo
  <1> HIDE DEF bad
  <1>8. m * M \in Nat \ {0}
    BY <1>2, <1>4, <1>7, ProductPositive
  <1>9. ASSUME NEW p \in 1..m PROVE \E q \in Nat : m * M = p * q
    <2>1. CASE p = m
      BY <1>7, <2>1
    <2>2. CASE p # m
      <3>1. PICK q \in Nat : M = p * q
        BY <1>2, <1>7, <2>2
      <3>2. p \in Int /\ m * M = p * (m * q)
        BY <1>2, <3>1
      <3>3. m * q \in Nat
        BY <1>2, <3>1, ProductNat
      <3> QED BY <3>2, <3>3
    <2> QED BY <2>1, <2>2
  <1>10. DividedUpTo(m * M, m)
    BY <1>8, <1>9 DEF DividedUpTo
  <1> QED BY <1>2, <1>10

Unit == CHOOSE M : DividedUpTo(M, U128MAX)

Reciprocal(p) == CHOOSE q \in Nat : Unit = p * q

\* Of one token.
Scale == WORD * Unit

\* What one of liquidity is worth in token k at price p, but for a constant.
Value(k, p) == IF k = "a" THEN (WORD * WORD) * Reciprocal(p) ELSE Unit * p

LEMMA UnitTyped ==
    /\ Unit \in Nat \ {0} /\ Scale \in Nat \ {0}
    /\ \A p \in 1..U128MAX : Reciprocal(p) \in Nat /\ Unit = p * Reciprocal(p)
  <1>1. U128MAX \in Nat /\ WORD \in Nat \ {0}
    BY Widths
  <1>2. DividedUpTo(Unit, U128MAX)
    BY <1>1, CommonMultiples DEF Unit
  <1>3. Unit \in Nat \ {0} /\ \A p \in 1..U128MAX : \E q \in Nat : Unit = p * q
    BY <1>2 DEF DividedUpTo
  <1>4. Scale \in Nat \ {0}
    BY <1>1, <1>3, ProductPositive DEF Scale
  <1> QED BY <1>3, <1>4 DEF Reciprocal

LEMMA ValueTyped ==
    ASSUME NEW k, NEW p \in 1..U128MAX PROVE Value(k, p) \in Nat
  <1>1. Unit \in Nat /\ Reciprocal(p) \in Nat /\ WORD \in Nat /\ p \in Nat
    BY UnitTyped, Widths
  <1>2. WORD * WORD \in Nat
    BY <1>1, ProductNat
  <1>3. (WORD * WORD) * Reciprocal(p) \in Nat /\ Unit * p \in Nat
    BY <1>1, <1>2, ProductNat
  <1> QED BY <1>3 DEF Value

\* Between two prices, what the code's quotients are of.
LEMMA ValueOfB ==
    ASSUME NEW p \in 1..U128MAX, NEW q \in 1..U128MAX
    PROVE  (Value("b", q) - Value("b", p)) * WORD = Scale * (q - p)
  <1>1. Unit \in Int /\ WORD \in Int /\ p \in Int /\ q \in Int
    BY UnitTyped, Widths
  <1>2. Value("b", q) = Unit * q /\ Value("b", p) = Unit * p
    BY DEF Value
  <1>3. \A u, w, x, y \in Int : (u * y - u * x) * w = (w * u) * (y - x)
    OBVIOUS
  <1> QED BY <1>1, <1>2, <1>3 DEF Scale

LEMMA ValueOfA ==
    ASSUME NEW p \in 1..U128MAX, NEW q \in 1..U128MAX
    PROVE  (Value("a", p) - Value("a", q)) * (p * q) = Scale * ((q - p) * WORD)
  <1> DEFINE i == Reciprocal(p)
             j == Reciprocal(q)
  <1>1. Unit \in Int /\ WORD \in Int /\ p \in Int /\ q \in Int /\ i \in Int /\ j \in Int
        /\ Unit = p * i /\ Unit = q * j
    BY UnitTyped, Widths
  <1>2. Value("a", p) = (WORD * WORD) * i /\ Value("a", q) = (WORD * WORD) * j
    BY DEF Value
  <1> HIDE DEF i, j
  <1>3. ASSUME NEW w \in Int, NEW x \in Int, NEW y \in Int, NEW s \in Int, NEW t \in Int
        PROVE  ((w * w) * s - (w * w) * t) * (x * y) = (w * w) * ((x * s) * y - (y * t) * x)
    OBVIOUS
  <1>4. ASSUME NEW w \in Int, NEW x \in Int, NEW y \in Int, NEW u \in Int
        PROVE  (w * w) * (u * y - u * x) = (w * u) * ((y - x) * w)
    OBVIOUS
  <1>5. ((WORD * WORD) * i - (WORD * WORD) * j) * (p * q) = (WORD * WORD) * ((p * i) * q - (q * j) * p)
    BY <1>1, <1>3
  <1>6. (WORD * WORD) * (Unit * q - Unit * p) = (WORD * Unit) * ((q - p) * WORD)
    BY <1>1, <1>4
  <1> QED BY <1>1, <1>2, <1>5, <1>6, Zenon DEF Scale

\* A quotient n of L * g by d, in the unit, if g is h of it: rounded up and down.
LEMMA ScaledUp ==
    ASSUME NEW S \in Nat, NEW g \in Int, NEW h \in Int, NEW d \in Nat \ {0}, NEW L \in Nat,
           NEW n \in Int, h * d = S * g, L * g <= n * d
    PROVE  L * h <= n * S
  <1>1. (L * h) * d = (L * g) * S
    <2>1. \A a, b, c \in Int : (a * b) * c = a * (b * c)
      OBVIOUS
    <2>2. (L * h) * d = L * (S * g)
      BY <2>1
    <2>3. (L * g) * S = L * (g * S)
      BY <2>1
    <2>4. g * S = S * g
      BY ProductTurned
    <2> QED BY <2>2, <2>3, <2>4
  <1>2. (L * g) * S <= (n * d) * S
    <2>1. L * g \in Int /\ n * d \in Int
      BY ProductInt
    <2> QED BY <2>1, ProductMonotone
  <1>3. (n * d) * S = (n * S) * d
    OBVIOUS
  <1>4. L * h \in Int /\ n * S \in Int /\ (L * h) * d <= (n * S) * d
    BY <1>1, <1>2, <1>3, ProductInt
  <1> DEFINE x == L * h
             y == n * S
  <1> HIDE DEF x, y
  <1>5. x \in Int /\ y \in Int /\ x * d <= y * d
    BY <1>4 DEF x, y
  <1>6. x <= y
    BY <1>5, ProductOrder
  <1> QED BY <1>6 DEF x, y

LEMMA ScaledDown ==
    ASSUME NEW S \in Nat, NEW g \in Int, NEW h \in Int, NEW d \in Nat \ {0}, NEW L \in Nat,
           NEW n \in Int, h * d = S * g, n * d <= L * g
    PROVE  n * S <= L * h
  <1>1. (L * h) * d = (L * g) * S
    <2>1. \A a, b, c \in Int : (a * b) * c = a * (b * c)
      OBVIOUS
    <2>2. (L * h) * d = L * (S * g)
      BY <2>1
    <2>3. (L * g) * S = L * (g * S)
      BY <2>1
    <2>4. g * S = S * g
      BY ProductTurned
    <2> QED BY <2>2, <2>3, <2>4
  <1>2. (n * d) * S <= (L * g) * S
    <2>1. L * g \in Int /\ n * d \in Int
      BY ProductInt
    <2> QED BY <2>1, ProductMonotone
  <1>3. (n * d) * S = (n * S) * d
    OBVIOUS
  <1>4. L * h \in Int /\ n * S \in Int /\ (n * S) * d <= (L * h) * d
    BY <1>1, <1>2, <1>3, ProductInt
  <1> DEFINE x == L * h
             y == n * S
  <1> HIDE DEF x, y
  <1>5. x \in Int /\ y \in Int /\ y * d <= x * d
    BY <1>4 DEF x, y
  <1>6. y <= x
    BY <1>5, ProductOrder
  <1> QED BY <1>6 DEF x, y

\* Token b is worth more at a higher price, token a less.
LEMMA ValueOrder ==
    ASSUME NEW p \in 1..U128MAX, NEW q \in 1..U128MAX, p <= q
    PROVE  Value("b", p) <= Value("b", q) /\ Value("a", q) <= Value("a", p)
  <1> DEFINE x == Value("b", q) - Value("b", p)
             y == Value("a", p) - Value("a", q)
  <1>1. /\ Value("b", p) \in Int /\ Value("b", q) \in Int /\ Value("a", p) \in Int
        /\ Value("a", q) \in Int
    BY ValueTyped
  <1>2. x * WORD = Scale * (q - p) /\ y * (p * q) = Scale * ((q - p) * WORD)
    BY ValueOfA, ValueOfB
  <1>3. x \in Int /\ y \in Int
    BY <1>1
  <1>4. /\ WORD \in Nat \ {0} /\ Scale \in Nat /\ q - p \in Nat /\ p \in Nat \ {0} /\ q \in Nat \ {0}
    BY Widths, UnitTyped
  <1>5. (q - p) * WORD \in Nat /\ p * q \in Nat \ {0}
    BY <1>4, ProductNat, ProductPositive
  <1>6. Scale * (q - p) \in Nat /\ Scale * ((q - p) * WORD) \in Nat
    BY <1>4, <1>5, ProductNat
  <1> HIDE DEF x, y
  <1>7. ASSUME NEW z \in Int, NEW d \in Nat \ {0}, z * d \in Nat PROVE 0 <= z
    <2>1. 0 * d <= z * d
      BY <1>7
    <2> QED BY <1>7, <2>1, ProductOrder
  <1>8. 0 <= x /\ 0 <= y
    BY <1>2, <1>3, <1>4, <1>5, <1>6, <1>7
  <1> QED BY <1>1, <1>8 DEF x, y

\* What a step of a swap takes in covers the rise of the liquidity's worth in
\* the input, and what it gives out is within the fall of its worth in the output.
LEMMA CoversValue ==
    ASSUME NEW in \in Nat, NEW out \in Nat, NEW L \in Nat, NEW p \in 1..U128MAX,
           NEW q \in 1..U128MAX, NEW a_to_b \in BOOLEAN,
           IF a_to_b THEN q <= p ELSE p <= q, Covers(in, out, L, p, q, a_to_b)
    PROVE  LET i == IF a_to_b THEN "a" ELSE "b"
               o == IF a_to_b THEN "b" ELSE "a"
           IN  /\ L * (Value(i, q) - Value(i, p)) <= in * Scale
               /\ out * Scale <= L * (Value(o, p) - Value(o, q))
  <1>1. /\ Value("b", p) \in Int /\ Value("b", q) \in Int /\ Value("a", p) \in Int
        /\ Value("a", q) \in Int /\ Scale \in Nat /\ WORD \in Nat \ {0}
        /\ p \in Nat \ {0} /\ q \in Nat \ {0}
    BY ValueTyped, UnitTyped, Widths
  <1>2. p * q \in Nat \ {0} /\ q * p = p * q
    BY <1>1, ProductPositive, ProductTurned
  <1>3. ASSUME NEW g \in Nat PROVE (L * g) * WORD = L * (g * WORD) /\ g * WORD \in Int
    BY <1>1
  <1>4. CASE a_to_b = TRUE
    <2> DEFINE g == p - q
    <2>1. PriceGap(p, q) = g /\ g \in Nat
      BY <1>1, <1>4 DEF PriceGap
    <2>2. (L * g) * WORD <= in * (p * q) /\ out * WORD <= L * g
      BY <1>4, <2>1 DEF Covers
    <2> DEFINE h == Value("a", q) - Value("a", p)
               e == Value("b", p) - Value("b", q)
    <2>3. h * (p * q) = Scale * (g * WORD) /\ e * WORD = Scale * g /\ h \in Int /\ e \in Int
      BY <1>1, <1>2, ValueOfA, ValueOfB
    <2> HIDE DEF g, h, e
    <2>4. L * (g * WORD) <= in * (p * q) /\ g * WORD \in Int
      BY <1>3, <2>1, <2>2
    <2>5. L * h <= in * Scale
      BY <1>1, <1>2, <2>3, <2>4, ScaledUp
    <2>6. out * Scale <= L * e
      BY <1>1, <2>1, <2>2, <2>3, ScaledDown
    <2> QED BY <1>4, <2>5, <2>6 DEF h, e
  <1>5. CASE a_to_b = FALSE
    <2> DEFINE g == q - p
    <2>1. PriceGap(p, q) = g /\ g \in Nat
      BY <1>1, <1>5 DEF PriceGap
    <2>2. out * (p * q) <= (L * g) * WORD /\ L * g <= in * WORD
      BY <1>5, <2>1 DEF Covers
    <2> DEFINE h == Value("a", p) - Value("a", q)
               e == Value("b", q) - Value("b", p)
    <2>3. h * (p * q) = Scale * (g * WORD) /\ e * WORD = Scale * g /\ h \in Int /\ e \in Int
      BY <1>1, ValueOfA, ValueOfB
    <2> HIDE DEF g, h, e
    <2>4. out * (p * q) <= L * (g * WORD) /\ g * WORD \in Int
      BY <1>3, <2>1, <2>2
    <2>5. out * Scale <= L * h
      BY <1>1, <1>2, <2>3, <2>4, ScaledDown
    <2>6. L * e <= in * Scale
      BY <1>1, <2>1, <2>2, <2>3, ScaledUp
    <2> QED BY <1>5, <2>5, <2>6 DEF h, e
  <1> QED BY <1>4, <1>5

-----------------------------------------------------------------------------
(* Transfer fees *)

\* The fee before its cap, on an amount sent; and the least amount of which n
\* is left after it.
RateFee(fee, x) == DivRound(x * fee.basis_points, ONE_IN_BASIS_POINTS, TRUE)

BeforeFee(fee, n) ==
    DivRound(n * ONE_IN_BASIS_POINTS, ONE_IN_BASIS_POINTS - fee.basis_points, TRUE)

LEMMA FeeTypes ==
    ASSUME NEW fee \in FeeSettings
    PROVE  /\ ONE_IN_BASIS_POINTS \in Nat \ {0} /\ fee.basis_points \in Nat
           /\ ONE_IN_BASIS_POINTS - fee.basis_points \in Nat
           /\ fee.maximum_fee \in Nat /\ U64MAX \in Nat /\ fee.maximum_fee <= U64MAX
  BY BasisPointAssumption, WordAssumption DEF FeeSettings, U64, U64MAX

\* n is what the fee leaves of x, or less, exactly if n of B parts of it is at
\* most the share B - b of x.
LEMMA FeeLeaves ==
    ASSUME NEW fee \in FeeSettings, NEW x \in Nat, NEW n \in Int
    PROVE  /\ RateFee(fee, x) \in Nat
           /\ RateFee(fee, x) <= x - n <=>
                  n * ONE_IN_BASIS_POINTS <= x * (ONE_IN_BASIS_POINTS - fee.basis_points)
  <1> DEFINE B == ONE_IN_BASIS_POINTS
             b == fee.basis_points
             c == RateFee(fee, x)
  <1>1. B \in Nat \ {0} /\ b \in Nat
    BY FeeTypes
  <1> HIDE DEF B, b
  <1>2. x * b \in Nat /\ x - n \in Int
    BY <1>1, ProductNat
  <1>3. c = DivRound(x * b, B, TRUE)
    BY DEF RateFee, B, b
  <1>4. /\ c \in Nat /\ x * b <= c * B
        /\ x * b <= (x - n) * B => c <= x - n
    BY <1>1, <1>2, <1>3, RoundedUp, RoundedBelow
  <1> HIDE DEF c
  <1>5. c <= x - n => c * B <= (x - n) * B
    BY <1>1, <1>2, <1>4, ProductMonotone
  <1>6. (x - n) * B = x * B - n * B /\ x * (B - b) = x * B - x * b
    BY <1>1
  <1>7. x * B \in Int /\ n * B \in Int /\ c * B \in Int
    BY <1>1, <1>4, ProductInt
  <1>8. c <= x - n <=> x * b <= (x - n) * B
    BY <1>2, <1>4, <1>5, <1>6, <1>7
  <1>9. c <= x - n <=> n * B <= x * (B - b)
    BY <1>2, <1>6, <1>7, <1>8
  <1> QED BY <1>4, <1>9 DEF c, B, b

LEMMA RateFeeRises ==
    ASSUME NEW fee \in FeeSettings, NEW x \in Nat, NEW y \in Nat, x <= y
    PROVE  RateFee(fee, x) <= RateFee(fee, y)
  <1> DEFINE B == ONE_IN_BASIS_POINTS
             b == fee.basis_points
             c == RateFee(fee, y)
  <1>1. B \in Nat \ {0} /\ b \in Nat
    BY FeeTypes
  <1> HIDE DEF B, b
  <1>2. x * b \in Nat /\ y * b \in Nat /\ x * b <= y * b
    BY <1>1, ProductNat, ProductMonotone
  <1>3. c \in Nat /\ y * b <= c * B
    BY <1>1, <1>2, RoundedUp DEF RateFee, B, b
  <1> HIDE DEF c
  <1>4. c * B \in Nat
    BY <1>1, <1>3, ProductNat
  <1>5. x * b <= c * B /\ c \in Int
    BY <1>2, <1>3, <1>4
  <1> DEFINE a == RateFee(fee, x)
  <1>6. a = DivRound(x * b, B, TRUE)
    BY DEF RateFee, B, b
  <1> HIDE DEF a
  <1>7. a <= c
    BY <1>1, <1>2, <1>3, <1>5, <1>6, RoundedBelow, ZenonT(60)
  <1> QED BY <1>7 DEF a, c

\* The amount before the fee is at most x exactly if the fee leaves n of x.
LEMMA LeastBeforeFee ==
    ASSUME NEW fee \in FeeSettings, fee.basis_points # ONE_IN_BASIS_POINTS,
           NEW n \in Nat, NEW x \in Nat
    PROVE  /\ BeforeFee(fee, n) \in Nat
           /\ BeforeFee(fee, n) <= x <=> RateFee(fee, x) <= x - n
  <1> DEFINE B == ONE_IN_BASIS_POINTS
             d == B - fee.basis_points
             r == BeforeFee(fee, n)
  <1>1. B \in Nat \ {0} /\ d \in Nat \ {0}
    BY FeeTypes
  <1>2. RateFee(fee, x) <= x - n <=> n * B <= x * d
    BY FeeLeaves
  <1> HIDE DEF B, d
  <1>3. n * B \in Nat /\ x \in Int
    BY <1>1, ProductNat
  <1>4. r = DivRound(n * B, d, TRUE)
    BY DEF BeforeFee, B, d
  <1> HIDE DEF r
  <1>5. r \in Nat /\ n * B <= r * d /\ (n * B <= x * d => r <= x)
    BY <1>1, <1>3, <1>4, RoundedUp, RoundedBelow
  <1>6. r <= x => r * d <= x * d
    BY <1>1, <1>5, ProductMonotone
  <1>7. r * d \in Nat /\ x * d \in Nat
    BY <1>1, <1>5, ProductNat
  <1>8. r <= x <=> n * B <= x * d
    BY <1>3, <1>5, <1>6, <1>7
  <1> QED BY <1>2, <1>5, <1>8 DEF r

\* What is sent, by the program and by the SDK, for n to arrive, when the fee
\* leaves at least n of what was offered.
SentFor(s, fee, n, offered) ==
    /\ s \in Nat /\ s <= offered
    /\ s - calculate_fee(fee, s) = n
    /\ s = calculate_transfer_fee_included_amount(fee, n)
    /\ s = calculateTransferFeeIncludedAmount(fee, n)

LEMMA FeeOf ==
    ASSUME NEW fee \in FeeSettings, NEW x \in Nat
    PROVE  /\ RateFee(fee, x) \in Nat
           /\ calculate_fee(fee, x) = IF RateFee(fee, x) < fee.maximum_fee
                                      THEN RateFee(fee, x) ELSE fee.maximum_fee
           /\ fee.basis_points = 0 => calculate_fee(fee, x) = 0
           /\ fee.basis_points = ONE_IN_BASIS_POINTS => RateFee(fee, x) = x
           /\ x = 0 => RateFee(fee, x) = 0
  <1>1. /\ RateFee(fee, x) \in Nat
        /\ RateFee(fee, x) <= x - x <=>
               x * ONE_IN_BASIS_POINTS <= x * (ONE_IN_BASIS_POINTS - fee.basis_points)
    BY FeeLeaves
  <1>2. calculate_fee(fee, x) = IF RateFee(fee, x) < fee.maximum_fee
                                THEN RateFee(fee, x) ELSE fee.maximum_fee
    BY DEF calculate_fee, Least, RateFee
  <1>3. fee.basis_points = 0 => RateFee(fee, x) = 0
    <2> SUFFICES ASSUME fee.basis_points = 0 PROVE RateFee(fee, x) = 0
      OBVIOUS
    <2>1. ONE_IN_BASIS_POINTS - fee.basis_points = ONE_IN_BASIS_POINTS
      BY FeeTypes
    <2>2. x * ONE_IN_BASIS_POINTS \in Nat
      BY FeeTypes, ProductNat
    <2> QED BY <1>1, <2>1, <2>2
  <1>4. fee.basis_points = ONE_IN_BASIS_POINTS => RateFee(fee, x) = x
    <2> SUFFICES ASSUME fee.basis_points = ONE_IN_BASIS_POINTS PROVE RateFee(fee, x) = x
      OBVIOUS
    <2> DEFINE B == ONE_IN_BASIS_POINTS
    <2>1. B \in Nat \ {0} /\ RateFee(fee, x) = DivRound(x * B, B, TRUE)
      BY FeeTypes DEF RateFee
    <2> HIDE DEF B
    <2>2. x * B \in Nat /\ x * B <= x * B /\ x \in Int
      BY <2>1, ProductNat
    <2> DEFINE c == RateFee(fee, x)
    <2>3. c = DivRound(x * B, B, TRUE)
      BY <2>1
    <2> HIDE DEF c
    <2>4. c <= x /\ c \in Nat /\ x * B <= c * B
      BY <2>1, <2>2, <2>3, RoundedUp, RoundedBelow
    <2>5. x <= c
      BY <2>1, <2>2, <2>4, ProductOrder
    <2> QED BY <2>2, <2>4, <2>5 DEF c
  <1>5. x = 0 => RateFee(fee, x) = 0
    <2> SUFFICES ASSUME x = 0 PROVE RateFee(fee, x) = 0
      OBVIOUS
    <2>1. x * ONE_IN_BASIS_POINTS = 0 /\ x * (ONE_IN_BASIS_POINTS - fee.basis_points) = 0
      BY FeeTypes
    <2> QED BY <1>1, <2>1
  <1>6. fee.maximum_fee \in Nat
    BY FeeTypes
  <1> QED BY <1>1, <1>2, <1>3, <1>4, <1>5, <1>6

LEMMA SentInFull ==
    ASSUME NEW fee \in FeeSettings, NEW offered \in U64, NEW n \in Nat,
           n <= calculate_transfer_fee_excluded_amount(fee, offered)
    PROVE  \E s \in Nat : SentFor(s, fee, n, offered)
  <1> DEFINE B == ONE_IN_BASIS_POINTS
             b == fee.basis_points
             m == fee.maximum_fee
             C(x) == RateFee(fee, x)
             r == BeforeFee(fee, n)
  <1>1. B \in Nat \ {0} /\ b \in Nat /\ m \in Nat /\ m <= U64MAX /\ U64MAX \in Nat
    BY FeeTypes
  <1>2. offered \in Nat /\ offered <= U64MAX
    BY <1>1 DEF U64
  <1>3. \A x \in Nat : C(x) \in Nat /\ calculate_fee(fee, x) = IF C(x) < m THEN C(x) ELSE m
    BY FeeOf
  <1>4. n <= offered - (IF C(offered) < m THEN C(offered) ELSE m)
    BY <1>2, <1>3 DEF calculate_transfer_fee_excluded_amount
  <1>5. n <= offered /\ n <= U64MAX
    BY <1>1, <1>2, <1>3, <1>4
  <1>6. CASE n = 0
    <2>1. C(0) = 0 /\ calculate_fee(fee, 0) = 0
      BY <1>1, <1>3, FeeOf
    <2>2. /\ calculate_transfer_fee_included_amount(fee, n) = 0
          /\ calculateTransferFeeIncludedAmount(fee, n) = 0
      BY <1>6 DEF calculate_transfer_fee_included_amount, calculateTransferFeeIncludedAmount
    <2>3. SentFor(0, fee, n, offered)
      BY <1>2, <1>6, <2>1, <2>2 DEF SentFor
    <2> QED BY <2>3
  <1>7. CASE n # 0 /\ b = 0
    <2>1. calculate_fee(fee, n) = 0 /\ b # B
      BY <1>1, <1>7, FeeOf
    <2>2. calculate_pre_fee_amount(fee, n) = n /\ n # Err
      BY <1>7 DEF calculate_pre_fee_amount, Err
    <2>3. InverseFee(fee, n) = 0
      BY <2>1, <2>2 DEF InverseFee
    <2>4. calculate_transfer_fee_included_amount(fee, n) = n
      BY <1>1, <1>5, <1>7, <2>1, <2>3 DEF calculate_transfer_fee_included_amount, Verified, Err
    <2>5. calculateTransferFeeIncludedAmount(fee, n) = n
      BY <1>7 DEF calculateTransferFeeIncludedAmount
    <2>6. SentFor(n, fee, n, offered)
      BY <1>2, <1>5, <2>1, <2>4, <2>5 DEF SentFor
    <2> QED BY <2>6
  <1>8. CASE n # 0 /\ b = B
    <2>1. C(offered) = offered /\ C(n + m) = n + m
      BY <1>1, <1>2, <1>8, FeeOf
    <2>2. n + m <= offered
      BY <1>1, <1>2, <1>4, <1>8, <2>1
    <2>3. calculate_fee(fee, n + m) = m
      BY <1>1, <1>3, <1>8, <2>1
    <2>4. InverseFee(fee, n) = m
      BY <1>8 DEF InverseFee
    <2>5. calculate_transfer_fee_included_amount(fee, n) = n + m
      BY <1>1, <1>2, <1>8, <2>2, <2>3, <2>4
         DEF calculate_transfer_fee_included_amount, Verified, Err
    <2>6. calculateTransferFeeIncludedAmount(fee, n) = n + m
      BY <1>1, <1>2, <1>8, <2>2 DEF calculateTransferFeeIncludedAmount, Checked
    <2>7. SentFor(n + m, fee, n, offered)
      BY <1>1, <1>2, <2>2, <2>3, <2>5, <2>6 DEF SentFor
    <2> QED BY <1>1, <2>7
  <1>9. CASE n # 0 /\ b # 0 /\ b # B
    <2>1. r \in Nat /\ \A x \in Nat : r <= x <=> C(x) <= x - n
      BY <1>9, LeastBeforeFee
    <2>2. \A x, y \in Nat : x <= y => C(x) <= C(y)
      BY RateFeeRises
    <2>3. /\ calculate_pre_fee_amount(fee, n) = IF r - n >= m THEN Checked(n + m, U64MAX)
                                                ELSE Checked(r, U64MAX)
          /\ calculateTransferFeeIncludedAmount(fee, n) = IF r - n >= m THEN Checked(n + m, U64MAX)
                                                          ELSE Checked(r, U64MAX)
      BY <1>9 DEF calculate_pre_fee_amount, calculateTransferFeeIncludedAmount, BeforeFee
    <2>4. /\ InverseFee(fee, n) = LET pre == calculate_pre_fee_amount(fee, n)
                                  IN  IF pre = Err THEN Err ELSE calculate_fee(fee, pre)
          /\ calculate_transfer_fee_included_amount(fee, n) = Verified(fee, n, InverseFee(fee, n))
      BY <1>9 DEF InverseFee, calculate_transfer_fee_included_amount
    <2> HIDE DEF C, r, m
    <2>5. C(0) = 0 /\ r > 0
      <3>1. C(0) = 0
        BY FeeOf DEF C
      <3> QED BY <1>9, <2>1, <3>1
    <2>6. C(r) = r - n
      <3>1. C(r) <= r - n
        BY <2>1
      <3>2. r - 1 \in Nat /\ ~(r <= r - 1)
        BY <2>1, <2>5
      <3>3. ~(C(r - 1) <= r - 1 - n)
        BY <2>1, <3>2
      <3>4. C(r - 1) <= C(r) /\ C(r - 1) \in Nat /\ C(r) \in Nat
        BY <1>3, <2>1, <2>2, <3>2
      <3> QED BY <2>1, <3>1, <3>3, <3>4
    <2>7. C(offered) < m => r <= offered
      BY <1>2, <1>4, <2>1, <1>3
    <2>8. ~(C(offered) < m) => n + m <= offered
      BY <1>1, <1>2, <1>4
    <2>9. CASE r - n >= m
      <3>1. n + m <= offered
        BY <1>1, <1>2, <2>1, <2>7, <2>8, <2>9
      <3>2. ~(C(n + m) < m)
        <4>1. CASE m = 0
          BY <1>1, <1>3, <4>1
        <4>2. CASE m # 0
          <5> DEFINE x == n + m - 1
          <5>1. x \in Nat /\ x <= n + m /\ ~(r <= x) /\ n + m \in Nat /\ x - n = m - 1
            BY <1>1, <2>1, <2>9, <4>2
          <5> HIDE DEF x
          <5>2. ~(C(x) <= m - 1) /\ C(x) <= C(n + m) /\ C(x) \in Nat /\ C(n + m) \in Nat
            BY <1>3, <2>1, <2>2, <5>1
          <5> QED BY <1>1, <5>2
        <4> QED BY <4>1, <4>2
      <3>3. calculate_fee(fee, n + m) = m
        BY <1>1, <1>3, <3>2
      <3>4. Checked(n + m, U64MAX) = n + m /\ n + m # Err
        BY <1>1, <1>2, <3>1 DEF Checked, Err
      <3>5. InverseFee(fee, n) = m
        BY <2>3, <2>4, <2>9, <3>3, <3>4
      <3>6. calculate_transfer_fee_included_amount(fee, n) = n + m
        BY <1>1, <1>2, <2>4, <3>1, <3>3, <3>5 DEF Verified, Err
      <3>7. SentFor(n + m, fee, n, offered)
        BY <1>1, <1>2, <2>3, <2>9, <3>1, <3>3, <3>4, <3>6 DEF SentFor
      <3> QED BY <1>1, <3>7
    <2>10. CASE ~(r - n >= m)
      <3>1. r <= offered
        BY <1>1, <1>2, <2>1, <2>7, <2>8, <2>10
      <3>2. calculate_fee(fee, r) = r - n /\ C(r) \in Nat
        BY <1>1, <1>3, <2>1, <2>6, <2>10
      <3>3. Checked(r, U64MAX) = r /\ r # Err
        BY <1>1, <1>2, <2>1, <3>1 DEF Checked, Err
      <3>4. InverseFee(fee, n) = r - n
        BY <2>3, <2>4, <2>10, <3>2, <3>3
      <3>5. n + (r - n) = r /\ r - n # Err
        BY <2>1, <2>6, <3>2 DEF Err
      <3>6. calculate_transfer_fee_included_amount(fee, n) = r
        BY <1>1, <1>2, <2>1, <2>4, <3>1, <3>2, <3>4, <3>5 DEF Verified
      <3>7. SentFor(r, fee, n, offered)
        BY <1>1, <1>2, <2>1, <2>3, <2>10, <3>1, <3>2, <3>3, <3>6 DEF SentFor
      <3> QED BY <2>1, <3>7
    <2> QED BY <2>9, <2>10
  <1> QED BY <1>6, <1>7, <1>8, <1>9

\* What a fee leaves of an amount is an amount.
LEMMA FeeLeavesNat ==
    ASSUME NEW fee \in FeeSettings, NEW x \in Nat
    PROVE  calculate_transfer_fee_excluded_amount(fee, x) \in Nat
  <1>1. x * (ONE_IN_BASIS_POINTS - fee.basis_points) \in Nat
    BY FeeTypes, ProductNat
  <1>2. RateFee(fee, x) \in Nat /\ RateFee(fee, x) <= x
    <2> DEFINE z == 0
               n == x * (ONE_IN_BASIS_POINTS - fee.basis_points)
    <2>1. z * ONE_IN_BASIS_POINTS <= n /\ z \in Int /\ x - z = x
      BY <1>1, FeeTypes
    <2> HIDE DEF z
    <2> QED BY <2>1, FeeLeaves
  <1>3. calculate_fee(fee, x) = (IF RateFee(fee, x) < fee.maximum_fee
                                 THEN RateFee(fee, x) ELSE fee.maximum_fee)
    BY FeeOf
  <1> QED BY <1>2, <1>3, FeeTypes DEF calculate_transfer_fee_excluded_amount

\* What a fee leaves rises with the amount.
LEMMA FeeLeavesMore ==
    ASSUME NEW fee \in FeeSettings, NEW n \in Nat, NEW m \in Nat, n <= m
    PROVE  calculate_transfer_fee_excluded_amount(fee, n)
             <= calculate_transfer_fee_excluded_amount(fee, m)
  <1> DEFINE B == ONE_IN_BASIS_POINTS
             r == B - fee.basis_points
             c == RateFee(fee, n)
             f == RateFee(fee, m)
             k == n - c
             x == fee.maximum_fee
  <1>1. /\ B \in Nat \ {0} /\ r \in Nat /\ x \in Nat
        /\ c \in Nat /\ f \in Nat
        /\ calculate_fee(fee, n) = IF c < x THEN c ELSE x
        /\ calculate_fee(fee, m) = IF f < x THEN f ELSE x
    BY FeeTypes, FeeOf
  <1>2. k \in Int /\ c = n - k
    BY <1>1
  <1>3. c <= n - k <=> k * B <= n * r
    BY <1>2, FeeLeaves
  <1>4. f <= m - k <=> k * B <= m * r
    BY <1>2, FeeLeaves
  <1> HIDE DEF B, r, c, f, x, k
  <1>5. n * r <= m * r /\ n * r \in Int /\ m * r \in Int /\ k * B \in Int
    BY <1>1, <1>2, ProductMonotone, ProductInt
  <1>6. f <= m - k
    <2>1. k * B <= n * r
      BY <1>1, <1>2, <1>3
    <2> DEFINE i == n * r
               j == m * r
               h == k * B
    <2>2. h <= i /\ i <= j /\ h \in Int /\ i \in Int /\ j \in Int
      BY <1>5, <2>1
    <2> HIDE DEF h, i, j
    <2>3. h <= j
      BY <2>2
    <2> QED BY <1>4, <2>3 DEF h, j
  <1> QED BY <1>1, <1>2, <1>6 DEF calculate_transfer_fee_excluded_amount

\* An amount with its fee, of which the SDK found that it fits, leaves the amount.
LEMMA IncludedLeaves ==
    ASSUME NEW fee \in FeeSettings, NEW n \in Nat, NEW s,
           s = calculateTransferFeeIncludedAmount(fee, n), s # Err, s <= U64MAX
    PROVE  s \in U64 /\ n <= s /\ n <= calculate_transfer_fee_excluded_amount(fee, s)
  <1> DEFINE B == ONE_IN_BASIS_POINTS
             b == fee.basis_points
             m == fee.maximum_fee
             C(x) == RateFee(fee, x)
             r == BeforeFee(fee, n)
  <1>1. B \in Nat \ {0} /\ b \in Nat /\ m \in Nat /\ m <= U64MAX /\ U64MAX \in Nat
    BY FeeTypes
  <1>2. \A x \in Nat : /\ C(x) \in Nat
                       /\ calculate_fee(fee, x) = IF C(x) < m THEN C(x) ELSE m
                       /\ b = 0 => calculate_fee(fee, x) = 0
                       /\ x = 0 => C(x) = 0
    BY FeeOf
  <1>3. s = IF b = 0 \/ n = 0 THEN n
            ELSE IF b = B \/ r - n >= m THEN Checked(n + m, U64MAX) ELSE Checked(r, U64MAX)
    BY DEF calculateTransferFeeIncludedAmount, BeforeFee
  <1>4. b # B => r \in Nat /\ (r <= r <=> C(r) <= r - n)
    <2> SUFFICES ASSUME b # B PROVE r \in Nat /\ (r <= r <=> C(r) <= r - n)
      OBVIOUS
    <2>1. r \in Nat
      BY LeastBeforeFee
    <2> QED BY <2>1, LeastBeforeFee
  <1>5. calculate_transfer_fee_excluded_amount(fee, s) = s - calculate_fee(fee, s)
    BY DEF calculate_transfer_fee_excluded_amount
  <1> HIDE DEF B, b, m, C, r
  <1>6. CASE b = 0 \/ n = 0
    <2>1. s = n /\ s \in Nat
      BY <1>3, <1>6
    <2>2. calculate_fee(fee, s) = 0
      BY <1>1, <1>2, <1>6, <2>1
    <2> QED BY <1>1, <1>5, <2>1, <2>2 DEF U64
  <1>7. CASE ~(b = 0 \/ n = 0) /\ (b = B \/ r - n >= m)
    <2>1. s = n + m
      BY <1>1, <1>3, <1>7 DEF Checked
    <2>2. s \in Nat /\ calculate_fee(fee, s) <= m /\ calculate_fee(fee, s) \in Int
      BY <1>1, <1>2, <2>1
    <2> QED BY <1>1, <1>5, <2>1, <2>2 DEF U64
  <1>8. CASE ~(b = 0 \/ n = 0) /\ ~(b = B \/ r - n >= m)
    <2>1. r \in Nat /\ C(r) <= r - n /\ C(r) \in Nat
      BY <1>2, <1>4, <1>8
    <2>2. s = r
      BY <1>1, <1>3, <1>8, <2>1 DEF Checked
    <2>3. calculate_fee(fee, s) <= r - n /\ calculate_fee(fee, s) \in Int
      BY <1>1, <1>2, <2>1, <2>2
    <2> QED BY <1>1, <1>5, <2>1, <2>2, <2>3 DEF U64
  <1> QED BY <1>6, <1>7, <1>8

\* Of an amount that is no more than one of which the SDK's result fits, the
\* program and the SDK agree on what must be sent.
LEMMA IncludedWithin ==
    ASSUME NEW fee \in FeeSettings, NEW n \in Nat, NEW m \in Nat, n <= m, NEW limit,
           limit = calculateTransferFeeIncludedAmount(fee, m), limit # Err, limit <= U64MAX
    PROVE  /\ calculateTransferFeeIncludedAmount(fee, n) \in 0..limit
           /\ calculate_transfer_fee_included_amount(fee, n)
                = calculateTransferFeeIncludedAmount(fee, n)
           /\ n <= limit /\ m <= limit /\ limit \in U64
  <1> DEFINE rest == calculate_transfer_fee_excluded_amount(fee, limit)
  <1>1. limit \in U64 /\ m <= limit /\ m <= rest
    BY IncludedLeaves
  <1>2. limit \in Nat
    BY <1>1, Unsigned
  <1>3. rest \in Nat
    BY <1>2, FeeLeavesNat
  <1>4. n <= rest
    <2> HIDE DEF rest
    <2> QED BY <1>1, <1>3
  <1>5. PICK s \in Nat : SentFor(s, fee, n, limit)
    BY <1>1, <1>4, SentInFull
  <1>6. /\ s \in Nat /\ s <= limit
        /\ s = calculate_transfer_fee_included_amount(fee, n)
        /\ s = calculateTransferFeeIncludedAmount(fee, n)
    BY <1>5, Zenon DEF SentFor
  <1>7. s \in 0..limit
    BY <1>2, <1>6
  <1> QED BY <1>1, <1>2, <1>6, <1>7

\* A tolerance raises the most that is paid and lowers the least that is received.
LEMMA SlippageMoves ==
    ASSUME NEW n \in Nat, NEW slippage, slippage.denominator \in Nat \ {0},
           slippage.numerator \in 0..slippage.denominator
    PROVE  /\ adjustForSlippage(n, slippage, TRUE) \in Nat
           /\ n <= adjustForSlippage(n, slippage, TRUE)
           /\ adjustForSlippage(n, slippage, FALSE) \in Nat
           /\ adjustForSlippage(n, slippage, FALSE) <= n
  <1> DEFINE d == slippage.denominator
             k == slippage.numerator
             c == d + k
             down == FALSE
             x == DivRound(n * c, d, down)
             y == DivRound(n * d, c, down)
  <1>1. d \in Nat \ {0} /\ k \in Nat /\ c \in Nat \ {0} /\ d <= c /\ down \in BOOLEAN
    OBVIOUS
  <1>2. /\ adjustForSlippage(n, slippage, TRUE) = (n * c) \div d
        /\ adjustForSlippage(n, slippage, FALSE) = (n * d) \div c
    BY DEF adjustForSlippage
  <1> HIDE DEF d, k, c
  <1>3. n * c \in Nat /\ n * d \in Nat /\ n * d <= n * c
    <2>1. d * n <= c * n /\ d * n = n * d /\ c * n = n * c
      BY <1>1, ProductMonotone, ProductTurned
    <2> QED BY <1>1, <2>1, ProductNat
  <1>4. (n * c) \div d = x /\ (n * d) \div c = y
    <2>1. (n * c) \div d \in Int /\ (n * d) \div c \in Int
      BY <1>1, <1>3, DivisionOf
    <2> QED BY <2>1 DEF DivRound
  <1>5. /\ n * c \in Nat /\ n * d \in Nat /\ n * d <= n * c /\ n \in Int
        /\ down = FALSE /\ x = DivRound(n * c, d, down) /\ y = DivRound(n * d, c, down)
    BY <1>3
  <1> HIDE DEF down, x, y
  <1>6. x \in Nat /\ n <= x
    BY <1>1, <1>5, Rounding
  <1>7. y \in Nat /\ y <= n
    BY <1>1, <1>5, Rounding
  <1> QED BY <1>2, <1>4, <1>6, <1>7

-----------------------------------------------------------------------------
(* The search for the next initialised tick *)

LEMMA EndsOfPair ==
    ASSUME NEW a \in Int, NEW b \in Int
    PROVE  /\ a >= b => Max({a, b}) = a /\ Min({a, b}) = b
           /\ a <= b => Max({a, b}) = b /\ Min({a, b}) = a
  <1> DEFINE S == {a, b}
             high == IF a >= b THEN a ELSE b
             low == IF a >= b THEN b ELSE a
  <1>1. /\ high \in S /\ low \in S /\ \A y \in S : high >= y /\ low <= y
        /\ \A x \in S : ((\A y \in S : x >= y) => x = high) /\ ((\A y \in S : x <= y) => x = low)
    OBVIOUS
  <1> HIDE DEF S, high, low
  <1>2. /\ Max(S) \in S /\ \A y \in S : Max(S) >= y
        /\ Min(S) \in S /\ \A y \in S : Min(S) <= y
    BY <1>1 DEF Max, Min
  <1>3. Max(S) = high /\ Min(S) = low
    BY <1>1, <1>2
  <1> QED BY <1>3 DEF S, high, low

K == TicksInArray(TickSpacing)

\* The grid of the ticks that can be initialised.
OnGrid(t) == \E q \in Int : t = TickSpacing * q

-----------------------------------------------------------------------------
(* Arithmetic. *)

LEMMA DivMod ==
    ASSUME NEW a \in Int, NEW b \in Nat \ {0}
    PROVE  a \div b \in Int /\ a % b \in 0..b - 1 /\ a = b * (a \div b) + (a % b)
  OBVIOUS

LEMMA Quotient ==
    ASSUME NEW a \in Int, NEW b \in Nat \ {0}
    PROVE  \E q \in Int : a = b * q + (a % b) /\ a % b \in 0..b - 1
  <1> DEFINE q == a \div b
  <1>1. q \in Int /\ a = b * q + (a % b) /\ a % b \in 0..b - 1
    BY DivMod
  <1> HIDE DEF q
  <1> QED BY <1>1

LEMMA Monotone ==
    ASSUME NEW s \in Nat \ {0}, NEW x \in Int, NEW y \in Int
    PROVE  /\ s * x \in Int
           /\ x < y <=> s * x < s * y
           /\ x <= y <=> s * x <= s * y
  <1>1. x < y => s * x < s * y
    OBVIOUS
  <1>2. y < x => s * y < s * x
    OBVIOUS
  <1>3. x = y => s * x = s * y
    OBVIOUS
  <1> QED BY <1>1, <1>2, <1>3

\* A multiple leaves no remainder, and conversely.
LEMMA GridRemainder ==
    ASSUME NEW t \in Int
    PROVE  t % TickSpacing = 0 <=> OnGrid(t)
  <1> USE SpacingAssumption
  <1> DEFINE q == t \div TickSpacing
             r == t % TickSpacing
  <1>1. q \in Int /\ r \in 0..TickSpacing - 1 /\ t = TickSpacing * q + r
    BY DivMod
  <1>2. ASSUME r = 0 PROVE OnGrid(t)
    <2> HIDE DEF q, r
    <2>1. t = TickSpacing * q
      BY <1>1, <1>2
    <2> QED BY <1>1, <2>1 DEF OnGrid
  <1>3. ASSUME OnGrid(t) PROVE r = 0
    <2>1. PICK p \in Int : t = TickSpacing * p
      BY <1>3 DEF OnGrid
    <2> HIDE DEF q, r
    <2>2. r = TickSpacing * (p - q)
      BY <1>1, <2>1
    <2>3. p - q \in Int /\ ~(0 < p - q /\ 1 <= p - q /\ r < TickSpacing) /\ ~(p - q < 0)
      BY <1>1, <2>2, Monotone
    <2>4. p - q = 0
      BY <1>1, <2>3
    <2> QED BY <2>2, <2>4
  <1> QED BY <1>2, <1>3

\* Different ticks of the grid are a spacing apart.
LEMMA GridStep ==
    ASSUME NEW t \in Int, NEW u \in Int, OnGrid(t), OnGrid(u), t - TickSpacing < u
    PROVE  t <= u
  <1> USE SpacingAssumption
  <1>1. PICK p \in Int : t = TickSpacing * p
    BY DEF OnGrid
  <1>2. PICK q \in Int : u = TickSpacing * q
    BY DEF OnGrid
  <1>3. TickSpacing * (p - 1) < TickSpacing * q
    BY <1>1, <1>2
  <1>4. p - 1 < q
    BY <1>3, Monotone
  <1> QED BY <1>1, <1>2, <1>4, Monotone

LEMMA SizeOfArray == K \in Nat \ {0} /\ K >= TickSpacing /\ K = TICK_ARRAY_SIZE * TickSpacing
  BY SpacingAssumption, TickArrayAssumption DEF K, TicksInArray

LEMMA QuotientOfArray ==
    ASSUME NEW a \in Int
    PROVE  \E q \in Int : a = K * q + (a % K) /\ a % K \in Int
  <1>1. \E q \in Int : a = K * q + (a % K) /\ a % K \in 0..K - 1
    BY SizeOfArray, Quotient
  <1> QED BY <1>1

\* Arrays start on the grid.
LEMMA StartOnGrid ==
    ASSUME NEW start \in Starts
    PROVE  start \in Int /\ OnGrid(start)
  <1> USE SpacingAssumption, TickArrayAssumption, TickIndexAssumption, SizeOfArray
  <1>1. MinArrayStart(TickSpacing) \in Int
    BY DivMod DEF MinArrayStart, K
  <1>2. start \in Int
    BY <1>1 DEF Starts
  <1>3. \E q \in Int : start = K * q
    <2>1. CASE start % K = 0
      <3>1. PICK q \in Int : start = K * q + (start % K)
        BY <1>2, QuotientOfArray
      <3>2. start = K * q
        BY <2>1, <3>1
      <3> QED BY <3>2
    <2>2. CASE start = MinArrayStart(TickSpacing)
      <3> DEFINE m == -MIN_TICK_INDEX
                 r == m % K
      <3>1. PICK q \in Int : m = K * q + r /\ r \in Int
        <4>1. m \in Int
          OBVIOUS
        <4> HIDE DEF m
        <4> QED BY <4>1, QuotientOfArray
      <3>2. start = MIN_TICK_INDEX + r - K
        BY <2>2 DEF MinArrayStart, K
      <3> HIDE DEF r
      <3>3. start = K * (-q - 1)
        BY <3>1, <3>2
      <3> QED BY <3>1, <3>3
    <2> QED BY <2>1, <2>2 DEF Starts, check_is_valid_start_tick, K
  <1>4. PICK q \in Int : start = K * q
    BY <1>3
  <1>5. start = TickSpacing * (TICK_ARRAY_SIZE * q) /\ TICK_ARRAY_SIZE * q \in Int
    BY <1>4
  <1> QED BY <1>2, <1>5 DEF OnGrid

-----------------------------------------------------------------------------
(* The least and the greatest of a set. *)

LEMMA LeastOne ==
    ASSUME NEW S, S \subseteq Nat, S # {}
    PROVE  Min(S) \in S /\ \A x \in S : Min(S) <= x
  <1> DEFINE less == {ss \in Nat \X Nat : ss[1] < ss[2]}
  <1>0. IsWellFoundedOn(less, Nat)
    BY NatLessThanWellFounded DEF OpToRel
  <1>1. PICK x \in S : \A y \in S : <<y, x>> \notin less
    <2> HIDE DEF less
    <2> QED BY <1>0, WFMin
  <1>2. ASSUME NEW y \in S PROVE x <= y
    <2>1. x \in Nat /\ y \in Nat /\ <<y, x>> \notin less
      BY <1>1
    <2>2. ~(y < x)
      BY <2>1
    <2> QED BY <2>1, <2>2
  <1>3. \E z \in S : \A y \in S : z <= y
    BY <1>2
  <1> QED BY <1>3 DEF Min

LEMMA GreatestOne ==
    ASSUME NEW S, NEW n \in Nat, S \subseteq 0..n, S # {}
    PROVE  Max(S) \in S /\ \A x \in S : x <= Max(S)
  <1> DEFINE T == {n - x : x \in S}
  <1>1. T \subseteq Nat /\ T # {}
    <2>1. \A x \in S : x \in Int /\ 0 <= x /\ x <= n
      OBVIOUS
    <2>2. \A x \in S : n - x \in Nat
      BY <2>1
    <2> QED BY <2>2
  <1>2. Min(T) \in T /\ \A x \in T : Min(T) <= x
    BY <1>1, LeastOne
  <1>3. PICK z \in S : Min(T) = n - z
    BY <1>2
  <1>4. ASSUME NEW y \in S PROVE y <= z
    <2>1. n - y \in T
      OBVIOUS
    <2>2. n - z <= n - y
      BY <1>2, <1>3, <2>1
    <2> QED BY <2>2
  <1>5. \E x \in S : \A y \in S : x >= y
    BY <1>4
  <1> QED BY <1>5 DEF Max

-----------------------------------------------------------------------------
(* One array. *)

LEMMA UsableOnGrid ==
    ASSUME NEW u \in Usable
    PROVE  u \in Int /\ OnGrid(u) /\ MIN_TICK_INDEX <= u /\ u <= MAX_TICK_INDEX
  <1>1. u \in Int /\ MIN_TICK_INDEX <= u /\ u <= MAX_TICK_INDEX /\ u % TickSpacing = 0
    BY TickIndexAssumption DEF Usable, check_is_usable_tick
  <1> QED BY <1>1, GridRemainder

\* Every tick of the grid within an array has its slot.
LEMMA SlotOf ==
    ASSUME NEW start \in Int, OnGrid(start), NEW u \in Int, OnGrid(u), start <= u, u < start + K
    PROVE  \E o \in 0..TICK_ARRAY_SIZE - 1 : u = start + o * TickSpacing
  <1> USE SpacingAssumption, TickArrayAssumption
  <1>1. PICK p \in Int : start = TickSpacing * p
    BY DEF OnGrid
  <1>2. PICK q \in Int : u = TickSpacing * q
    BY DEF OnGrid
  <1>3. p <= q
    BY <1>1, <1>2, Monotone
  <1>4. u < TickSpacing * (p + TICK_ARRAY_SIZE)
    BY <1>1, SizeOfArray
  <1>5. q < p + TICK_ARRAY_SIZE
    BY <1>2, <1>4, Monotone
  <1>6. q - p \in 0..TICK_ARRAY_SIZE - 1 /\ u = start + (q - p) * TickSpacing
    BY <1>1, <1>2, <1>3, <1>5
  <1> QED BY <1>6

\* A slot lies at or left of a tick if its number is at most the tick's.
LEMMA OffsetOrders ==
    ASSUME NEW start \in Int, NEW x \in Int, NEW o \in Int
    PROVE  /\ tick_offset(start, x, TickSpacing) \in Int
           /\ o <= tick_offset(start, x, TickSpacing) <=> start + o * TickSpacing <= x
  <1> USE SpacingAssumption
  <1> DEFINE d == tick_offset(start, x, TickSpacing)
             r == (x - start) % TickSpacing
  <1>1. d \in Int /\ r \in 0..TickSpacing - 1 /\ x - start = TickSpacing * d + r
    <2> DEFINE m == x - start
    <2>1. m \in Int
      OBVIOUS
    <2>2. d = m \div TickSpacing
      BY DEF tick_offset
    <2> HIDE DEF m, d
    <2>3. d \in Int /\ m % TickSpacing \in 0..TickSpacing - 1 /\ m = TickSpacing * d + (m % TickSpacing)
      BY <2>1, <2>2, DivMod
    <2> QED BY <2>3 DEF m
  <1> HIDE DEF d, r
  <1>2. ASSUME o <= d PROVE start + o * TickSpacing <= x
    <2>1. TickSpacing * o <= TickSpacing * d
      BY <1>1, <1>2, Monotone
    <2> QED BY <1>1, <2>1
  <1>3. ASSUME start + o * TickSpacing <= x PROVE o <= d
    <2>1. TickSpacing * o < TickSpacing * (d + 1)
      BY <1>1, <1>3
    <2>2. o < d + 1
      BY <1>1, <2>1, Monotone
    <2> QED BY <1>1, <2>2
  <1> QED BY <1>1, <1>2, <1>3 DEF d

\* The slots ahead of a search are the initialised ticks ahead of it, in the array.
LEMMA SlotsAheadSound ==
    ASSUME NEW start \in Int, NEW initialized \in SUBSET Usable, NEW x \in Int, NEW left \in BOOLEAN,
           NEW o \in SlotsAhead(start, initialized, x, TickSpacing, left)
    PROVE  /\ o \in 0..TICK_ARRAY_SIZE - 1 /\ start + o * TickSpacing \in initialized
           /\ start <= start + o * TickSpacing /\ start + o * TickSpacing < start + K
           /\ IF left THEN start + o * TickSpacing <= x ELSE x < start + o * TickSpacing
  <1> USE SpacingAssumption, TickArrayAssumption
  <1>1. /\ o \in 0..TICK_ARRAY_SIZE - 1 /\ start + o * TickSpacing \in initialized
        /\ IF left THEN o <= tick_offset(start, x, TickSpacing)
                   ELSE o > tick_offset(start, x, TickSpacing)
    BY DEF SlotsAhead
  <1>2. TickSpacing * 0 <= TickSpacing * o /\ TickSpacing * o < TickSpacing * TICK_ARRAY_SIZE
    BY <1>1, Monotone
  <1>3. IF left THEN start + o * TickSpacing <= x ELSE x < start + o * TickSpacing
    <2> DEFINE d == tick_offset(start, x, TickSpacing)
               u == start + o * TickSpacing
    <2>1. o \in Int /\ u \in Int
      BY <1>1
    <2>2. d \in Int /\ (o <= d <=> u <= x)
      BY <2>1, OffsetOrders
    <2>3. IF left THEN o <= d ELSE o > d
      BY <1>1
    <2> HIDE DEF d, u
    <2>4. IF left THEN u <= x ELSE x < u
      BY <2>1, <2>2, <2>3
    <2> QED BY <2>4 DEF u
  <1> QED BY <1>1, <1>2, <1>3, SizeOfArray

LEMMA SlotsAheadComplete ==
    ASSUME NEW start \in Int, OnGrid(start), NEW initialized \in SUBSET Usable, NEW x \in Int,
           NEW left \in BOOLEAN, in_search_range(start, x, TickSpacing, ~left), NEW u \in initialized,
           IF left THEN start <= u /\ u <= x ELSE x < u /\ u < start + K
    PROVE  \E o \in SlotsAhead(start, initialized, x, TickSpacing, left) : u = start + o * TickSpacing
  <1> USE SpacingAssumption, TickArrayAssumption
  <1>1. u \in Int /\ OnGrid(u)
    BY UsableOnGrid
  <1>2. IF left THEN start <= x /\ x < start + K
                ELSE start - TickSpacing <= x /\ x < start + K - TickSpacing
    <2>1. K \in Int /\ TicksInArray(TickSpacing) = K
      BY SizeOfArray DEF K
    <2>2. x \in start - (IF ~left THEN TickSpacing ELSE 0)
                  ..start + K - (IF ~left THEN TickSpacing ELSE 0) - 1
      BY <2>1 DEF in_search_range
    <2> QED BY <2>1, <2>2
  <1>3. start <= u /\ u < start + K
    <2>1. CASE left
      BY <1>1, <1>2, <2>1, SizeOfArray
    <2>2. CASE ~left
      <3>1. start - TickSpacing < u
        BY <1>1, <1>2, <2>2
      <3> QED BY <1>1, <2>2, <3>1, GridStep
    <2> QED BY <2>1, <2>2
  <1>4. PICK o \in 0..TICK_ARRAY_SIZE - 1 : u = start + o * TickSpacing
    BY <1>1, <1>3, SlotOf
  <1>5. IF left THEN o <= tick_offset(start, x, TickSpacing) ELSE o > tick_offset(start, x, TickSpacing)
    <2> DEFINE d == tick_offset(start, x, TickSpacing)
    <2>1. o \in Int /\ start + o * TickSpacing = u
      BY <1>4
    <2>2. d \in Int /\ (o <= d <=> u <= x)
      BY <2>1, OffsetOrders
    <2> HIDE DEF d
    <2>3. IF left THEN o <= d ELSE o > d
      BY <1>1, <2>1, <2>2
    <2> QED BY <2>3 DEF d
  <1>6. o \in SlotsAhead(start, initialized, x, TickSpacing, left)
    BY <1>4, <1>5 DEF SlotsAhead
  <1> QED BY <1>4, <1>6

\* An array without a slot ahead is passed without missing a tick.
LEMMA ArrayPassed ==
    ASSUME NEW start \in Int, OnGrid(start), NEW initialized \in SUBSET Usable, NEW x \in Int,
           NEW left \in BOOLEAN, in_search_range(start, x, TickSpacing, ~left),
           SlotsAhead(start, initialized, x, TickSpacing, left) = {}
    PROVE  \A u \in initialized : IF left THEN u <= x => u < start ELSE x < u => start + K <= u
  <1> SUFFICES ASSUME NEW u \in initialized
               PROVE  IF left THEN u <= x => u < start ELSE x < u => start + K <= u
    OBVIOUS
  <1>1. u \in Int /\ K \in Int
    BY UsableOnGrid, SizeOfArray
  <1>2. ~(IF left THEN start <= u /\ u <= x ELSE x < u /\ u < start + K)
    BY SlotsAheadComplete
  <1> QED BY <1>1, <1>2

\* The slot that the search takes: the nearest one.
Nearest(start, initialized, x, left) ==
    LET slots == SlotsAhead(start, initialized, x, TickSpacing, left)
    IN  start + (IF left THEN Max(slots) ELSE Min(slots)) * TickSpacing

LEMMA ArrayFound ==
    ASSUME NEW start \in Int, OnGrid(start), NEW initialized \in SUBSET Usable, NEW x \in Int,
           NEW left \in BOOLEAN, in_search_range(start, x, TickSpacing, ~left),
           SlotsAhead(start, initialized, x, TickSpacing, left) # {}
    PROVE  LET f == Nearest(start, initialized, x, left)
           IN  /\ f \in initialized /\ start <= f /\ f < start + K
               /\ IF left THEN f <= x ELSE x < f
               /\ \A u \in initialized : IF left THEN u <= x => u <= f ELSE x < u => f <= u
  <1> USE SpacingAssumption, TickArrayAssumption
  <1> DEFINE slots == SlotsAhead(start, initialized, x, TickSpacing, left)
             o == IF left THEN Max(slots) ELSE Min(slots)
             f == start + o * TickSpacing
  <1>1. slots \subseteq 0..TICK_ARRAY_SIZE - 1 /\ slots # {}
    BY DEF SlotsAhead
  <1>2. o \in slots /\ \A n \in slots : IF left THEN n <= o ELSE o <= n
    <2> HIDE DEF slots
    <2>1. TICK_ARRAY_SIZE - 1 \in Nat /\ slots \subseteq Nat
      BY <1>1
    <2>2. CASE left
      BY <1>1, <2>1, <2>2, GreatestOne
    <2>3. CASE ~left
      BY <1>1, <2>1, <2>3, LeastOne
    <2> QED BY <2>2, <2>3
  <1>3. o \in Int
    BY <1>1, <1>2
  <1>4. f = Nearest(start, initialized, x, left)
    BY DEF Nearest
  <1> HIDE DEF o
  <1>5. /\ f \in initialized /\ start <= f /\ f < start + K
        /\ IF left THEN f <= x ELSE x < f
    BY <1>2, SlotsAheadSound
  <1>6. ASSUME NEW u \in initialized
        PROVE  IF left THEN u <= x => u <= f ELSE x < u => f <= u
    <2>1. u \in Int /\ f \in Int /\ K \in Int
      BY <1>3, UsableOnGrid, SizeOfArray
    <2>2. CASE IF left THEN start <= u /\ u <= x ELSE x < u /\ u < start + K
      <3>1. PICK n \in slots : u = start + n * TickSpacing
        BY <2>2, SlotsAheadComplete
      <3>2. n \in Int /\ IF left THEN n <= o ELSE o <= n
        BY <1>1, <1>2, <3>1
      <3>3. IF left THEN TickSpacing * n <= TickSpacing * o ELSE TickSpacing * o <= TickSpacing * n
        BY <1>3, <3>2, Monotone
      <3> QED BY <1>3, <3>1, <3>2, <3>3
    <2>3. CASE ~(IF left THEN start <= u /\ u <= x ELSE x < u /\ u < start + K)
      <3> HIDE DEF f
      <3> QED BY <1>5, <2>1, <2>3
    <2> QED BY <2>2, <2>3
  <1> QED BY <1>4, <1>5, <1>6

-----------------------------------------------------------------------------
(* The search over the arrays. *)

\* What is known when the search comes to an array: it is within the range,
\* and no initialised tick lies between where it began and where it is now.
Reached(initialized, t, left, x) ==
    /\ x \in Int
    /\ IF left THEN MIN_TICK_INDEX <= x /\ x <= t ELSE t <= x /\ x < MAX_TICK_INDEX
    /\ \A u \in initialized : IF left THEN u <= t => u <= x ELSE t < u => x < u

\* From one array that is passed to the next.
LEMMA ReachesNext ==
    ASSUME NEW start \in Int, OnGrid(start), NEW initialized \in SUBSET Usable, NEW t \in Int,
           NEW left \in BOOLEAN, NEW x, Reached(initialized, t, left, x),
           in_search_range(start, x, TickSpacing, ~left),
           SlotsAhead(start, initialized, x, TickSpacing, left) = {},
           left => ~is_min_tick_array(start), ~left => ~is_max_tick_array(start, TickSpacing)
    PROVE  Reached(initialized, t, left, IF left THEN start - 1 ELSE start + K - 1)
  <1> USE TickIndexAssumption, SpacingAssumption
  <1>1. x \in Int /\ K \in Int /\ TicksInArray(TickSpacing) = K
    BY SizeOfArray DEF Reached, K
  <1>2. x \in start - (IF ~left THEN TickSpacing ELSE 0)..start + K - (IF ~left THEN TickSpacing ELSE 0) - 1
    BY <1>1 DEF in_search_range
  <1>3. \A u \in initialized : u \in Int /\ (IF left THEN u <= x => u < start ELSE x < u => start + K <= u)
    BY <1>1, ArrayPassed, UsableOnGrid
  <1>4. CASE left
    <2>1. start <= x /\ MIN_TICK_INDEX < start
      BY <1>1, <1>2, <1>4 DEF is_min_tick_array
    <2>2. x <= t /\ \A u \in initialized : u <= t => u <= x
      BY <1>4 DEF Reached
    <2> QED BY <1>1, <1>3, <1>4, <2>1, <2>2 DEF Reached
  <1>5. CASE ~left
    <2>1. x < start + K - TickSpacing /\ start + K <= MAX_TICK_INDEX
      BY <1>1, <1>2, <1>5 DEF is_max_tick_array
    <2>2. t <= x /\ \A u \in initialized : t < u => x < u
      BY <1>5 DEF Reached
    <2> QED BY <1>1, <1>3, <1>5, <2>1, <2>2 DEF Reached
  <1> QED BY <1>4, <1>5

\* Where the search goes on in array i, and whether it passes the array.
At(arrays, first, t, left, i) == SearchIndex(arrays, i, first, t, TickSpacing, left)

Passes(arrays, initialized, first, t, left, i) ==
    /\ in_search_range(arrays[i], At(arrays, first, t, left, i), TickSpacing, ~left)
    /\ SlotsAhead(arrays[i], initialized, At(arrays, first, t, left, i), TickSpacing, left) = {}
    /\ ~IsEdge(arrays, i, TickSpacing, left)

LEMMA ReachesArray ==
    ASSUME NEW arrays \in Seq(Starts), NEW initialized \in SUBSET Usable, NEW t \in Int,
           NEW left \in BOOLEAN, NEW first \in Nat \ {0}, NEW i \in first..Len(arrays),
           Reached(initialized, t, left, t),
           \A j \in first..i - 1 : Passes(arrays, initialized, first, t, left, j)
    PROVE  Reached(initialized, t, left, At(arrays, first, t, left, i))
  <1> DEFINE G(j) == Reached(initialized, t, left, At(arrays, first, t, left, j))
             T == {j \in first..i : ~G(j)}
  <1>1. Len(arrays) \in Nat /\ \A j \in 1..Len(arrays) : arrays[j] \in Starts
    BY LenProperties, ElementOfSeq
  <1>2. G(first)
    BY DEF At, SearchIndex
  <1>3. ASSUME NEW j \in first + 1..i, G(j - 1) PROVE G(j)
    <2>1. j - 1 \in first..i - 1 /\ j - 1 \in 1..Len(arrays) /\ j # first /\ j - 1 # Len(arrays)
      BY <1>1
    <2>2. Passes(arrays, initialized, first, t, left, j - 1)
      BY <2>1
    <2>3. arrays[j - 1] \in Int /\ OnGrid(arrays[j - 1])
      BY <1>1, <2>1, StartOnGrid
    <2>4. At(arrays, first, t, left, j) = IF left THEN arrays[j - 1] - 1 ELSE arrays[j - 1] + K - 1
      BY <2>1 DEF At, SearchIndex, K
    <2> DEFINE x == At(arrays, first, t, left, j - 1)
               start == arrays[j - 1]
    <2>5. /\ in_search_range(start, x, TickSpacing, ~left)
          /\ SlotsAhead(start, initialized, x, TickSpacing, left) = {}
          /\ left => ~is_min_tick_array(start)
          /\ ~left => ~is_max_tick_array(start, TickSpacing)
      BY <2>2 DEF Passes, IsEdge
    <2>6. Reached(initialized, t, left, x)
      BY <1>3
    <2> HIDE DEF x, start, G
    <2>7. Reached(initialized, t, left, IF left THEN start - 1 ELSE start + K - 1)
      <3>1. start \in Int /\ OnGrid(start)
        BY <2>3 DEF start
      <3> QED BY <2>5, <2>6, <3>1, ReachesNext
    <2> QED BY <2>4, <2>7 DEF G, start
  <1>4. T = {}
    <2> SUFFICES ASSUME T # {} PROVE FALSE
      OBVIOUS
    <2>1. T \subseteq Nat
      OBVIOUS
    <2> DEFINE m == Min(T)
    <2>2. m \in T /\ \A j \in T : m <= j
      BY <2>1, LeastOne
    <2> HIDE DEF m
    <2>3. m \in first..i /\ ~G(m)
      BY <2>2
    <2>4. m # first
      BY <1>2, <2>3
    <2> HIDE DEF G
    <2>5. m \in first + 1..i /\ m - 1 \in first..i
      BY <2>3, <2>4
    <2>6. G(m - 1)
      <3>1. m - 1 \notin T
        BY <2>2, <2>5
      <3> QED BY <2>5, <3>1
    <2> QED BY <1>3, <2>3, <2>5, <2>6
  <1>5. i \in first..i
    OBVIOUS
  <1> QED BY <1>4, <1>5

\* The tick at which an array without a slot ahead is left.
LEMMA EdgeSound ==
    ASSUME NEW start \in Int, NEW y \in Int, NEW left \in BOOLEAN,
           in_search_range(start, y, TickSpacing, ~left),
           IF left THEN MIN_TICK_INDEX <= y ELSE y < MAX_TICK_INDEX
    PROVE  LET f == EdgeTick(start, TickSpacing, left)
           IN  /\ f \in Int
               /\ left => start <= f /\ f <= y /\ MIN_TICK_INDEX <= f
               /\ ~left => y < f /\ f < start + K /\ f <= MAX_TICK_INDEX
  <1> USE TickIndexAssumption, SpacingAssumption
  <1>1. K \in Int /\ TicksInArray(TickSpacing) = K /\ TickSpacing \in Int /\ TickSpacing >= 1
    BY SizeOfArray DEF K
  <1> DEFINE f == EdgeTick(start, TickSpacing, left)
  <1>2. CASE left
    <2>1. start <= y /\ MIN_TICK_INDEX <= y
      BY <1>1, <1>2 DEF in_search_range
    <2>2. f = IF start <= MIN_TICK_INDEX THEN MIN_TICK_INDEX ELSE start
      BY <1>2 DEF EdgeTick, is_min_tick_array
    <2> HIDE DEF f
    <2>3. f \in Int /\ start <= f /\ f <= y /\ MIN_TICK_INDEX <= f
      BY <2>1, <2>2
    <2> QED BY <1>2, <2>3, Zenon DEF f
  <1>3. CASE ~left
    <2>1. y < start + K - TickSpacing /\ y < MAX_TICK_INDEX
      BY <1>1, <1>3 DEF in_search_range
    <2>2. f = IF start + K > MAX_TICK_INDEX THEN MAX_TICK_INDEX ELSE start + K - 1
      BY <1>1, <1>3 DEF EdgeTick, is_max_tick_array
    <2> HIDE DEF f
    <2>3. f \in Int /\ y < f /\ f < start + K /\ f <= MAX_TICK_INDEX
      BY <1>1, <2>1, <2>2
    <2> QED BY <1>3, <2>3, Zenon DEF f
  <1> QED BY <1>2, <1>3

\* What a search that succeeds returns: the nearest initialised tick ahead, or
\* one before it, in an array that holds it if it is initialised.
Sound(r, arrays, initialized, t, left, first) ==
    /\ r.array_index \in first..Len(arrays)
    /\ r.tick_index \in Int
    /\ IF left THEN MIN_TICK_INDEX <= r.tick_index /\ r.tick_index <= t
               ELSE t < r.tick_index /\ r.tick_index <= MAX_TICK_INDEX
    /\ \A u \in initialized : IF left THEN u <= t => u <= r.tick_index ELSE t < u => r.tick_index <= u
    /\ r.tick_index \in initialized => has_tick(arrays[r.array_index], r.tick_index, TickSpacing)

LEMMA SearchSound ==
    ASSUME NEW arrays \in Seq(Starts), NEW initialized \in SUBSET Usable, NEW t \in Int,
           NEW left \in BOOLEAN, NEW first \in Nat \ {0}, Reached(initialized, t, left, t), NEW r,
           r = get_next_initialized_tick_index(arrays, initialized, t, TickSpacing, left, first),
           ~r.error
    PROVE  Sound(r, arrays, initialized, t, left, first)
  <1> USE TickIndexAssumption, SpacingAssumption DEF Sound
  <1> DEFINE x(j) == At(arrays, first, t, left, j)
             searchable(j) == in_search_range(arrays[j], x(j), TickSpacing, ~left)
             ahead(j) == SlotsAhead(arrays[j], initialized, x(j), TickSpacing, left)
             stops == {j \in first..Len(arrays) :
                         ~searchable(j) \/ ahead(j) # {} \/ IsEdge(arrays, j, TickSpacing, left)}
             i == Min(stops)
             start == arrays[i]
  <1>1. r = IF first > Len(arrays) THEN SearchError
            ELSE IF ~searchable(i) THEN SearchError
            ELSE IF ahead(i) # {} THEN Found(i, Nearest(start, initialized, x(i), left))
            ELSE Found(i, EdgeTick(start, TickSpacing, left))
    BY DEF get_next_initialized_tick_index, At, Nearest
  <1>2. ~(first > Len(arrays)) /\ searchable(i)
    BY <1>1 DEF SearchError
  <1>3. Len(arrays) \in Nat /\ \A j \in 1..Len(arrays) : arrays[j] \in Starts
    BY LenProperties, ElementOfSeq
  <1>4. i \in stops /\ \A j \in stops : i <= j
    <2>1. Len(arrays) \in stops
      BY <1>2, <1>3 DEF IsEdge
    <2>2. stops \subseteq first..Len(arrays)
      OBVIOUS
    <2> HIDE DEF stops
    <2>3. stops \subseteq Nat /\ stops # {}
      BY <1>3, <2>1, <2>2
    <2> QED BY <2>3, LeastOne
  <1>5. i \in first..Len(arrays)
    BY <1>4
  <1>6. \A j \in first..i - 1 : Passes(arrays, initialized, first, t, left, j)
    <2> SUFFICES ASSUME NEW j \in first..i - 1 PROVE Passes(arrays, initialized, first, t, left, j)
      OBVIOUS
    <2>1. j \notin stops /\ j \in first..Len(arrays)
      <3> HIDE DEF stops, i
      <3> QED BY <1>3, <1>4, <1>5
    <2> QED BY <2>1 DEF Passes
  <1> HIDE DEF i
  <1>7. Reached(initialized, t, left, x(i))
    BY <1>5, <1>6, ReachesArray
  <1>8. start \in Int /\ OnGrid(start) /\ K \in Int /\ TicksInArray(TickSpacing) = K
    BY <1>3, <1>5, StartOnGrid, SizeOfArray DEF K
  <1> DEFINE y == x(i)
  <1>9. /\ y \in Int
        /\ IF left THEN MIN_TICK_INDEX <= y /\ y <= t ELSE t <= y /\ y < MAX_TICK_INDEX
        /\ \A u \in initialized : u \in Int /\ IF left THEN u <= t => u <= y ELSE t < u => y < u
    BY <1>7, UsableOnGrid DEF Reached
  <1>10. CASE ahead(i) # {}
    <2> DEFINE f == Nearest(start, initialized, y, left)
    <2>1. r = Found(i, f)
      BY <1>1, <1>2, <1>10
    <2>2. /\ f \in initialized /\ start <= f /\ f < start + K
          /\ IF left THEN f <= y ELSE y < f
          /\ \A u \in initialized : IF left THEN u <= y => u <= f ELSE y < u => f <= u
      BY <1>2, <1>8, <1>9, <1>10, ArrayFound
    <2>3. r.array_index = i /\ r.tick_index = f
      BY <2>1 DEF Found
    <2> HIDE DEF f, y
    <2>4. f \in Usable /\ f \in Int /\ MIN_TICK_INDEX <= f /\ f <= MAX_TICK_INDEX
      BY <2>2, UsableOnGrid
    <2>5. has_tick(start, f, TickSpacing)
      BY <1>8, <2>2, <2>4 DEF has_tick, in_search_range, Usable
    <2> QED BY <1>5, <1>9, <2>2, <2>3, <2>4, <2>5
  <1>11. CASE ahead(i) = {}
    <2> DEFINE f == EdgeTick(start, TickSpacing, left)
    <2>1. r = Found(i, f)
      BY <1>1, <1>2, <1>11
    <2>2. \A u \in initialized : IF left THEN u <= y => u < start ELSE y < u => start + K <= u
      BY <1>2, <1>8, <1>9, <1>11, ArrayPassed
    <2>3. r.array_index = i /\ r.tick_index = f
      BY <2>1 DEF Found
    <2>4. /\ f \in Int
          /\ left => start <= f /\ f <= y /\ MIN_TICK_INDEX <= f
          /\ ~left => y < f /\ f < start + K /\ f <= MAX_TICK_INDEX
      BY <1>2, <1>8, <1>9, EdgeSound
    <2> HIDE DEF y, f, start
    <2>5. f \notin initialized
      BY <1>8, <1>9, <2>2, <2>4
    <2>6. CASE left
      <3>1. f <= t /\ \A u \in initialized : u <= t => u <= f
        BY <1>8, <1>9, <2>2, <2>4, <2>6
      <3> QED BY <1>5, <2>3, <2>4, <2>5, <2>6, <3>1
    <2>7. CASE ~left
      <3>1. t < f /\ \A u \in initialized : t < u => f <= u
        BY <1>8, <1>9, <2>2, <2>4, <2>7
      <3> QED BY <1>5, <2>3, <2>4, <2>5, <2>7, <3>1
    <2> QED BY <2>6, <2>7
  <1> QED BY <1>10, <1>11

=============================================================================
