------------------------- MODULE SeaPeepholeProofs -------------------------
(* The types of SeaRange hold the values of the operations, for integers of *)
(* every width, and building, sharing and rewriting expressions keeps what  *)
(* they mean, for every program without remainders.                        *)
EXTENDS SeaPeephole, SequenceTheorems, TLAPS

IntTypes == {t \in [kind : {"int"}, min : Int64, max : Int64] : t.min <= t.max}

(* A sum that is in range does not wrap.                                   *)
LEMMA WrapInRange ==
  ASSUME NEW v \in Int64
  PROVE  Wrap(v) = v
<1> DEFINE d == v - MinInt
<1>1. d \in Nat /\ d < Size /\ Size \in Nat
  BY RangeAssumption DEF MinInt, Size, Int64
<1>2. d % Size = d
  BY <1>1
<1>3. MinInt \in Int /\ v \in Int
  BY RangeAssumption DEF MinInt, Int64
<1> QED
  BY <1>2, <1>3 DEF Wrap

(* Whatever wraps is an integer of the width.                              *)
LEMMA WrapType ==
  ASSUME NEW v \in Int
  PROVE  Wrap(v) \in Int64
<1> DEFINE d == v - MinInt
<1>1. d \in Int /\ Size \in Nat /\ Size > 0 /\ MinInt \in Int
  BY RangeAssumption DEF MinInt, Size
<1>2. d % Size \in 0 .. Size - 1
  BY <1>1
<1> QED
  BY <1>1, <1>2, RangeAssumption DEF Wrap, Int64, MinInt, Size

(* Integers: products, remainders and quotients.                           *)
LEMMA SizeIs ==
  /\ Size \in Nat /\ Size > 0 /\ Size = 2 * MaxInt + 2
  /\ MaxInt \in Nat /\ MaxInt > 0 /\ MinInt \in Int /\ MinInt = - MaxInt - 1
BY RangeAssumption DEF Size, MinInt

LEMMA TimesNat ==
  ASSUME NEW a \in Int, NEW b \in Int, a >= 0, b >= 0
  PROVE  a * b >= 0
OBVIOUS

LEMMA TimesLeft ==
  ASSUME NEW a \in Int, NEW b \in Int, NEW c \in Int, a <= b, c >= 0
  PROVE  a * c <= b * c
<1>2. (b - a) * c >= 0 BY TimesNat
<1>3. (b - a) * c = b * c - a * c OBVIOUS
<1> QED BY <1>2, <1>3

LEMMA TimesNegative ==
  ASSUME NEW a \in Int, NEW b \in Int, NEW c \in Int, a <= b, c <= 0
  PROVE  b * c <= a * c
<1>1. a * (- c) <= b * (- c) BY TimesLeft
<1>2. a * (- c) = - (a * c) /\ b * (- c) = - (b * c) OBVIOUS
<1> QED BY <1>1, <1>2

LEMMA NoMultiple ==
  ASSUME NEW e \in Int, NEW n \in Nat, e * n < n, - n < e * n
  PROVE  e = 0
<1>1. e >= 1 => 1 * n <= e * n BY TimesLeft
<1>2. e <= -1 => e * n <= (-1) * n BY TimesLeft
<1>3. (-1) * n = - n /\ 1 * n = n OBVIOUS
<1> QED BY <1>1, <1>2, <1>3

LEMMA ModSame ==
  ASSUME NEW u \in Int, NEW v \in Int, NEW k \in Int, NEW n \in Nat, n > 0, u = v + k * n
  PROVE  u % n = v % n
<1>1. PICK p \in Int : u = p * n + (u % n) /\ u % n \in 0 .. n - 1
  OBVIOUS
<1>2. PICK q \in Int : v = q * n + (v % n) /\ v % n \in 0 .. n - 1
  OBVIOUS
<1> DEFINE c == u % n
           d == v % n
           e == q + k - p
<1>3. e \in Int /\ c - d = e * n
  BY <1>1, <1>2
<1> HIDE DEF e
<1>4. e = 0 BY <1>1, <1>2, <1>3, NoMultiple
<1> QED BY <1>1, <1>2, <1>3, <1>4

LEMMA WrapSame ==
  ASSUME NEW u \in Int, NEW v \in Int, NEW k \in Int, u = v + k * Size
  PROVE  Wrap(u) = Wrap(v)
<1>1. u - MinInt = (v - MinInt) + k * Size BY SizeIs
<1>2. u - MinInt \in Int /\ v - MinInt \in Int BY SizeIs
<1>3. (u - MinInt) % Size = (v - MinInt) % Size
  <2>1. PICK i \in Int : i = u - MinInt BY <1>2
  <2>2. PICK j \in Int : j = v - MinInt BY <1>2
  <2>3. PICK n \in Nat : n = Size /\ n > 0 BY SizeIs
  <2>4. i = j + k * n BY <1>1, <2>1, <2>2, <2>3
  <2>5. i % n = j % n BY <2>3, <2>4, ModSame, SMTT(30)
  <2> QED BY <2>1, <2>2, <2>3, <2>5
<1> QED BY <1>3 DEF Wrap

LEMMA ModIs ==
  ASSUME NEW i \in Int, NEW n \in Nat, n > 0
  PROVE  \E p \in Int : i = p * n + (i % n) /\ i % n \in 0 .. n - 1
OBVIOUS

LEMMA WrapIs ==
  ASSUME NEW v \in Int
  PROVE  \E k \in Int : Wrap(v) = v + k * Size
<1> DEFINE w == v - MinInt
<1>0. w \in Int BY SizeIs
<1>1. PICK p \in Int : w = p * Size + (w % Size) /\ w % Size \in 0 .. Size - 1
  <2> HIDE DEF w
  <2> QED BY <1>0, SizeIs, ModIs
<1>2. Wrap(v) = v + (- p) * Size BY <1>1, SizeIs DEF Wrap
<1> QED BY <1>2

LEMMA SumWraps ==
  ASSUME NEW x \in Int, NEW y \in Int
  PROVE  Wrap(Wrap(x) + y) = Wrap(x + y) /\ Wrap(x + Wrap(y)) = Wrap(x + y)
<1>1. PICK k \in Int : Wrap(x) = x + k * Size BY WrapIs
<1>2. PICK m \in Int : Wrap(y) = y + m * Size BY WrapIs
<1>3. k * Size \in Int /\ m * Size \in Int BY SizeIs
<1>4. Wrap(x) + y = (x + y) + k * Size /\ x + Wrap(y) = (x + y) + m * Size
  BY <1>1, <1>2, <1>3
<1>5. Wrap(x) + y \in Int /\ x + Wrap(y) \in Int BY <1>1, <1>2, <1>3
<1> QED BY <1>4, <1>5, WrapSame

LEMMA ProductWraps ==
  ASSUME NEW x \in Int, NEW y \in Int
  PROVE  Wrap(Wrap(x) * y) = Wrap(x * y) /\ Wrap(x * Wrap(y)) = Wrap(x * y)
<1>1. PICK k \in Int : Wrap(x) = x + k * Size BY WrapIs
<1>2. PICK m \in Int : Wrap(y) = y + m * Size BY WrapIs
<1>3. ASSUME NEW s \in Int
      PROVE  /\ (x + k * s) * y = x * y + (k * y) * s
             /\ x * (y + m * s) = x * y + (x * m) * s
  <2>1. (x + k * s) * y = x * y + (k * s) * y OBVIOUS
  <2>2. x * (y + m * s) = x * y + x * (m * s) OBVIOUS
  <2>3. (k * s) * y = (k * y) * s OBVIOUS
  <2>4. x * (m * s) = (x * m) * s OBVIOUS
  <2> QED BY <2>1, <2>2, <2>3, <2>4
<1>4. Wrap(x) * y = x * y + (k * y) * Size /\ x * Wrap(y) = x * y + (x * m) * Size
  BY <1>1, <1>2, <1>3, SizeIs
<1>5. Wrap(x) \in Int /\ Wrap(y) \in Int BY WrapType, SizeIs DEF Int64
<1>6. /\ Wrap(x) * y \in Int /\ x * Wrap(y) \in Int /\ x * y \in Int
      /\ k * y \in Int /\ x * m \in Int
  BY <1>5
<1>7. Wrap(Wrap(x) * y) = Wrap(x * y) BY <1>4, <1>6, WrapSame
<1>8. Wrap(x * Wrap(y)) = Wrap(x * y) BY <1>4, <1>6, WrapSame
<1> QED BY <1>7, <1>8

(* Sums and products may be regrouped, also where they overflow.           *)
LEMMA Regrouped ==
  ASSUME NEW op \in {"AddI", "MulI"}, NEW x \in Int64, NEW y \in Int64, NEW z \in Int64
  PROVE  /\ Apply(op, Apply(op, x, y), z) = Apply(op, x, Apply(op, y, z))
         /\ Apply(op, x, y) = Apply(op, y, x)
         /\ Apply(op, x, y) \in Int64
<1>1. x \in Int /\ y \in Int /\ z \in Int BY SizeIs DEF Int64
<1>2. CASE op = "AddI"
  <2>1. \A i, j : Apply(op, i, j) = Wrap(i + j) BY <1>2 DEF Apply
  <2>2. Wrap(Wrap(x + y) + z) = Wrap((x + y) + z) /\ Wrap(x + Wrap(y + z)) = Wrap(x + (y + z))
    BY <1>1, SumWraps
  <2>3. (x + y) + z = x + (y + z) /\ x + y = y + x BY <1>1
  <2> QED BY <1>1, <2>1, <2>2, <2>3, WrapType
<1>3. CASE op = "MulI"
  <2>1. \A i, j : Apply(op, i, j) = Wrap(i * j) BY <1>3 DEF Apply
  <2>2. Wrap(Wrap(x * y) * z) = Wrap((x * y) * z) /\ Wrap(x * Wrap(y * z)) = Wrap(x * (y * z))
    BY <1>1, ProductWraps
  <2>3. (x * y) * z = x * (y * z) /\ x * y = y * x BY <1>1
  <2> QED BY <1>1, <2>1, <2>2, <2>3, WrapType
<1> QED BY <1>2, <1>3

LEMMA Doubled ==
  ASSUME NEW x \in Int64
  PROVE  Apply("AddI", x, x) = Apply("MulI", x, 2)
<1>1. x \in Int BY SizeIs DEF Int64
<1>2. x + x = x * 2 BY <1>1
<1> QED BY <1>2 DEF Apply

(* Division.                                                               *)
LEMMA DivIs ==
  ASSUME NEW a \in Nat, NEW b \in Nat, b > 0
  PROVE  a \div b \in Nat /\ b * (a \div b) <= a /\ a < b * (a \div b) + b
OBVIOUS

LEMMA DivGrows ==
  ASSUME NEW a \in Nat, NEW c \in Nat, NEW b \in Nat, b > 0, a <= c
  PROVE  a \div b <= c \div b
<1> DEFINE p == a \div b
           q == c \div b
<1>1. p \in Nat /\ q \in Nat /\ b * p <= a /\ c < b * q + b BY DivIs
<1> HIDE DEF p, q
<1>2. SUFFICES ASSUME p >= q + 1 PROVE FALSE BY <1>1 DEF p, q
<1>3. (q + 1) * b <= p * b BY <1>1, <1>2, TimesLeft
<1>4. (q + 1) * b = b * q + b /\ p * b = b * p BY <1>1
<1>5. b * q \in Nat /\ b * p \in Nat BY <1>1
<1> QED BY <1>1, <1>3, <1>4, <1>5

LEMMA DivShrinks ==
  ASSUME NEW a \in Nat, NEW c \in Nat, NEW b \in Nat, b > 0, b <= c
  PROVE  a \div c <= a \div b
<1> DEFINE p == a \div c
           q == a \div b
<1>1. p \in Nat /\ q \in Nat /\ c * p <= a /\ a < b * q + b BY DivIs
<1> HIDE DEF p, q
<1>2. SUFFICES ASSUME p >= q + 1 PROVE FALSE BY <1>1 DEF p, q
<1>3. (q + 1) * b <= p * b BY <1>1, <1>2, TimesLeft
<1>4. b * p <= c * p BY <1>1, TimesLeft
<1>5. (q + 1) * b = b * q + b /\ p * b = b * p BY <1>1
<1>6. b * q \in Nat /\ b * p \in Nat /\ c * p \in Nat BY <1>1
<1> QED BY <1>1, <1>3, <1>4, <1>5, <1>6


LEMMA QuotIs ==
  ASSUME NEW x \in Int, NEW b \in Nat, b > 0
  PROVE  /\ x >= 0 => Quot(x, b) = x \div b
         /\ x < 0 => Quot(x, b) = - ((- x) \div b)
         /\ Quot(x, - b) = - Quot(x, b)
         /\ Quot(x, b) \in Int
<1>1. CASE x >= 0
  <2>1. ~ (x < 0) /\ ~ (b < 0) /\ - b < 0 /\ - (- b) = b BY <1>1
  <2>2. x \div b \in Nat BY <1>1, DivIs
  <2> QED BY <1>1, <2>1, <2>2 DEF Quot, Abs
<1>2. CASE x < 0
  <2>1. ~ (b < 0) /\ - b < 0 /\ - (- b) = b OBVIOUS
  <2>2. - x \in Nat BY <1>2
  <2>3. (- x) \div b \in Nat BY <2>2, DivIs
  <2>4. - (- ((- x) \div b)) = (- x) \div b BY <2>3
  <2> QED BY <1>2, <2>1, <2>3, <2>4 DEF Quot, Abs
<1> QED BY <1>1, <1>2

LEMMA QuotGrows ==
  ASSUME NEW x \in Int, NEW z \in Int, NEW b \in Nat, b > 0, x <= z
  PROVE  Quot(x, b) <= Quot(z, b)
<1>1. CASE x >= 0
  <2>1. x \in Nat /\ z \in Nat /\ z >= 0 BY <1>1
  <2>2. x \div b <= z \div b BY <2>1, DivGrows
  <2>3. Quot(x, b) = x \div b /\ Quot(z, b) = z \div b BY <1>1, <2>1, QuotIs
  <2> QED BY <2>2, <2>3
<1>2. CASE z < 0
  <2>1. - x \in Nat /\ - z \in Nat /\ - z <= - x BY <1>2
  <2>2. (- z) \div b <= (- x) \div b BY <2>1, DivGrows
  <2>3. (- z) \div b \in Nat /\ (- x) \div b \in Nat BY <2>1, DivIs
  <2>4. Quot(x, b) = - ((- x) \div b) /\ Quot(z, b) = - ((- z) \div b) BY <1>2, QuotIs
  <2> QED BY <2>2, <2>3, <2>4
<1>3. CASE x < 0 /\ z >= 0
  <2>1. - x \in Nat /\ z \in Nat BY <1>3
  <2>2. (- x) \div b \in Nat /\ z \div b \in Nat BY <2>1, DivIs
  <2>3. Quot(x, b) = - ((- x) \div b) /\ Quot(z, b) = z \div b BY <1>3, QuotIs
  <2> QED BY <2>2, <2>3
<1> QED BY <1>1, <1>2, <1>3

LEMMA QuotShrinks ==
  ASSUME NEW x \in Int, NEW b \in Nat, NEW c \in Nat, b > 0, b <= c
  PROVE  /\ x >= 0 => Quot(x, c) <= Quot(x, b)
         /\ x < 0 => Quot(x, b) <= Quot(x, c)
<1>1. CASE x >= 0
  <2>1. x \in Nat /\ c > 0 BY <1>1
  <2> QED BY <1>1, <2>1, QuotIs, DivShrinks
<1>2. CASE x < 0
  <2>1. - x \in Nat /\ c > 0 BY <1>2
  <2>2. (- x) \div c <= (- x) \div b BY <2>1, DivShrinks
  <2>3. (- x) \div c \in Nat /\ (- x) \div b \in Nat BY <2>1, DivIs
  <2>4. Quot(x, b) = - ((- x) \div b) /\ Quot(x, c) = - ((- x) \div c) BY <1>2, <2>1, QuotIs
  <2> QED BY <1>2, <2>2, <2>3, <2>4
<1> QED BY <1>1, <1>2

(* What is left by a quotient is smaller than the divisor.                 *)
LEMMA QuotLeaves ==
  ASSUME NEW x \in Int, NEW b \in Nat, b > 0
  PROVE  x - b * Quot(x, b) < b /\ - b < x - b * Quot(x, b)
<1>1. CASE x >= 0
  <2>1. x \in Nat BY <1>1
  <2>2. PICK q \in Nat : q = x \div b /\ b * q <= x /\ x < b * q + b BY <2>1, DivIs
  <2>3. Quot(x, b) = q BY <1>1, <2>2, QuotIs
  <2>4. b * q \in Int BY <2>2
  <2> QED BY <2>2, <2>3, <2>4
<1>2. CASE x < 0
  <2>1. - x \in Nat BY <1>2
  <2>2. PICK q \in Nat : q = (- x) \div b /\ b * q <= - x /\ - x < b * q + b BY <2>1, DivIs
  <2>3. Quot(x, b) = - q BY <1>2, <2>2, QuotIs
  <2>4. b * (- q) = - (b * q) BY <2>2
  <2> QED BY <2>2, <2>3, <2>4
<1> QED BY <1>1, <1>2

LEMMA QuotOnes ==
  ASSUME NEW x \in Int
  PROVE  Quot(x, 1) = x /\ (x # 0 => Quot(x, x) = 1)
<1>1. \A a \in Nat : a \div 1 = a /\ (a > 0 => a \div a = 1) OBVIOUS
<1>2. CASE x >= 0 BY <1>1, <1>2 DEF Quot, Abs
<1>3. CASE x < 0
  <2>1. - x \in Nat /\ - x > 0 /\ - (- x) = x BY <1>3
  <2>2. ~ (1 < 0) OBVIOUS
  <2> QED BY <1>1, <1>3, <2>1, <2>2 DEF Quot, Abs
<1> QED BY <1>2, <1>3

LEMMA QuotType ==
  ASSUME NEW x \in Int64, NEW y \in Int64, Divides(x, y)
  PROVE  Quot(x, y) \in Int64
<1>1. x \in Int /\ y \in Int /\ y # 0 /\ MinInt <= x /\ x <= MaxInt BY SizeIs DEF Int64, Divides
<1>2. ASSUME NEW b \in Nat, b > 0
      PROVE  /\ x >= 0 => 0 <= Quot(x, b) /\ Quot(x, b) <= x
             /\ x < 0 => x <= Quot(x, b) /\ Quot(x, b) <= 0
             /\ b >= 2 /\ x < 0 => x < Quot(x, b)
  <2>1. CASE x >= 0
    <3>1. x \in Nat BY <1>1, <2>1
    <3>2. PICK q \in Nat : q = x \div b /\ b * q <= x BY <1>2, <3>1, DivIs
    <3>3. 1 * q <= b * q BY <1>2, <3>2, TimesLeft
    <3>4. 1 * q = q /\ b * q \in Int BY <3>2
    <3>5. Quot(x, b) = q BY <1>1, <1>2, <2>1, <3>2, QuotIs
    <3> QED BY <1>1, <2>1, <3>2, <3>3, <3>4, <3>5
  <2>2. CASE x < 0
    <3>1. - x \in Nat BY <1>1, <2>2
    <3>2. PICK q \in Nat : q = (- x) \div b /\ b * q <= - x BY <1>2, <3>1, DivIs
    <3>3. 1 * q <= b * q BY <1>2, <3>2, TimesLeft
    <3>4. 1 * q = q /\ b * q \in Int BY <3>2
    <3>5. Quot(x, b) = - q BY <1>1, <1>2, <2>2, <3>2, QuotIs
    <3>6. b >= 2 => 2 * q <= b * q BY <1>2, <3>2, TimesLeft
    <3> QED BY <1>1, <2>2, <3>2, <3>3, <3>4, <3>5, <3>6
  <2> QED BY <1>1, <2>1, <2>2
<1>3. CASE y > 0
  <2>1. y \in Nat BY <1>1, <1>3
  <2>2. Quot(x, y) \in Int BY <1>1, <1>3, <2>1, QuotIs
  <2> QED BY <1>1, <1>2, <1>3, <2>1, <2>2, SizeIs DEF Int64
<1>4. CASE y < 0
  <2>1. PICK b \in Nat : b = - y /\ b > 0 /\ y = - b BY <1>1, <1>4
  <2>2. Quot(x, b) \in Int /\ Quot(x, y) = - Quot(x, b) BY <1>1, <2>1, QuotIs
  <2>3. x = MinInt => b >= 2 BY <1>1, <2>1 DEF Divides
  <2>4. PICK q \in Int : q = Quot(x, b) BY <2>2
  <2>5. /\ x >= 0 => 0 <= q /\ q <= x
        /\ x < 0 => x <= q /\ q <= 0
        /\ b >= 2 /\ x < 0 => x < q
    BY <1>2, <2>1, <2>4
  <2>6. - q \in MinInt .. MaxInt BY <1>1, <2>3, <2>5, SizeIs
  <2> QED BY <2>2, <2>4, <2>6 DEF Int64
<1> QED BY <1>1, <1>3, <1>4

(* A type from corners holds what lies between two of them.                *)
LEMMA HullHolds ==
  ASSUME NEW a \in Int64, NEW b \in Int64, NEW c \in Int64, NEW d \in Int64,
         NEW S, S = {a, b, c, d}
  PROVE  /\ Hull(S) \in IntTypes
         /\ \A v \in Int, p, q \in S : p <= v /\ v <= q => Has(Hull(S), v)
<1>1. a \in Int /\ b \in Int /\ c \in Int /\ d \in Int BY SizeIs DEF Int64
<1>2. \E x \in S : \A y \in S : x <= y BY <1>1
<1>3. \E x \in S : \A y \in S : x >= y BY <1>1
<1>4. Min(S) \in S /\ \A y \in S : Min(S) <= y
  <2>1. Min(S) = CHOOSE x \in S : \A y \in S : x <= y BY DEF Min
  <2> QED BY <1>2, <2>1, Zenon
<1>5. Max(S) \in S /\ \A y \in S : Max(S) >= y
  <2>1. Max(S) = CHOOSE x \in S : \A y \in S : x >= y BY DEF Max
  <2> QED BY <1>3, <2>1, Zenon
<1>6. PICK p \in Int64 : p = Min(S) BY <1>4
<1>7. PICK q \in Int64 : q = Max(S) BY <1>5
<1>8. p <= q BY <1>4, <1>5, <1>6, <1>7
<1>9. Hull(S) = [kind |-> "int", min |-> p, max |-> q] BY <1>6, <1>7 DEF Hull, IntType
<1>10. p \in Int /\ q \in Int /\ S \subseteq Int BY <1>1, <1>6, <1>7, SizeIs DEF Int64
<1>11. Hull(S) \in IntTypes BY <1>8, <1>9 DEF IntTypes
<1>12. ASSUME NEW v \in Int, NEW i \in S, NEW j \in S, i <= v, v <= j PROVE Has(Hull(S), v)
  <2>1. p <= i /\ j <= q BY <1>4, <1>5, <1>6, <1>7
  <2>2. i \in Int /\ j \in Int BY <1>10
  <2>3. p <= v /\ v <= q BY <1>10, <1>12, <2>1, <2>2
  <2> QED BY <1>9, <2>3 DEF Has
<1> QED BY <1>11, <1>12

QuotCorners(s, t) == {Quot(x, y) : x \in Ends(s), y \in Ends(t)}

LEMMA CornersOfDiv ==
  ASSUME NEW s, NEW t
  PROVE  /\ DivType(s, t) = IF t.min <= 0 /\ t.max >= 0 THEN S64 ELSE Hull(QuotCorners(s, t))
         /\ QuotCorners(s, t) = {Quot(s.min, t.min), Quot(s.min, t.max), Quot(s.max, t.min), Quot(s.max, t.max)}
<1>1. \A q : q \in QuotCorners(s, t) <=> \E i \in {s.min, s.max}, j \in {t.min, t.max} : q = Quot(i, j)
  BY DEF QuotCorners, Ends
<1>2. \A q : q \in QuotCorners(s, t)
             <=> q \in {Quot(s.min, t.min), Quot(s.min, t.max), Quot(s.max, t.min), Quot(s.max, t.max)}
  BY <1>1
<1>3. DivType(s, t) = IF t.min <= 0 /\ t.max >= 0 THEN S64 ELSE Hull(QuotCorners(s, t))
  BY DEF DivType, QuotCorners
<1>4. QuotCorners(s, t) = {Quot(s.min, t.min), Quot(s.min, t.max), Quot(s.max, t.min), Quot(s.max, t.max)}
  BY <1>2
<1> QED BY <1>3, <1>4

LEMMA DivSound ==
  ASSUME NEW s \in IntTypes, NEW t \in IntTypes, ~ BinTraps("DivI", s, t),
         NEW x \in Int64, NEW y \in Int64, Has(s, x), Has(t, y), Divides(x, y)
  PROVE  DivType(s, t) \in IntTypes /\ Has(DivType(s, t), Quot(x, y))
<1>1. /\ s.min \in Int /\ s.max \in Int /\ t.min \in Int /\ t.max \in Int /\ x \in Int /\ y \in Int
      /\ s.min <= x /\ x <= s.max /\ t.min <= y /\ y <= t.max
      /\ s.min \in Int64 /\ s.max \in Int64 /\ t.min \in Int64 /\ t.max \in Int64
      /\ s.kind = "int" /\ t.kind = "int"
  BY SizeIs DEF IntTypes, Has, Int64
<1>2. CASE t.min <= 0 /\ t.max >= 0
  <2>1. DivType(s, t) = S64 BY <1>2 DEF DivType
  <2>2. Quot(x, y) \in Int64 BY QuotType
  <2> QED BY <2>1, <2>2, SizeIs DEF S64, IntType, IntTypes, Has, Int64
<1>3. CASE ~ (t.min <= 0 /\ t.max >= 0)
  <2>1. \A i \in Ends(s), j \in Ends(t) : Divides(i, j) BY <1>1, <1>3 DEF BinTraps
  <2>2. PICK a : a = Quot(s.min, t.min) OBVIOUS
  <2>3. PICK b : b = Quot(s.min, t.max) OBVIOUS
  <2>4. PICK c : c = Quot(s.max, t.min) OBVIOUS
  <2>5. PICK d : d = Quot(s.max, t.max) OBVIOUS
  <2>6. a \in Int64 /\ b \in Int64 /\ c \in Int64 /\ d \in Int64
    <3>1. s.min \in Ends(s) /\ s.max \in Ends(s) /\ t.min \in Ends(t) /\ t.max \in Ends(t) BY DEF Ends
    <3> QED BY <1>1, <2>1, <2>2, <2>3, <2>4, <2>5, <3>1, QuotType
  <2>7. PICK S : S = {a, b, c, d} OBVIOUS
  <2>8. DivType(s, t) = Hull(S)
    <3>1. DivType(s, t) = Hull(QuotCorners(s, t)) BY <1>3, CornersOfDiv
    <3>2. QuotCorners(s, t) = S BY <2>2, <2>3, <2>4, <2>5, <2>7, CornersOfDiv
    <3> QED BY <3>1, <3>2
  <2>9. PICK v \in Int : v = Quot(x, y)
    <3>1. Quot(x, y) \in Int64 BY QuotType
    <3> QED BY <3>1, SizeIs DEF Int64
  <2>10. a \in Int /\ b \in Int /\ c \in Int /\ d \in Int BY <2>6, SizeIs DEF Int64
  <2>11. (\E p \in S : p <= v) /\ (\E q \in S : v <= q)
    <3>1. CASE t.min > 0
      <4>1. t.min \in Nat /\ y \in Nat /\ t.max \in Nat /\ y > 0 /\ t.max > 0 BY <1>1, <3>1
      <4>2. PICK e \in Int : e = Quot(s.min, y) BY <1>1, <4>1, QuotIs
      <4>3. PICK f \in Int : f = Quot(s.max, y) BY <1>1, <4>1, QuotIs
      <4>4. e <= v /\ v <= f BY <1>1, <2>9, <4>1, <4>2, <4>3, QuotGrows
      <4>5. (s.min >= 0 => b <= e) /\ (s.min < 0 => a <= e)
        BY <1>1, <2>2, <2>3, <3>1, <4>1, <4>2, QuotShrinks
      <4>6. (s.max >= 0 => f <= c) /\ (s.max < 0 => f <= d)
        BY <1>1, <2>4, <2>5, <3>1, <4>1, <4>3, QuotShrinks
      <4> QED BY <1>1, <2>7, <2>10, <4>4, <4>5, <4>6
    <3>2. CASE t.max < 0
      <4>1. PICK k \in Nat : k = - y /\ k > 0 /\ y = - k BY <1>1, <3>2
      <4>2. PICK g \in Nat : g = - t.min /\ g > 0 /\ t.min = - g BY <1>1, <3>2
      <4>3. PICK h \in Nat : h = - t.max /\ h > 0 /\ t.max = - h BY <1>1, <3>2
      <4>4. h <= k /\ k <= g BY <1>1, <4>1, <4>2, <4>3
      <4>5. /\ a = - Quot(s.min, g) /\ b = - Quot(s.min, h) /\ c = - Quot(s.max, g) /\ d = - Quot(s.max, h)
            /\ v = - Quot(x, k)
        <5>1. a = - Quot(s.min, g)
          <6>1. Quot(s.min, - g) = - Quot(s.min, g) BY <1>1, <4>2, QuotIs
          <6>2. a = Quot(s.min, - g) BY <2>2, <4>2, Zenon
          <6> QED BY <6>1, <6>2
        <5>2. b = - Quot(s.min, h)
          <6>1. Quot(s.min, - h) = - Quot(s.min, h) BY <1>1, <4>3, QuotIs
          <6>2. b = Quot(s.min, - h) BY <2>3, <4>3, Zenon
          <6> QED BY <6>1, <6>2
        <5>3. c = - Quot(s.max, g)
          <6>1. Quot(s.max, - g) = - Quot(s.max, g) BY <1>1, <4>2, QuotIs
          <6>2. c = Quot(s.max, - g) BY <2>4, <4>2, Zenon
          <6> QED BY <6>1, <6>2
        <5>4. d = - Quot(s.max, h)
          <6>1. Quot(s.max, - h) = - Quot(s.max, h) BY <1>1, <4>3, QuotIs
          <6>2. d = Quot(s.max, - h) BY <2>5, <4>3, Zenon
          <6> QED BY <6>1, <6>2
        <5>5. v = - Quot(x, k) BY <1>1, <2>9, <4>1, QuotIs
        <5> QED BY <5>1, <5>2, <5>3, <5>4, <5>5
      <4>6. PICK e \in Int : e = Quot(s.min, k) BY <1>1, <4>1, QuotIs
      <4>7. PICK f \in Int : f = Quot(s.max, k) BY <1>1, <4>1, QuotIs
      <4>8. PICK w \in Int : w = Quot(x, k) BY <1>1, <4>1, QuotIs
      <4>9. e <= w /\ w <= f BY <1>1, <4>1, <4>6, <4>7, <4>8, QuotGrows
      <4>10. PICK ag \in Int : ag = Quot(s.min, g) BY <1>1, <4>2, QuotIs
      <4>11. PICK bh \in Int : bh = Quot(s.min, h) BY <1>1, <4>3, QuotIs
      <4>12. PICK cg \in Int : cg = Quot(s.max, g) BY <1>1, <4>2, QuotIs
      <4>13. PICK dh \in Int : dh = Quot(s.max, h) BY <1>1, <4>3, QuotIs
      <4>14. (s.min >= 0 => ag <= e) /\ (s.min < 0 => bh <= e)
        BY <1>1, <4>1, <4>2, <4>3, <4>4, <4>6, <4>10, <4>11, QuotShrinks
      <4>15. (s.max >= 0 => f <= dh) /\ (s.max < 0 => f <= cg)
        BY <1>1, <4>1, <4>2, <4>3, <4>4, <4>7, <4>12, <4>13, QuotShrinks
      <4>16. a = - ag /\ b = - bh /\ c = - cg /\ d = - dh /\ v = - w
        BY <4>5, <4>8, <4>10, <4>11, <4>12, <4>13
      <4>17. (s.min >= 0 => v <= a) /\ (s.min < 0 => v <= b) /\ (s.max >= 0 => d <= v) /\ (s.max < 0 => c <= v)
        BY <4>9, <4>14, <4>15, <4>16
      <4> QED BY <1>1, <2>7, <2>10, <4>17
    <3> QED BY <1>1, <1>3, <3>1, <3>2
  <2> QED BY <2>6, <2>7, <2>8, <2>9, <2>11, HullHolds
<1> QED BY <1>2, <1>3
(* The check of a corner by dividing it again finds every overflow.        *)
LEMMA CornerTrue ==
  ASSUME NEW x \in Int64, NEW y \in Int64,
         y # 0 => Divides(Wrap(x * y), y) /\ Quot(Wrap(x * y), y) = x
  PROVE  Wrap(x * y) = x * y
<1>1. x \in Int /\ y \in Int /\ MinInt <= y /\ y <= MaxInt BY SizeIs DEF Int64
<1>2. CASE y = 0
  <2>1. x * y = 0 BY <1>1, <1>2
  <2>2. 0 \in Int64 BY SizeIs DEF Int64
  <2> QED BY <2>1, <2>2, WrapInRange
<1>3. CASE y # 0
  <2>1. PICK p \in Int : p = x * y BY <1>1
  <2>2. PICK k \in Int : Wrap(p) = p + k * Size BY WrapIs
  <2>3. PICK w \in Int : w = Wrap(p) BY <2>2, SizeIs
  <2>4. Quot(w, y) = x BY <1>3, <2>1, <2>3
  <2>5. PICK e \in Int : e = k * Size BY SizeIs
  <2>6. w = p + e BY <2>2, <2>3, <2>5
  <2>7. e < Size /\ - Size < e
    <3>1. CASE y > 0
      <4>1. y \in Nat BY <1>1, <3>1
      <4>2. w - y * x < y /\ - y < w - y * x BY <2>4, <3>1, <4>1, QuotLeaves
      <4>3. y * x = p BY <1>1, <2>1
      <4> QED BY <1>1, <2>6, <4>2, <4>3, SizeIs
    <3>2. CASE y < 0
      <4>1. PICK b \in Nat : b = - y /\ b > 0 /\ y = - b BY <1>1, <3>2
      <4>2. PICK q \in Int : q = Quot(w, b) /\ Quot(w, - b) = - q BY <4>1, QuotIs
      <4>3. w - b * q < b /\ - b < w - b * q BY <4>1, <4>2, QuotLeaves
      <4>4. - q = x BY <2>4, <4>1, <4>2
      <4>5. q = - x BY <1>1, <4>4
      <4>6. b * q = p BY <1>1, <2>1, <4>1, <4>5
      <4> QED BY <1>1, <2>6, <4>1, <4>3, <4>6, SizeIs
    <3> QED BY <1>1, <1>3, <3>1, <3>2
  <2>8. k = 0
    <3>1. PICK n \in Nat : n = Size BY SizeIs
    <3>2. k * n < n /\ - n < k * n BY <2>5, <2>7, <3>1
    <3> QED BY <3>2, NoMultiple
  <2>9. e = 0 BY <2>5, <2>8, SizeIs
  <2> QED BY <2>1, <2>3, <2>6, <2>9
<1> QED BY <1>2, <1>3

MulCorners(s, t) == {Wrap(x * y) : x \in Ends(s), y \in Ends(t)}

LEMMA CornersOfMul ==
  ASSUME NEW s, NEW t
  PROVE  /\ MulType(s, t) = IF \E x \in Ends(s), y \in Ends(t) : y # 0 /\ Quot(Wrap(x * y), y) # x
                            THEN S64 ELSE Hull(MulCorners(s, t))
         /\ MulCorners(s, t) = {Wrap(s.min * t.min), Wrap(s.min * t.max), Wrap(s.max * t.min), Wrap(s.max * t.max)}
<1>1. \A q : q \in MulCorners(s, t) <=> \E i \in {s.min, s.max}, j \in {t.min, t.max} : q = Wrap(i * j)
  BY DEF MulCorners, Ends
<1>2. \A q : q \in MulCorners(s, t)
             <=> q \in {Wrap(s.min * t.min), Wrap(s.min * t.max), Wrap(s.max * t.min), Wrap(s.max * t.max)}
  BY <1>1
<1>3. MulType(s, t) = IF \E x \in Ends(s), y \in Ends(t) : y # 0 /\ Quot(Wrap(x * y), y) # x
                      THEN S64 ELSE Hull(MulCorners(s, t))
  BY DEF MulType, MulCorners
<1>4. MulCorners(s, t) = {Wrap(s.min * t.min), Wrap(s.min * t.max), Wrap(s.max * t.min), Wrap(s.max * t.max)}
  BY <1>2
<1> QED BY <1>3, <1>4

(* A product lies between the products of the ends.                        *)
LEMMA ProductBetween ==
  ASSUME NEW x \in Int, NEW lo \in Int, NEW hi \in Int, NEW y \in Int, lo <= x, x <= hi
  PROVE  \/ lo * y <= x * y /\ x * y <= hi * y
         \/ hi * y <= x * y /\ x * y <= lo * y
<1>1. CASE y >= 0 BY <1>1, TimesLeft
<1>2. CASE y <= 0 BY <1>2, TimesNegative
<1> QED BY <1>1, <1>2

LEMMA MulSound ==
  ASSUME NEW s \in IntTypes, NEW t \in IntTypes, ~ BinTraps("MulI", s, t),
         NEW x \in Int64, NEW y \in Int64, Has(s, x), Has(t, y)
  PROVE  MulType(s, t) \in IntTypes /\ Has(MulType(s, t), Wrap(x * y))
<1>1. /\ s.min \in Int /\ s.max \in Int /\ t.min \in Int /\ t.max \in Int /\ x \in Int /\ y \in Int
      /\ s.min <= x /\ x <= s.max /\ t.min <= y /\ y <= t.max
      /\ s.min \in Int64 /\ s.max \in Int64 /\ t.min \in Int64 /\ t.max \in Int64
      /\ s.kind = "int" /\ t.kind = "int"
  BY SizeIs DEF IntTypes, Has, Int64
<1>2. PICK v \in Int64 : v = Wrap(x * y)
  <2>1. x * y \in Int BY <1>1
  <2> QED BY <2>1, WrapType
<1> DEFINE over == \E i \in Ends(s), j \in Ends(t) : j # 0 /\ Quot(Wrap(i * j), j) # i
<1>3. CASE over
  <2>1. MulType(s, t) = S64 BY <1>3, CornersOfMul
  <2> QED BY <1>2, <2>1, SizeIs DEF S64, IntType, IntTypes, Has, Int64
<1>4. CASE ~ over
  <2>1. \A i \in Ends(s), j \in Ends(t) : j # 0 => Divides(Wrap(i * j), j) BY <1>1 DEF BinTraps
  <2>2. \A i \in Ends(s), j \in Ends(t) : Wrap(i * j) = i * j
    <3> SUFFICES ASSUME NEW i \in Ends(s), NEW j \in Ends(t) PROVE Wrap(i * j) = i * j OBVIOUS
    <3>1. j # 0 => Divides(Wrap(i * j), j) /\ Quot(Wrap(i * j), j) = i BY <1>4, <2>1
    <3>2. i \in Int64 /\ j \in Int64 BY <1>1 DEF Ends
    <3> QED BY <3>1, <3>2, CornerTrue
  <2>3. PICK a \in Int : a = s.min * t.min BY <1>1
  <2>4. PICK b \in Int : b = s.min * t.max BY <1>1
  <2>5. PICK c \in Int : c = s.max * t.min BY <1>1
  <2>6. PICK d \in Int : d = s.max * t.max BY <1>1
  <2>7. Wrap(a) = a /\ Wrap(b) = b /\ Wrap(c) = c /\ Wrap(d) = d
    <3>1. s.min \in Ends(s) /\ s.max \in Ends(s) /\ t.min \in Ends(t) /\ t.max \in Ends(t) BY DEF Ends
    <3> QED BY <2>2, <2>3, <2>4, <2>5, <2>6, <3>1
  <2>8. a \in Int64 /\ b \in Int64 /\ c \in Int64 /\ d \in Int64 BY <2>7, WrapType
  <2>9. PICK S : S = {a, b, c, d} OBVIOUS
  <2>10. MulType(s, t) = Hull(S)
    <3>1. MulType(s, t) = Hull(MulCorners(s, t)) BY <1>4, CornersOfMul
    <3>2. MulCorners(s, t) = S BY <2>3, <2>4, <2>5, <2>6, <2>7, <2>9, CornersOfMul
    <3> QED BY <3>1, <3>2
  <2>11. PICK p \in Int : p = x * y BY <1>1
  <2>12. (\E m \in S : m <= p) /\ (\E m \in S : p <= m)
    <3>1. PICK e \in Int : e = s.min * y BY <1>1
    <3>2. PICK f \in Int : f = s.max * y BY <1>1
    <3>3. (e <= p /\ p <= f) \/ (f <= p /\ p <= e) BY <1>1, <2>11, <3>1, <3>2, ProductBetween
    <3>4. (a <= e /\ e <= b) \/ (b <= e /\ e <= a)
      <4>1. e = y * s.min /\ a = t.min * s.min /\ b = t.max * s.min BY <1>1, <2>3, <2>4, <3>1
      <4> QED BY <1>1, <4>1, ProductBetween
    <3>5. (c <= f /\ f <= d) \/ (d <= f /\ f <= c)
      <4>1. f = y * s.max /\ c = t.min * s.max /\ d = t.max * s.max BY <1>1, <2>5, <2>6, <3>2
      <4> QED BY <1>1, <4>1, ProductBetween
    <3> QED BY <2>9, <3>3, <3>4, <3>5
  <2>13. p \in Int64
    <3>1. S \subseteq Int64 BY <2>8, <2>9
    <3>2. PICK m \in Int64 : m <= p BY <2>12, <3>1
    <3>3. PICK n \in Int64 : p <= n BY <2>12, <3>1
    <3>4. \A i \in Int64 : i \in Int /\ MinInt <= i /\ i <= MaxInt BY SizeIs DEF Int64
    <3> QED BY <3>2, <3>3, <3>4, SizeIs DEF Int64
  <2>14. v = p BY <1>2, <2>11, <2>13, WrapInRange
  <2>15. Has(Hull(S), p) /\ Hull(S) \in IntTypes
    <3>1. PICK m \in S : m <= p BY <2>12
    <3>2. PICK n \in S : p <= n BY <2>12
    <3> QED BY <2>8, <2>9, <3>1, <3>2, HullHolds, ZenonT(40)
  <2> QED BY <1>2, <2>10, <2>14, <2>15
<1> QED BY <1>3, <1>4

(* The code negates a constant wrongly, so that its type is not one.       *)
LEMMA NegSound ==
  ASSUME NEW s \in IntTypes, ~ IsConst(s), NEW x \in Int64, Has(s, x)
  PROVE  NegType(s) \in IntTypes /\ Has(NegType(s), Wrap(- x))
<1>1. /\ s.min \in Int /\ s.max \in Int /\ x \in Int /\ s.min <= x /\ x <= s.max
      /\ s.min >= MinInt /\ s.max <= MaxInt /\ x <= MaxInt
  BY SizeIs DEF IntTypes, Has, Int64
<1>2. CASE s.min = MinInt
  <2>1. NegType(s) = S64 BY <1>2 DEF NegType
  <2>2. Wrap(- x) \in Int64 BY <1>1, WrapType
  <2> QED BY <2>1, <2>2, SizeIs DEF S64, IntType, IntTypes, Has, Int64
<1>3. CASE s.min # MinInt
  <2>1. NegType(s) = IntType(- s.max, - s.min) BY <1>3 DEF NegType
  <2>2. - x \in Int64 /\ - s.max \in Int64 /\ - s.min \in Int64 BY <1>1, <1>3, SizeIs DEF Int64
  <2>3. Wrap(- x) = - x BY <2>2, WrapInRange
  <2>4. - s.max <= - x /\ - x <= - s.min /\ - s.max <= - s.min BY <1>1
  <2> QED BY <2>1, <2>2, <2>3, <2>4 DEF IntType, IntTypes, Has
<1> QED BY <1>2, <1>3

LEMMA AddSound ==
  ASSUME NEW s \in IntTypes, NEW t \in IntTypes,
         NEW x \in Int64, NEW y \in Int64, Has(s, x), Has(t, y)
  PROVE  Has(AddType(s, t), Wrap(x + y))
<1>1. /\ s.min \in Int64 /\ s.max \in Int64 /\ t.min \in Int64 /\ t.max \in Int64
      /\ s.min <= x /\ x <= s.max /\ t.min <= y /\ y <= t.max
  BY DEF IntTypes, Has
<1>2. x \in Int /\ y \in Int /\ MinInt \in Int /\ MaxInt \in Int
  BY RangeAssumption DEF MinInt, Int64
<1>3. Wrap(x + y) \in Int64
  BY <1>2, WrapType
<1> DEFINE over == \/ t.max > 0 /\ s.max > MaxInt - t.max
                   \/ t.min < 0 /\ s.min < MinInt - t.min
<1>4. CASE over
  <2>1. AddType(s, t) = S64
    BY <1>4 DEF AddType
  <2> QED
    BY <1>2, <1>3, <2>1 DEF Has, S64, IntType, Int64
<1>5. CASE ~ over
  <2>1. AddType(s, t) = IntType(s.min + t.min, s.max + t.max)
    BY <1>5 DEF AddType
  <2>2. x + y \in Int64
    BY <1>1, <1>2, <1>5 DEF Int64
  <2>3. Wrap(x + y) = x + y
    BY <2>2, WrapInRange
  <2> QED
    BY <1>1, <1>2, <2>1, <2>3 DEF Has, IntType, Int64
<1> QED
  BY <1>4, <1>5

LEMMA SubSound ==
  ASSUME NEW s \in IntTypes, NEW t \in IntTypes,
         NEW x \in Int64, NEW y \in Int64, Has(s, x), Has(t, y)
  PROVE  Has(SubType(s, t), Wrap(x - y))
<1>1. /\ s.min \in Int64 /\ s.max \in Int64 /\ t.min \in Int64 /\ t.max \in Int64
      /\ s.min <= x /\ x <= s.max /\ t.min <= y /\ y <= t.max
  BY DEF IntTypes, Has
<1>2. x \in Int /\ y \in Int /\ MinInt \in Int /\ MaxInt \in Int
  BY RangeAssumption DEF MinInt, Int64
<1>3. Wrap(x - y) \in Int64
  BY <1>2, WrapType
<1> DEFINE over == \/ t.min < 0 /\ s.max > MaxInt + t.min
                   \/ t.max > 0 /\ s.min < MinInt + t.max
<1>4. CASE over
  <2>1. SubType(s, t) = S64
    BY <1>4 DEF SubType
  <2> QED
    BY <1>2, <1>3, <2>1 DEF Has, S64, IntType, Int64
<1>5. CASE ~ over
  <2>1. SubType(s, t) = IntType(s.min - t.max, s.max - t.min)
    BY <1>5 DEF SubType
  <2>2. x - y \in Int64
    BY <1>1, <1>2, <1>5, RangeAssumption DEF Int64, MinInt
  <2>3. Wrap(x - y) = x - y
    BY <2>2, WrapInRange
  <2> QED
    BY <1>1, <1>2, <2>1, <2>3 DEF Has, IntType, Int64
<1> QED
  BY <1>4, <1>5

(* A decided comparison has the value it is decided to have.               *)
LEMMA CompareSound ==
  ASSUME NEW op \in Compare, NEW s \in IntTypes, NEW t \in IntTypes,
         NEW x \in Int64, NEW y \in Int64, Has(s, x), Has(t, y)
  PROVE  Has(BinType(op, s, t), Apply(op, x, y))
<1>1. /\ s.min \in Int /\ s.max \in Int /\ t.min \in Int /\ t.max \in Int
      /\ x \in Int /\ y \in Int
      /\ s.min <= x /\ x <= s.max /\ t.min <= y /\ y <= t.max
      /\ s.kind = "int" /\ t.kind = "int"
  BY RangeAssumption DEF IntTypes, Has, Int64, MinInt
<1>2. {Null, Bot} \cap {s, t} = {}
  BY <1>1 DEF Null, Bot
<1>3. ASSUME NEW always \in BOOLEAN, NEW never \in BOOLEAN, NEW b \in BOOLEAN,
             always => b, never => ~ b
      PROVE  Has(Decided(always, never), Truth(b))
  BY <1>3 DEF Has, Decided, Truth, IntType, Bool
<1>4. /\ Equal(s, t) => x = y
      /\ Distinct(s, t) => x # y
  BY <1>1 DEF Equal, Distinct, IsConst
<1>5. CASE op = "EqualI"
  <2>1. BinType(op, s, t) = Decided(Equal(s, t), Distinct(s, t)) /\ Apply(op, x, y) = Truth(x = y)
    BY <1>2, <1>5 DEF BinType, Apply
  <2> QED
    BY <1>3, <1>4, <2>1 DEF Equal, Distinct, IsConst
<1>6. CASE op = "NotEqualI"
  <2>1. BinType(op, s, t) = Decided(Distinct(s, t), Equal(s, t)) /\ Apply(op, x, y) = Truth(x # y)
    BY <1>2, <1>6 DEF BinType, Apply
  <2> QED
    BY <1>3, <1>4, <2>1 DEF Equal, Distinct, IsConst
<1>7. CASE op = "GreaterThanI"
  <2>1. BinType(op, s, t) = Decided(s.min > t.max, s.max <= t.min) /\ Apply(op, x, y) = Truth(x > y)
    BY <1>2, <1>7 DEF BinType, Apply
  <2> QED
    BY <1>1, <2>1 DEF Has, Decided, Truth, IntType, Bool
<1>8. CASE op = "GreaterEqualI"
  <2>1. BinType(op, s, t) = Decided(s.min >= t.max, s.max < t.min) /\ Apply(op, x, y) = Truth(x >= y)
    BY <1>2, <1>8 DEF BinType, Apply
  <2> QED
    BY <1>1, <2>1 DEF Has, Decided, Truth, IntType, Bool
<1>9. CASE op = "LesserThanI"
  <2>1. BinType(op, s, t) = Decided(s.max < t.min, s.min >= t.max) /\ Apply(op, x, y) = Truth(x < y)
    BY <1>2, <1>9 DEF BinType, Apply
  <2> QED
    BY <1>1, <2>1 DEF Has, Decided, Truth, IntType, Bool
<1>10. CASE op = "LesserEqualI"
  <2>1. BinType(op, s, t) = Decided(s.max <= t.min, s.min > t.max) /\ Apply(op, x, y) = Truth(x <= y)
    BY <1>2, <1>10 DEF BinType, Apply
  <2> QED
    BY <1>1, <2>1 DEF Has, Decided, Truth, IntType, Bool
<1> QED
  BY <1>5, <1>6, <1>7, <1>8, <1>9, <1>10 DEF Compare

Types == IntTypes \cup {Bot, Null}
Proper == Binary \ {"ModI"}

LEMMA Kinds ==
  /\ \A t \in IntTypes : t.kind = "int" /\ t # Bot /\ t # Null /\ t.min \in Int64 /\ t.max \in Int64 /\ t.min <= t.max
  /\ Bot.kind = "bot" /\ Null.kind = "null" /\ Bot # Null /\ 0 \in Int64 /\ 1 \in Int64
  /\ S64 \in IntTypes /\ Bool \in IntTypes /\ IntType(0, 0) \in IntTypes /\ IntType(1, 1) \in IntTypes
<1>1. \A t \in IntTypes : t.kind = "int" /\ t.min \in Int64 /\ t.max \in Int64 /\ t.min <= t.max BY DEF IntTypes
<1>2. Bot.kind = "bot" /\ Null.kind = "null" BY DEF Bot, Null
<1>3. 0 \in Int64 /\ 1 \in Int64 /\ MinInt \in Int64 /\ MaxInt \in Int64 /\ MinInt <= MaxInt BY SizeIs DEF Int64
<1>4. S64 \in IntTypes /\ Bool \in IntTypes /\ IntType(0, 0) \in IntTypes /\ IntType(1, 1) \in IntTypes
  BY <1>3 DEF S64, Bool, IntType, IntTypes
<1> QED BY <1>1, <1>2, <1>3, <1>4

LEMMA IntBinType ==
  ASSUME NEW op \in Proper, NEW s \in IntTypes, NEW t \in IntTypes
  PROVE  /\ op = "AddI" => BinType(op, s, t) = AddType(s, t)
         /\ op = "SubI" => BinType(op, s, t) = SubType(s, t)
         /\ op = "MulI" => BinType(op, s, t) = MulType(s, t)
         /\ op = "DivI" => BinType(op, s, t) = DivType(s, t)
         /\ op \in Compare => BinType(op, s, t) \in {IntType(0, 0), IntType(1, 1), Bool}
<1>1. {Null, Bot} \cap {s, t} = {} /\ Null \notin {s, t} /\ ~ (Null \notin {s, t} /\ Bot \in {s, t}) BY Kinds
<1>2. CASE op = "AddI" BY <1>1, <1>2 DEF BinType, Compare
<1>3. CASE op = "SubI" BY <1>1, <1>3 DEF BinType, Compare
<1>4. CASE op = "MulI" BY <1>1, <1>4 DEF BinType, Compare
<1>5. CASE op = "DivI" BY <1>1, <1>5 DEF BinType, Compare
<1>6. CASE op \in Compare
  <2>1. \A a, b : Decided(a, b) \in {IntType(0, 0), IntType(1, 1), Bool} BY DEF Decided
  <2>2. CASE op = "EqualI" BY <1>1, <2>1, <2>2 DEF BinType
  <2>3. CASE op = "NotEqualI" BY <1>1, <2>1, <2>3 DEF BinType
  <2>4. CASE op = "GreaterThanI" BY <1>1, <2>1, <2>4 DEF BinType
  <2>5. CASE op = "GreaterEqualI" BY <1>1, <2>1, <2>5 DEF BinType
  <2>6. CASE op = "LesserThanI" BY <1>1, <2>1, <2>6 DEF BinType
  <2>7. CASE op = "LesserEqualI" BY <1>1, <2>1, <2>7 DEF BinType
  <2> QED BY <1>6, <2>2, <2>3, <2>4, <2>5, <2>6, <2>7 DEF Compare
<1> QED BY <1>2, <1>3, <1>4, <1>5, <1>6 DEF Proper, Binary, Compare

LEMMA OtherBinType ==
  ASSUME NEW op \in Proper, NEW s \in Types, NEW t \in Types, ~ (s \in IntTypes /\ t \in IntTypes)
  PROVE  /\ Null \in {s, t} => BinType(op, s, t) = IF op \in Compare THEN Bool ELSE S64
         /\ Null \notin {s, t} => BinType(op, s, t) = Bot /\ (s = Bot \/ t = Bot)
<1>1. CASE Null \in {s, t}
  <2>1. ~ (Null \notin {s, t} /\ Bot \in {s, t}) /\ ~ ({Null, Bot} \cap {s, t} = {}) BY <1>1
  <2> QED BY <1>1, <2>1 DEF BinType
<1>2. CASE Null \notin {s, t}
  <2>1. Bot \in {s, t} BY <1>2 DEF Types
  <2>2. ~ ({Null, Bot} \cap {s, t} = {}) BY <2>1
  <2> QED BY <1>2, <2>1, <2>2 DEF BinType
<1> QED BY <1>1, <1>2

LEMMA AddTyped ==
  ASSUME NEW s \in IntTypes, NEW t \in IntTypes
  PROVE  AddType(s, t) \in IntTypes /\ SubType(s, t) \in IntTypes
<1>1. /\ s.min \in Int /\ s.max \in Int /\ t.min \in Int /\ t.max \in Int
      /\ s.min <= s.max /\ t.min <= t.max
      /\ MinInt <= s.min /\ s.max <= MaxInt /\ MinInt <= t.min /\ t.max <= MaxInt
  BY SizeIs DEF IntTypes, Int64
<1>2. AddType(s, t) \in IntTypes
  <2> DEFINE over == \/ t.max > 0 /\ s.max > MaxInt - t.max
                     \/ t.min < 0 /\ s.min < MinInt - t.min
  <2>1. CASE over BY <2>1, Kinds DEF AddType
  <2>2. CASE ~ over
    <3>1. AddType(s, t) = IntType(s.min + t.min, s.max + t.max) BY <2>2 DEF AddType
    <3>2. s.min + t.min \in Int64 /\ s.max + t.max \in Int64 /\ s.min + t.min <= s.max + t.max
      BY <1>1, <2>2, SizeIs DEF Int64
    <3> QED BY <3>1, <3>2 DEF IntType, IntTypes
  <2> QED BY <2>1, <2>2
<1>3. SubType(s, t) \in IntTypes
  <2> DEFINE over == \/ t.min < 0 /\ s.max > MaxInt + t.min
                     \/ t.max > 0 /\ s.min < MinInt + t.max
  <2>1. CASE over BY <2>1, Kinds DEF SubType
  <2>2. CASE ~ over
    <3>1. SubType(s, t) = IntType(s.min - t.max, s.max - t.min) BY <2>2 DEF SubType
    <3>2. s.min - t.max \in Int64 /\ s.max - t.min \in Int64 /\ s.min - t.max <= s.max - t.min
      BY <1>1, <2>2, SizeIs DEF Int64
    <3> QED BY <3>1, <3>2 DEF IntType, IntTypes
  <2> QED BY <2>1, <2>2
<1> QED BY <1>2, <1>3

LEMMA BinTyped ==
  ASSUME NEW op \in Proper, NEW s \in Types, NEW t \in Types, ~ BinTraps(op, s, t)
  PROVE  /\ BinType(op, s, t) \in Types /\ BinType(op, s, t) # Null
         /\ BinType(op, s, t) = Bot => s = Bot \/ t = Bot
<1>1. CASE s \in IntTypes /\ t \in IntTypes
  <2>1. /\ s.min \in Int64 /\ t.min \in Int64 /\ Has(s, s.min) /\ Has(t, t.min)
        /\ s.min \in Int /\ t.min \in Int /\ s.max \in Int /\ t.max \in Int /\ t.min <= t.max
    BY <1>1, SizeIs DEF IntTypes, Has, Int64
  <2>2. op = "MulI" => MulType(s, t) \in IntTypes BY <1>1, <2>1, MulSound
  <2>3. op = "DivI" => DivType(s, t) \in IntTypes
    <3> SUFFICES ASSUME op = "DivI" PROVE DivType(s, t) \in IntTypes OBVIOUS
    <3>1. CASE t.min <= 0 /\ t.max >= 0
      <4>1. DivType(s, t) = S64 BY <3>1 DEF DivType
      <4> QED BY <4>1, Kinds
    <3>2. CASE ~ (t.min <= 0 /\ t.max >= 0)
      <4>1. Divides(s.min, t.min)
        <5>1. {s.kind, t.kind} = {"int"} BY <1>1, Kinds
        <5>2. \A i \in Ends(s), j \in Ends(t) : Divides(i, j) BY <3>2, <5>1 DEF BinTraps
        <5> QED BY <5>2 DEF Ends
      <4> QED BY <1>1, <2>1, <4>1, DivSound
    <3> QED BY <3>1, <3>2
  <2>4. AddType(s, t) \in IntTypes /\ SubType(s, t) \in IntTypes BY <1>1, AddTyped
  <2>5. BinType(op, s, t) \in IntTypes
    <3>1. op \in {"AddI", "SubI", "MulI", "DivI"} \cup Compare BY DEF Proper, Binary
    <3> QED BY <1>1, <2>2, <2>3, <2>4, <3>1, IntBinType, Kinds
  <2> QED BY <2>5, Kinds DEF Types
<1>2. CASE ~ (s \in IntTypes /\ t \in IntTypes)
  <2>1. CASE Null \in {s, t} BY <1>2, <2>1, OtherBinType, Kinds DEF Types
  <2>2. CASE Null \notin {s, t} BY <1>2, <2>2, OtherBinType, Kinds DEF Types
  <2> QED BY <2>1, <2>2
<1> QED BY <1>1, <1>2

LEMMA ApplyTyped ==
  ASSUME NEW op \in Proper \cup Unary, NEW x \in Int64, NEW y \in Int64, Defined(op, x, y)
  PROVE  Apply(op, x, y) \in Int64
<1>1. x \in Int /\ y \in Int BY SizeIs DEF Int64
<1>2. \A b : Truth(b) \in Int64 BY Kinds DEF Truth
<1>3. CASE op \in {"AddI", "SubI", "MulI"}
  <2>1. x + y \in Int /\ x - y \in Int /\ x * y \in Int BY <1>1
  <2>2. Apply(op, x, y) \in {Wrap(x + y), Wrap(x - y), Wrap(x * y)} BY <1>3 DEF Apply
  <2> QED BY <2>1, <2>2, WrapType
<1>4. CASE op = "DivI"
  <2>1. Apply(op, x, y) = Quot(x, y) /\ Divides(x, y) BY <1>4 DEF Apply, Defined
  <2> QED BY <2>1, QuotType
<1>5. CASE op = "NegI"
  <2>1. Apply(op, x, y) = Wrap(- x) BY <1>5 DEF Apply
  <2> QED BY <1>1, <2>1, WrapType
<1>6. CASE op = "Not" BY <1>2, <1>6 DEF Apply
<1>7. CASE op \in Compare
  <2>1. CASE op = "EqualI" BY <1>2, <2>1 DEF Apply
  <2>2. CASE op = "NotEqualI" BY <1>2, <2>2 DEF Apply
  <2>3. CASE op = "GreaterThanI" BY <1>2, <2>3 DEF Apply
  <2>4. CASE op = "GreaterEqualI" BY <1>2, <2>4 DEF Apply
  <2>5. CASE op = "LesserThanI" BY <1>2, <2>5 DEF Apply
  <2>6. CASE op = "LesserEqualI" BY <1>2, <2>6 DEF Apply
  <2> QED BY <1>7, <2>1, <2>2, <2>3, <2>4, <2>5, <2>6 DEF Compare
<1> QED BY <1>3, <1>4, <1>5, <1>6, <1>7 DEF Proper, Binary, Unary

LEMMA BinSound ==
  ASSUME NEW op \in Proper, NEW s \in Types, NEW t \in Types, ~ BinTraps(op, s, t),
         NEW x \in Int64, NEW y \in Int64, Has(s, x), Has(t, y), Defined(op, x, y)
  PROVE  Has(BinType(op, s, t), Apply(op, x, y))
<1>1. CASE s \in IntTypes /\ t \in IntTypes
  <2>1. CASE op = "AddI"
    <3>1. Apply(op, x, y) = Wrap(x + y) BY <2>1 DEF Apply
    <3> QED BY <1>1, <2>1, <3>1, AddSound, IntBinType
  <2>2. CASE op = "SubI"
    <3>1. Apply(op, x, y) = Wrap(x - y) BY <2>2 DEF Apply
    <3> QED BY <1>1, <2>2, <3>1, SubSound, IntBinType
  <2>3. CASE op = "MulI"
    <3>1. Apply(op, x, y) = Wrap(x * y) BY <2>3 DEF Apply
    <3> QED BY <1>1, <2>3, <3>1, MulSound, IntBinType
  <2>4. CASE op = "DivI"
    <3>1. Apply(op, x, y) = Quot(x, y) /\ Divides(x, y) BY <2>4 DEF Apply, Defined
    <3> QED BY <1>1, <2>4, <3>1, DivSound, IntBinType
  <2>5. CASE op \in Compare BY <1>1, <2>5, CompareSound
  <2> QED BY <2>1, <2>2, <2>3, <2>4, <2>5 DEF Proper, Binary
<1>2. CASE ~ (s \in IntTypes /\ t \in IntTypes)
  <2>1. CASE Null \in {s, t} /\ op \in Compare
    <3>1. BinType(op, s, t) = Bool BY <1>2, <2>1, OtherBinType
    <3>2. Apply(op, x, y) \in {0, 1}
      <4>0. \A b : Truth(b) \in {0, 1} BY DEF Truth
      <4>1. CASE op = "EqualI" BY <4>0, <4>1 DEF Apply
      <4>2. CASE op = "NotEqualI" BY <4>0, <4>2 DEF Apply
      <4>3. CASE op = "GreaterThanI" BY <4>0, <4>3 DEF Apply
      <4>4. CASE op = "GreaterEqualI" BY <4>0, <4>4 DEF Apply
      <4>5. CASE op = "LesserThanI" BY <4>0, <4>5 DEF Apply
      <4>6. CASE op = "LesserEqualI" BY <4>0, <4>6 DEF Apply
      <4> QED BY <2>1, <4>1, <4>2, <4>3, <4>4, <4>5, <4>6 DEF Compare
    <3> QED BY <3>1, <3>2 DEF Has, Bool, IntType
  <2>2. CASE Null \in {s, t} /\ op \notin Compare
    <3>1. BinType(op, s, t) = S64 BY <1>2, <2>2, OtherBinType
    <3>2. Apply(op, x, y) \in Int64 BY ApplyTyped
    <3> QED BY <3>1, <3>2, SizeIs DEF Has, S64, IntType, Int64
  <2>3. CASE Null \notin {s, t}
    <3>1. BinType(op, s, t) = Bot BY <1>2, <2>3, OtherBinType
    <3> QED BY <3>1, Kinds DEF Has
  <2> QED BY <2>1, <2>2, <2>3
<1> QED BY <1>1, <1>2

(* The type that sea_compute_type gives to a sum, a difference, a product,  *)
(* a quotient or a comparison of two integers holds the value, wherever the *)
(* program does not trap, for every width, all ranges of the operands and   *)
(* all values in them.                                                     *)
THEOREM RangesSound ==
  \A op \in Proper, s, t \in IntTypes, x, y \in Int64 :
    Has(s, x) /\ Has(t, y) /\ ~ BinTraps(op, s, t) /\ Defined(op, x, y)
      => Has(BinType(op, s, t), Apply(op, x, y))
BY BinSound DEF Types

-----------------------------------------------------------------------------
(* The nodes of a program without remainders.                              *)
NodeOps == {"Input", "ConstInt"} \cup Unary \cup Proper
NodeRec == [op : NodeOps, a : Nat, b : Nat, lit : Int, type : Types, val : [Run -> Int64]]

PhiKnown == \E k \in DOMAIN Inputs : Inputs[k] = Bot

(* What holds of the node at place k: it computes what its operation gives, *)
(* its inputs come before it, and no rule applies to it.                   *)
NodeOK(ns, k, n) ==
  /\ n.type = Bot => PhiKnown
  /\ n.op = "Input" => n.a = 0 /\ n.b = 0 /\ n.type \in {S64, Bot, Null}
  /\ n.op = "ConstInt" =>
       /\ n.a = 0 /\ n.b = 0 /\ n.lit \in Int64
       /\ n.type = IntType(n.lit, n.lit) /\ n.val = Always(n.lit)
  /\ n.op \in Unary =>
       /\ n.a \in 1 .. k - 1 /\ n.b = 0 /\ ~ IsConst(n.type)
       /\ n.val = Values(n.op, ns[n.a].val, Always(0))
       /\ ~ IsLit(ns[n.a])
  /\ n.op \in Proper =>
       /\ n.a \in 1 .. k - 1 /\ n.b \in 1 .. k - 1 /\ ~ IsConst(n.type)
       /\ n.val = Values(n.op, ns[n.a].val, ns[n.b].val)
       /\ Commutes(n.op) => ~ IsLit(ns[n.a])
       /\ Commutes(n.op) /\ ns[n.a].op = n.op => ~ IsLit(ns[ns[n.a].b])

Graph(ns) == ns \in Seq(NodeRec) /\ \A k \in DOMAIN ns : NodeOK(ns, k, ns[k])

(* The types hold the values on the runs of Q.                             *)
Typed(ns, Q) == \A k \in DOMAIN ns, r \in Q : Has(ns[k].type, ns[k].val[r])

(* What a creation must come to: it traps, or stands for v on the runs of Q. *)
Right(ns, Q, R, v) ==
  /\ R.end \in {"none", "trap"}
  /\ Graph(R.nodes) /\ Typed(R.nodes, Q)
  /\ DOMAIN ns \subseteq DOMAIN R.nodes
  /\ \A k \in DOMAIN ns : R.nodes[k] = ns[k]
  /\ R.end = "none" =>
       R.node \in DOMAIN R.nodes /\ \A r \in Q : R.nodes[R.node].val[r] = v[r]

LEMMA Ops1 ==
  /\ Unary \cap Proper = {}
  /\ \A op \in Unary \cup Proper : op \notin {"Input", "ConstInt", "ModI"}
  /\ {"AddI", "SubI", "MulI", "DivI"} \subseteq Proper
  /\ \A op : Commutes(op) <=> op \in {"AddI", "MulI"}
  /\ \A op \in Unary : \A x, y : Defined(op, x, y)
  /\ \A op, x, y : Commutes(op) => Defined(op, x, y)
BY DEF Unary, Proper, Binary, Compare, Commutes, Defined

LEMMA ValuesType ==
  ASSUME NEW op \in Unary \cup Proper, NEW x \in [Run -> Int64], NEW y \in [Run -> Int64]
  PROVE  Values(op, x, y) \in [Run -> Int64]
<1>1. \A r \in Run : x[r] \in Int64 /\ y[r] \in Int64 OBVIOUS
<1>2. \A r \in Run : Defined(op, x[r], y[r]) => Apply(op, x[r], y[r]) \in Int64
  BY <1>1, ApplyTyped
<1>3. 0 \in Int64 BY Kinds
<1> QED BY <1>2, <1>3 DEF Values

LEMMA ValuesAt ==
  ASSUME NEW op, NEW x, NEW y, NEW r \in Run, Defined(op, x[r], y[r])
  PROVE  Values(op, x, y)[r] = Apply(op, x[r], y[r])
BY DEF Values

LEMMA AlwaysType ==
  ASSUME NEW v \in Int64
  PROVE  Always(v) \in [Run -> Int64] /\ \A r \in Run : Always(v)[r] = v
BY DEF Always

(* A node of the graph, taken apart.                                       *)
LEMMA NodeFacts ==
  ASSUME NEW ns, Graph(ns), NEW k \in DOMAIN ns
  PROVE  /\ k \in 1 .. Len(ns) /\ Len(ns) \in Nat /\ DOMAIN ns = 1 .. Len(ns)
         /\ ns[k].op \in NodeOps /\ ns[k].a \in Nat /\ ns[k].b \in Nat /\ ns[k].lit \in Int
         /\ ns[k].type \in Types /\ ns[k].val \in [Run -> Int64]
         /\ NodeOK(ns, k, ns[k])
<1>1. ns \in Seq(NodeRec) /\ NodeOK(ns, k, ns[k]) BY DEF Graph
<1>2. ns[k] \in NodeRec BY <1>1
<1> QED BY <1>1, <1>2 DEF NodeRec

LEMMA AddNode ==
  ASSUME NEW ns, Graph(ns), NEW Q \in SUBSET Run, Typed(ns, Q),
         NEW n \in NodeRec, NodeOK(ns, Len(ns) + 1, n),
         \A r \in Q : Has(n.type, n.val[r])
  PROVE  Right(ns, Q, Result(Append(ns, n), Len(ns) + 1), n.val)
<1> DEFINE new == Append(ns, n)
           len == Len(ns)
<1>1. ns \in Seq(NodeRec) /\ len \in Nat /\ DOMAIN ns = 1 .. len BY DEF Graph
<1>2. /\ new \in Seq(NodeRec) /\ DOMAIN new = 1 .. len + 1 /\ new[len + 1] = n
      /\ \A k \in 1 .. len : new[k] = ns[k]
  BY <1>1
<1> HIDE DEF new, len
<1>3. ASSUME NEW k \in 1 .. len + 1, NEW m \in NodeRec, NodeOK(ns, k, m)
      PROVE  NodeOK(new, k, m)
  <2>1. \A i \in 1 .. k - 1 : i \in 1 .. len BY <1>1
  <2>2. m.op \in Unary => NodeOK(new, k, m)
    <3>1. m.op \notin Proper \cup {"Input", "ConstInt"} \/ m.op \notin Unary BY Ops1
    <3>2. m.op \in Unary => m.a \in 1 .. len BY <1>3, <2>1 DEF NodeOK
    <3> QED BY <1>2, <1>3, <3>1, <3>2 DEF NodeOK
  <2>3. m.op \in Proper => NodeOK(new, k, m)
    <3> SUFFICES ASSUME m.op \in Proper PROVE NodeOK(new, k, m) OBVIOUS
    <3>1. m.op \notin Unary \cup {"Input", "ConstInt"} BY Ops1
    <3>2. m.a \in 1 .. len /\ m.b \in 1 .. len BY <1>3, <2>1 DEF NodeOK
    <3>3. new[m.a] = ns[m.a] /\ new[m.b] = ns[m.b] BY <1>2, <3>2
    <3>4. ns[m.a].op = m.op => ns[m.a].b \in 1 .. len
      <4> SUFFICES ASSUME ns[m.a].op = m.op PROVE ns[m.a].b \in 1 .. len OBVIOUS
      <4>1. NodeOK(ns, m.a, ns[m.a]) BY <1>1, <3>2 DEF Graph
      <4>2. ns[m.a].b \in 1 .. m.a - 1 BY <4>1 DEF NodeOK
      <4> QED BY <1>1, <3>2, <4>2
    <3>5. ns[m.a].op = m.op => new[ns[m.a].b] = ns[ns[m.a].b] BY <1>2, <3>4
    <3> QED BY <1>3, <3>1, <3>3, <3>5 DEF NodeOK
  <2>4. m.op \in {"Input", "ConstInt"} => NodeOK(new, k, m)
    BY <1>3, Ops1 DEF NodeOK
  <2>5. m.op \in NodeOps BY DEF NodeRec
  <2> QED BY <2>2, <2>3, <2>4, <2>5 DEF NodeOps
<1>4. Graph(new)
  <2> SUFFICES ASSUME NEW k \in 1 .. len + 1 PROVE NodeOK(new, k, new[k])
    BY <1>2 DEF Graph
  <2>1. CASE k = len + 1 BY <1>2, <1>3, <2>1 DEF len
  <2>2. CASE k \in 1 .. len
    <3>1. NodeOK(ns, k, ns[k]) /\ ns[k] \in NodeRec BY <1>1, <2>2 DEF Graph
    <3> QED BY <1>2, <1>3, <2>2, <3>1
  <2> QED BY <1>1, <2>1, <2>2
<1>5. Typed(new, Q)
  <2> SUFFICES ASSUME NEW k \in 1 .. len + 1, NEW r \in Q PROVE Has(new[k].type, new[k].val[r])
    BY <1>2 DEF Typed
  <2>1. CASE k = len + 1 BY <1>2, <2>1
  <2>2. CASE k \in 1 .. len BY <1>1, <1>2, <2>2 DEF Typed
  <2> QED BY <1>1, <2>1, <2>2
<1>6. PICK R : R = Result(new, len + 1) OBVIOUS
<1>7. R.nodes = new /\ R.node = len + 1 /\ R.end = "none" BY <1>6 DEF Result
<1>8. len + 1 \in DOMAIN new /\ \A k \in DOMAIN ns : k \in DOMAIN new /\ new[k] = ns[k] BY <1>1, <1>2
<1>9. Right(ns, Q, R, n.val) BY <1>2, <1>4, <1>5, <1>7, <1>8 DEF Right
<1> QED BY <1>6, <1>9 DEF new, len

(* The node itself is what a record of it stands for.                      *)
LEMMA OldNode ==
  ASSUME NEW ns, Graph(ns), NEW Q \in SUBSET Run, Typed(ns, Q), NEW k \in DOMAIN ns, NEW v,
         \A r \in Q : ns[k].val[r] = v[r]
  PROVE  Right(ns, Q, Result(ns, k), v)
<1>1. PICK R : R = Result(ns, k) OBVIOUS
<1>2. R.nodes = ns /\ R.node = k /\ R.end = "none" BY <1>1 DEF Result
<1>3. Right(ns, Q, R, v) BY <1>2 DEF Right
<1> QED BY <1>1, <1>3

LEMMA TrapRight ==
  ASSUME NEW ns, Graph(ns), NEW Q, Typed(ns, Q), NEW v
  PROVE  Right(ns, Q, Trap(ns), v)
<1>1. PICK R : R = Trap(ns) OBVIOUS
<1>2. R.nodes = ns /\ R.end = "trap" BY <1>1 DEF Trap
<1>3. Right(ns, Q, R, v) BY <1>2 DEF Right
<1> QED BY <1>1, <1>3

(* What a record of a node computes.                                       *)
Meant(ns, n) ==
  /\ n.op \in {"ConstInt"} \cup Unary \cup Proper
  /\ n.op = "ConstInt" => n.val = Always(n.lit)
  /\ n.op \in Unary => n.val = Values(n.op, ns[n.a].val, Always(0))
  /\ n.op \in Proper => n.val = Values(n.op, ns[n.a].val, ns[n.b].val)

(* One node stands for equal ones.                                         *)
LEMMA SharedRight ==
  ASSUME NEW ns, Graph(ns), NEW Q \in SUBSET Run, Typed(ns, Q), NEW n, Meant(ns, n),
         \E k \in DOMAIN ns : Same(ns[k], n)
  PROVE  /\ Right(ns, Q, Canon(ns, n), n.val)
         /\ \E k \in DOMAIN ns : Canon(ns, n) = Result(ns, k) /\ Same(ns[k], n)
<1>1. PICK k \in DOMAIN ns : k = (CHOOSE i \in DOMAIN ns : Same(ns[i], n)) /\ Same(ns[k], n)
  OBVIOUS
<1>2. Canon(ns, n) = Result(ns, k) BY <1>1 DEF Canon
<1>3. ns[k].val = n.val
  <2>1. /\ ns[k].op = n.op /\ ns[k].a = n.a /\ ns[k].b = n.b
        /\ n.op = "ConstInt" => ns[k].lit = n.lit
    BY <1>1 DEF Same
  <2>2. NodeOK(ns, k, ns[k]) BY DEF Graph
  <2>3. CASE n.op = "ConstInt" BY <2>1, <2>2, <2>3 DEF NodeOK, Meant
  <2>4. CASE n.op \in Unary BY <2>1, <2>2, <2>4 DEF NodeOK, Meant
  <2>5. CASE n.op \in Proper BY <2>1, <2>2, <2>5 DEF NodeOK, Meant
  <2> QED BY <2>3, <2>4, <2>5 DEF Meant
<1>4. Right(ns, Q, Result(ns, k), n.val) BY <1>3, OldNode
<1> QED BY <1>1, <1>2, <1>4

LEMMA NewRight ==
  ASSUME NEW ns, Graph(ns), NEW Q \in SUBSET Run, Typed(ns, Q),
         NEW n \in NodeRec, NodeOK(ns, Len(ns) + 1, n),
         ~ \E k \in DOMAIN ns : Same(ns[k], n),
         \A r \in Q : Has(n.type, n.val[r])
  PROVE  Right(ns, Q, Canon(ns, n), n.val)
<1>1. Canon(ns, n) = Result(Append(ns, n), Len(ns) + 1) BY DEF Canon
<1> QED BY <1>1, AddNode

LEMMA ConstRight ==
  ASSUME NEW ns, Graph(ns), NEW Q \in SUBSET Run, Typed(ns, Q), NEW v \in Int64
  PROVE  /\ Right(ns, Q, Const(ns, v), Always(v))
         /\ Const(ns, v).end = "none"
         /\ IsLit(Const(ns, v).nodes[Const(ns, v).node])
         /\ Const(ns, v).nodes[Const(ns, v).node].lit = v
<1>0. PICK t : t = IntType(v, v) OBVIOUS
<1>1. PICK w : w = Always(v) OBVIOUS
<1>2. PICK n : n = [op |-> "ConstInt", a |-> 0, b |-> 0, lit |-> v, type |-> t, val |-> w]
  OBVIOUS
<1>3. Const(ns, v) = Canon(ns, n) BY <1>0, <1>1, <1>2 DEF Const
<1>4. w \in [Run -> Int64] /\ v \in Int /\ \A r \in Run : w[r] = v BY <1>1, AlwaysType, SizeIs DEF Int64
<1>5. t \in IntTypes /\ t # Bot /\ t.kind = "int" /\ t.min = v /\ t.max = v
  BY <1>0, <1>4, Kinds DEF IntType, IntTypes
<1>6. n \in NodeRec BY <1>2, <1>4, <1>5 DEF NodeRec, NodeOps, Types
<1>7. "ConstInt" \notin Unary \cup Proper BY Ops1
<1>8. NodeOK(ns, Len(ns) + 1, n) BY <1>0, <1>1, <1>2, <1>5, <1>7 DEF NodeOK
<1>9. CASE \E k \in DOMAIN ns : Same(ns[k], n)
  <2>1. Meant(ns, n) BY <1>1, <1>2, <1>7 DEF Meant
  <2>2. PICK k \in DOMAIN ns : Canon(ns, n) = Result(ns, k) /\ Same(ns[k], n) BY <1>9, <2>1, SharedRight
  <2>3. ns[k].op = "ConstInt" /\ ns[k].lit = v BY <1>2, <2>2 DEF Same
  <2>4. Right(ns, Q, Canon(ns, n), n.val) BY <1>9, <2>1, SharedRight
  <2> QED BY <1>1, <1>2, <1>3, <2>2, <2>3, <2>4 DEF Result, IsLit
<1>10. CASE ~ \E k \in DOMAIN ns : Same(ns[k], n)
  <2>1. \A r \in Q : Has(n.type, n.val[r]) BY <1>2, <1>4, <1>5 DEF Has
  <2>2. Right(ns, Q, Canon(ns, n), n.val) BY <1>6, <1>8, <1>10, <2>1, NewRight
  <2>3. Canon(ns, n) = Result(Append(ns, n), Len(ns) + 1) BY <1>10 DEF Canon
  <2>4. Append(ns, n)[Len(ns) + 1] = n BY DEF Graph
  <2> QED BY <1>1, <1>2, <1>3, <2>2, <2>3, <2>4 DEF Result, IsLit
<1> QED BY <1>9, <1>10

(* Constants only come from ConstInt nodes.                                *)
LEMMA OnlyLiterals ==
  ASSUME NEW ns, Graph(ns), NEW k \in DOMAIN ns
  PROVE  /\ IsConst(ns[k].type) => IsLit(ns[k])
         /\ IsLit(ns[k]) => /\ ns[k].lit \in Int64 /\ ns[k].type = IntType(ns[k].lit, ns[k].lit)
                            /\ \A r \in Run : ns[k].val[r] = ns[k].lit
         /\ ns[k].type = Bot => PhiKnown
<1>1. NodeOK(ns, k, ns[k]) /\ ns[k].op \in NodeOps BY NodeFacts
<1>2. MinInt # MaxInt BY SizeIs
<1>3. ~ IsConst(S64) /\ ~ IsConst(Bot) /\ ~ IsConst(Null) BY <1>2, Kinds DEF IsConst, S64, IntType
<1>4. IsConst(ns[k].type) => IsLit(ns[k]) BY <1>1, <1>3 DEF NodeOK, NodeOps, IsLit
<1>5. IsLit(ns[k]) => /\ ns[k].lit \in Int64 /\ ns[k].type = IntType(ns[k].lit, ns[k].lit)
                      /\ ns[k].val = Always(ns[k].lit)
  BY <1>1 DEF NodeOK, IsLit
<1> QED BY <1>1, <1>4, <1>5, AlwaysType DEF NodeOK

LEMMA ConstIs ==
  ASSUME NEW t \in Types, IsConst(t), NEW v \in Int, Has(t, v)
  PROVE  v = t.min /\ t.min \in Int64
<1>1. t \in IntTypes BY Kinds DEF Types, IsConst
<1>2. t.min \in Int /\ t.max \in Int /\ t.min \in Int64 BY <1>1, SizeIs DEF IntTypes, Int64
<1> QED BY <1>2 DEF IsConst, Has

(* A sum, product, difference or quotient with itself, 1 or a constant.    *)
LEMMA SameOperands ==
  ASSUME NEW x \in Int64
  PROVE  /\ Apply("SubI", x, x) = 0
         /\ Apply("MulI", x, 1) = x
         /\ Apply("DivI", x, 1) = x
         /\ Defined("DivI", x, x) => Apply("DivI", x, x) = 1
<1>1. x \in Int /\ x - x = 0 /\ x * 1 = x BY SizeIs DEF Int64
<1>2. Wrap(0) = 0 /\ Wrap(x) = x BY Kinds, WrapInRange
<1>3. Apply("SubI", x, x) = Wrap(x - x) /\ Apply("MulI", x, 1) = Wrap(x * 1) BY DEF Apply
<1>4. Apply("DivI", x, 1) = Quot(x, 1) /\ Apply("DivI", x, x) = Quot(x, x) BY DEF Apply
<1>5. Defined("DivI", x, x) => x # 0 BY DEF Defined, Divides
<1> QED BY <1>1, <1>2, <1>3, <1>4, <1>5, QuotOnes

(* Right may be said of any function that agrees on Q.                     *)
LEMMA RightSame ==
  ASSUME NEW ns, NEW Q, NEW R, NEW v, NEW w, Right(ns, Q, R, v), \A r \in Q : v[r] = w[r]
  PROVE  Right(ns, Q, R, w)
BY DEF Right

LEMMA RightAfter ==
  ASSUME NEW ns, NEW Q, NEW R, NEW v, NEW S, NEW w, Right(ns, Q, R, v), Right(R.nodes, Q, S, w)
  PROVE  Right(ns, Q, S, w)
BY DEF Right

(* sea_create_urnary_op.                                                   *)
LEMMA UnaryRight ==
  ASSUME NEW ns, Graph(ns), NEW Q \in SUBSET Run, Typed(ns, Q),
         NEW op \in Unary, NEW a \in DOMAIN ns, op = "NegI" => ~ PhiKnown
  PROVE  Right(ns, Q, CreateUnary(ns, op, a), Values(op, ns[a].val, Always(0)))
<1>1. PICK x : x = ns[a] OBVIOUS
<1>2. PICK t : t = UnaryType(op, x.type) OBVIOUS
<1>3. PICK v : v = Values(op, x.val, Always(0)) OBVIOUS
<1>4. PICK n : n = [op |-> op, a |-> a, b |-> 0, lit |-> 0, type |-> t, val |-> v] OBVIOUS
<1>5. CreateUnary(ns, op, a) =
        IF x.type = Null THEN Trap(ns)
        ELSE IF \E k \in DOMAIN ns : Same(ns[k], n) THEN Canon(ns, n)
        ELSE IF IsLit(x) THEN Const(ns, Apply(op, x.lit, 0))
        ELSE IF IsConst(t) THEN Const(ns, t.min)
        ELSE Canon(ns, n)
  BY <1>1, <1>2, <1>3, <1>4 DEF CreateUnary
<1>6. /\ x.type \in Types /\ x.val \in [Run -> Int64] /\ a \in 1 .. Len(ns) /\ Len(ns) \in Nat
      /\ \A r \in Q : Has(x.type, x.val[r])
  BY <1>1, NodeFacts DEF Typed
<1>7. v \in [Run -> Int64] /\ \A r \in Run : v[r] = Apply(op, x.val[r], 0)
  <2>1. Always(0) \in [Run -> Int64] /\ \A r \in Run : Always(0)[r] = 0 BY Kinds, AlwaysType
  <2>2. v \in [Run -> Int64] BY <1>3, <1>6, <2>1, ValuesType
  <2>3. \A r \in Run : v[r] = Apply(op, x.val[r], Always(0)[r]) BY <1>3, Ops1, ValuesAt
  <2> QED BY <2>1, <2>2, <2>3
<1>8. CASE x.type = Null BY <1>1, <1>3, <1>5, <1>8, TrapRight
<1>9. CASE x.type # Null /\ \E k \in DOMAIN ns : Same(ns[k], n)
  <2>1. Meant(ns, n) BY <1>1, <1>3, <1>4, Ops1 DEF Meant
  <2>2. Right(ns, Q, Canon(ns, n), n.val) BY <1>9, <2>1, SharedRight
  <2> QED BY <1>1, <1>3, <1>4, <1>5, <1>9, <2>2
<1>10. CASE x.type # Null /\ ~ (\E k \in DOMAIN ns : Same(ns[k], n)) /\ IsLit(x)
  <2>1. PICK c : c = Apply(op, x.lit, 0) OBVIOUS
  <2>2. x.lit \in Int64 /\ \A r \in Run : x.val[r] = x.lit BY <1>1, <1>10, OnlyLiterals
  <2>3. c \in Int64 BY <2>1, <2>2, Ops1, Kinds, ApplyTyped
  <2>4. Right(ns, Q, Const(ns, c), Always(c)) BY <2>3, ConstRight
  <2>5. \A r \in Q : Always(c)[r] = v[r] BY <1>7, <2>1, <2>2, <2>3, AlwaysType
  <2>6. Right(ns, Q, Const(ns, c), v) BY <2>4, <2>5, RightSame
  <2> QED BY <1>1, <1>3, <1>5, <1>10, <2>1, <2>6
<1>11. CASE x.type # Null /\ ~ (\E k \in DOMAIN ns : Same(ns[k], n)) /\ ~ IsLit(x)
  <2>1. t \in IntTypes /\ \A r \in Q : Has(t, v[r])
    <3>1. CASE op = "NegI"
      <4>1. x.type # Bot BY <1>1, <3>1, OnlyLiterals
      <4>2. x.type \in IntTypes BY <1>6, <1>11, <4>1 DEF Types
      <4>3. ~ IsConst(x.type) BY <1>1, <1>11, OnlyLiterals
      <4>4. t = NegType(x.type) BY <1>2, <3>1 DEF UnaryType
      <4>5. x.type.min \in Int64 /\ Has(x.type, x.type.min)
        BY <4>2, SizeIs DEF IntTypes, Has, Int64
      <4>6. t \in IntTypes BY <4>2, <4>3, <4>4, <4>5, NegSound
      <4>7. \A r \in Q : x.val[r] \in Int64 /\ Has(x.type, x.val[r]) BY <1>6
      <4>8. \A i : Apply(op, i, 0) = Wrap(- i) BY <3>1 DEF Apply
      <4>9. \A r \in Q : Has(t, Wrap(- x.val[r])) BY <4>2, <4>3, <4>4, <4>7, NegSound
      <4> QED BY <1>7, <4>6, <4>8, <4>9
    <3>2. CASE op = "Not"
      <4>1. t = Bool BY <1>2, <3>2 DEF UnaryType
      <4>2. \A i : Apply(op, i, 0) \in {0, 1} BY <3>2 DEF Apply, Truth
      <4>3. \A i \in {0, 1} : Has(Bool, i) BY DEF Has, Bool, IntType
      <4>4. \A r \in Q : v[r] \in {0, 1} BY <1>7, <4>2
      <4> QED BY <4>1, <4>3, <4>4, Kinds
    <3> QED BY <3>1, <3>2 DEF Unary
  <2>2. CASE IsConst(t)
    <3>1. t.min \in Int64 /\ \A r \in Q : v[r] = t.min
      <4>1. \A r \in Q : v[r] \in Int BY <1>7, SizeIs DEF Int64
      <4>2. \A r \in Q : v[r] = t.min BY <2>1, <2>2, <4>1, ConstIs DEF Types
      <4> QED BY <2>1, <4>2, Kinds
    <3>2. Right(ns, Q, Const(ns, t.min), Always(t.min)) BY <3>1, ConstRight
    <3>3. \A r \in Q : Always(t.min)[r] = v[r] BY <3>1, AlwaysType
    <3>4. Right(ns, Q, Const(ns, t.min), v) BY <3>2, <3>3, RightSame
    <3> QED BY <1>1, <1>3, <1>5, <1>11, <2>2, <3>4
  <2>3. CASE ~ IsConst(t)
    <3>1. 0 \in Nat /\ 0 \in Int /\ a \in Nat BY <1>6
    <3>2. op \in NodeOps /\ op \notin Proper /\ op \notin {"Input", "ConstInt"} BY Ops1 DEF NodeOps
    <3>3. n \in NodeRec BY <1>4, <1>7, <2>1, <3>1, <3>2 DEF NodeRec, Types
    <3>4. a \in 1 .. (Len(ns) + 1) - 1 BY <1>6
    <3>5. t # Bot BY <2>1, Kinds
    <3>6. NodeOK(ns, Len(ns) + 1, n) BY <1>1, <1>3, <1>4, <1>11, <2>3, <3>2, <3>4, <3>5 DEF NodeOK
    <3>7. Right(ns, Q, Canon(ns, n), n.val) BY <1>4, <1>11, <2>1, <3>3, <3>6, NewRight
    <3> QED BY <1>1, <1>3, <1>4, <1>5, <1>11, <2>3, <3>7
  <2> QED BY <2>2, <2>3
<1> QED BY <1>8, <1>9, <1>10, <1>11

(* The rules of sea_idealize_int one by one, given that what they ask to be *)
(* created is right.                                                       *)
LEMMA RulesRight ==
  ASSUME NEW ns, Graph(ns), NEW Q \in SUBSET Run, Typed(ns, Q),
         NEW op \in Proper, NEW a \in DOMAIN ns, NEW b \in DOMAIN ns,
         \A r \in Q : Defined(op, ns[a].val[r], ns[b].val[r]),
         NEW v, v = Values(op, ns[a].val, ns[b].val),
         NEW swapped, Swaps(op, ns[a], ns[b]) => Right(ns, Q, swapped, v),
         NEW regrouped, Regroups(ns, op, ns[a]) => Right(ns, Q, regrouped, v),
         NEW doubled,
         op = "AddI" /\ a = b /\ ~ IsLit(ns[a]) /\ ~ Regroups(ns, op, ns[a]) => Right(ns, Q, doubled, v)
  PROVE  Right(ns, Q, BinRules(ns, op, a, b, swapped, regrouped, doubled), v)
<1>1. PICK x : x = ns[a] OBVIOUS
<1>2. PICK y : y = ns[b] OBVIOUS
<1>3. PICK t : t = BinType(op, x.type, y.type) OBVIOUS
<1>4. PICK n : n = [op |-> op, a |-> a, b |-> b, lit |-> 0, type |-> t, val |-> v] OBVIOUS
<1>5. PICK R : R = BinRules(ns, op, a, b, swapped, regrouped, doubled) OBVIOUS
<1> DEFINE known == \E k \in DOMAIN ns : Same(ns[k], n)
<1>6. R = IF BinTraps(op, x.type, y.type) THEN Trap(ns)
          ELSE IF known THEN Canon(ns, n)
          ELSE IF op = "ModI" THEN Canon(ns, n)
          ELSE IF IsLit(x) /\ IsLit(y)
          THEN IF Defined(op, x.lit, y.lit) THEN Const(ns, Apply(op, x.lit, y.lit)) ELSE Trap(ns)
          ELSE IF Swaps(op, x, y) THEN swapped
          ELSE IF Regroups(ns, op, x) THEN regrouped
          ELSE IF op = "AddI" /\ a = b THEN doubled
          ELSE IF op = "SubI" /\ a = b THEN Const(ns, 0)
          ELSE IF op = "MulI" /\ IsLit(y) /\ y.lit = 1 THEN Result(ns, a)
          ELSE IF op = "DivI" /\ a = b THEN Const(ns, 1)
          ELSE IF op = "DivI" /\ IsLit(y) /\ y.lit = 1 THEN Result(ns, a)
          ELSE IF IsConst(t) THEN Const(ns, t.min)
          ELSE Canon(ns, n)
  BY <1>1, <1>2, <1>3, <1>4, <1>5 DEF BinRules
<1>7. /\ x.type \in Types /\ y.type \in Types
      /\ x.val \in [Run -> Int64] /\ y.val \in [Run -> Int64]
      /\ a \in 1 .. Len(ns) /\ b \in 1 .. Len(ns) /\ Len(ns) \in Nat
      /\ \A r \in Q : Has(x.type, x.val[r]) /\ Has(y.type, y.val[r])
      /\ \A r \in Q : Defined(op, x.val[r], y.val[r])
  BY <1>1, <1>2, NodeFacts DEF Typed
<1>8. v \in [Run -> Int64] /\ \A r \in Q : v[r] = Apply(op, x.val[r], y.val[r])
  <2>1. v \in [Run -> Int64] BY <1>1, <1>2, <1>7, ValuesType
  <2>2. \A r \in Q : v[r] = Apply(op, x.val[r], y.val[r]) BY <1>1, <1>2, <1>7, ValuesAt
  <2> QED BY <2>1, <2>2
<1>9. op # "ModI" /\ op \notin Unary /\ op \notin {"Input", "ConstInt"} BY Ops1
<1>10. ASSUME NEW c \in Int64, \A r \in Q : v[r] = c
       PROVE  Right(ns, Q, Const(ns, c), v)
  <2>1. Right(ns, Q, Const(ns, c), Always(c)) BY ConstRight
  <2>2. \A r \in Q : Always(c)[r] = v[r] BY <1>10, AlwaysType
  <2> QED BY <2>1, <2>2, RightSame
<1>11. CASE BinTraps(op, x.type, y.type) BY <1>5, <1>6, <1>11, TrapRight
<1>12. CASE ~ BinTraps(op, x.type, y.type) /\ known
  <2>1. Meant(ns, n) BY <1>4, <1>9 DEF Meant
  <2>2. Right(ns, Q, Canon(ns, n), n.val) BY <1>12, <2>1, SharedRight
  <2> QED BY <1>4, <1>5, <1>6, <1>12, <2>2
<1>13. CASE ~ BinTraps(op, x.type, y.type) /\ ~ known /\ IsLit(x) /\ IsLit(y)
  <2>1. /\ x.lit \in Int64 /\ y.lit \in Int64
        /\ \A r \in Run : x.val[r] = x.lit /\ y.val[r] = y.lit
    BY <1>1, <1>2, <1>13, OnlyLiterals
  <2>2. CASE Defined(op, x.lit, y.lit)
    <3>1. PICK c : c = Apply(op, x.lit, y.lit) OBVIOUS
    <3>2. c \in Int64 BY <2>1, <2>2, <3>1, ApplyTyped
    <3>3. \A r \in Q : v[r] = c BY <1>8, <2>1, <3>1
    <3>4. R = Const(ns, c) BY <1>6, <1>9, <1>13, <2>2, <3>1
    <3> QED BY <1>5, <1>10, <3>2, <3>3, <3>4
  <2>3. CASE ~ Defined(op, x.lit, y.lit)
    <3>1. R = Trap(ns) BY <1>6, <1>9, <1>13, <2>3
    <3> QED BY <1>5, <3>1, TrapRight
  <2> QED BY <2>2, <2>3
<1> DEFINE rest == ~ BinTraps(op, x.type, y.type) /\ ~ known /\ ~ (IsLit(x) /\ IsLit(y))
<1>14. CASE rest /\ Swaps(op, x, y)
  <2>1. R = swapped BY <1>6, <1>9, <1>14
  <2> QED BY <1>1, <1>2, <1>5, <1>14, <2>1
<1>15. CASE rest /\ ~ Swaps(op, x, y) /\ Regroups(ns, op, x)
  <2>1. R = regrouped BY <1>6, <1>9, <1>15
  <2> QED BY <1>1, <1>5, <1>15, <2>1
<1> DEFINE plain == rest /\ ~ Swaps(op, x, y) /\ ~ Regroups(ns, op, x)
<1>16. CASE plain /\ op = "AddI" /\ a = b
  <2>1. R = doubled BY <1>6, <1>9, <1>16
  <2>2. ~ IsLit(x) BY <1>1, <1>2, <1>16
  <2> QED BY <1>1, <1>5, <1>16, <2>1, <2>2
<1>17. \A r \in Q : x.val[r] \in Int64 /\ y.val[r] \in Int64 BY <1>7
<1>18. CASE plain /\ op = "SubI" /\ a = b
  <2>1. R = Const(ns, 0) BY <1>6, <1>9, <1>18
  <2>2. \A r \in Q : v[r] = 0 BY <1>1, <1>2, <1>8, <1>17, <1>18, SameOperands
  <2> QED BY <1>5, <1>10, <2>1, <2>2, Kinds
<1>19. CASE plain /\ op \in {"MulI", "DivI"} /\ IsLit(y) /\ y.lit = 1 /\ ~ (op = "DivI" /\ a = b)
  <2>1. R = Result(ns, a) BY <1>6, <1>9, <1>19
  <2>2. \A r \in Q : y.val[r] = 1 BY <1>2, <1>19, OnlyLiterals
  <2>3. \A r \in Q : v[r] = x.val[r] BY <1>8, <1>17, <1>19, <2>2, SameOperands
  <2> QED BY <1>1, <1>5, <2>1, <2>3, OldNode
<1>20. CASE plain /\ op = "DivI" /\ a = b
  <2>1. R = Const(ns, 1) BY <1>6, <1>9, <1>20
  <2>2. \A r \in Q : v[r] = 1 BY <1>1, <1>2, <1>7, <1>8, <1>17, <1>20, SameOperands
  <2> QED BY <1>5, <1>10, <2>1, <2>2, Kinds
<1> DEFINE last == /\ plain /\ ~ (op \in {"AddI", "SubI", "DivI"} /\ a = b)
                   /\ ~ (op \in {"MulI", "DivI"} /\ IsLit(y) /\ y.lit = 1)
<1>21. ASSUME ~ BinTraps(op, x.type, y.type)
       PROVE  /\ t \in Types /\ (t = Bot => PhiKnown)
              /\ \A r \in Q : Has(t, v[r])
  <2>1. t \in Types /\ (t = Bot => x.type = Bot \/ y.type = Bot) BY <1>3, <1>7, <1>21, BinTyped
  <2>2. t = Bot => PhiKnown BY <1>1, <1>2, <2>1, OnlyLiterals
  <2>3. \A r \in Q : Has(t, Apply(op, x.val[r], y.val[r]))
    BY <1>3, <1>7, <1>17, <1>21, BinSound
  <2> QED BY <1>8, <2>1, <2>2, <2>3
<1>22. CASE last /\ IsConst(t)
  <2>1. R = Const(ns, t.min) BY <1>6, <1>9, <1>22
  <2>2. \A r \in Q : v[r] \in Int BY <1>8, SizeIs DEF Int64
  <2>3. \A r \in Q : v[r] = t.min BY <1>21, <1>22, <2>2, ConstIs
  <2>4. t.min \in Int64
    <3>1. t \in IntTypes BY <1>21, <1>22, Kinds DEF Types, IsConst
    <3> QED BY <3>1, Kinds
  <2> QED BY <1>5, <1>10, <2>1, <2>3, <2>4
<1>23. CASE last /\ ~ IsConst(t)
  <2>1. R = Canon(ns, n) BY <1>6, <1>9, <1>23
  <2>2. op \in NodeOps /\ 0 \in Int /\ a \in Nat /\ b \in Nat BY <1>7 DEF NodeOps
  <2>3. n \in NodeRec BY <1>4, <1>8, <1>21, <1>23, <2>2 DEF NodeRec
  <2>4. a \in 1 .. (Len(ns) + 1) - 1 /\ b \in 1 .. (Len(ns) + 1) - 1 BY <1>7
  <2>5. Commutes(op) => ~ IsLit(x) BY <1>23 DEF Swaps
  <2>6. Commutes(op) /\ x.op = op => ~ IsLit(ns[x.b]) BY <1>23 DEF Regroups
  <2>7. t = Bot => PhiKnown BY <1>21, <1>23
  <2>8. NodeOK(ns, Len(ns) + 1, n)
    BY <1>1, <1>4, <1>9, <1>23, <2>4, <2>5, <2>6, <2>7, <1>2 DEF NodeOK
  <2>9. \A r \in Q : Has(n.type, n.val[r]) BY <1>4, <1>21, <1>23
  <2>10. Right(ns, Q, Canon(ns, n), n.val) BY <1>23, <2>3, <2>8, <2>9, NewRight
  <2> QED BY <1>4, <1>5, <2>1, <2>10
<1> QED
  BY <1>11, <1>12, <1>13, <1>14, <1>15, <1>16, <1>18, <1>19, <1>20, <1>22, <1>23

(* Where no other creation is asked for.                                   *)
Direct(ns, op, a, b) ==
  \/ IsLit(ns[a]) /\ IsLit(ns[b])
  \/ /\ ~ Swaps(op, ns[a], ns[b]) /\ ~ Regroups(ns, op, ns[a])
     /\ ~ (op = "AddI" /\ a = b)

LEMMA DirectRight ==
  ASSUME NEW ns, Graph(ns), NEW Q \in SUBSET Run, Typed(ns, Q),
         NEW op \in Proper, NEW a \in DOMAIN ns, NEW b \in DOMAIN ns,
         \A r \in Q : Defined(op, ns[a].val[r], ns[b].val[r]),
         Direct(ns, op, a, b), NEW swapped, NEW regrouped, NEW doubled
  PROVE  Right(ns, Q, BinRules(ns, op, a, b, swapped, regrouped, doubled),
               Values(op, ns[a].val, ns[b].val))
<1>1. PICK v : v = Values(op, ns[a].val, ns[b].val) OBVIOUS
<1>2. ~ Swaps(op, ns[a], ns[b]) BY DEF Direct, Swaps
<1>3. ~ Regroups(ns, op, ns[a])
  BY Ops1 DEF Direct, Regroups, IsLit
<1>4. ~ (op = "AddI" /\ a = b /\ ~ IsLit(ns[a])) BY DEF Direct
<1>5. Right(ns, Q, BinRules(ns, op, a, b, swapped, regrouped, doubled), v)
  BY <1>1, <1>2, <1>3, <1>4, RulesRight
<1> QED BY <1>1, <1>5

(* Two constants make a constant.                                          *)
LEMMA FoldsToLit ==
  ASSUME NEW ns, Graph(ns), NEW op \in Proper, Commutes(op),
         NEW a \in DOMAIN ns, NEW b \in DOMAIN ns, IsLit(ns[a]), IsLit(ns[b]),
         NEW swapped, NEW regrouped, NEW doubled,
         NEW R, R = BinRules(ns, op, a, b, swapped, regrouped, doubled), R.end = "none"
  PROVE  IsLit(R.nodes[R.node])
<1>1. PICK x : x = ns[a] OBVIOUS
<1>2. PICK y : y = ns[b] OBVIOUS
<1>3. PICK n : n = [op |-> op, a |-> a, b |-> b, lit |-> 0, type |-> BinType(op, x.type, y.type),
                    val |-> Values(op, x.val, y.val)]
  OBVIOUS
<1>4. ~ \E k \in DOMAIN ns : Same(ns[k], n)
  <2> SUFFICES ASSUME NEW k \in DOMAIN ns, Same(ns[k], n) PROVE FALSE OBVIOUS
  <2>1. ns[k].op = op /\ ns[k].a = a BY <1>3 DEF Same
  <2>2. NodeOK(ns, k, ns[k]) BY DEF Graph
  <2> QED BY <2>1, <2>2 DEF NodeOK
<1>5. Defined(op, x.lit, y.lit) /\ op # "ModI" BY Ops1
<1>6. R = Trap(ns) \/ R = Const(ns, Apply(op, x.lit, y.lit))
  BY <1>1, <1>2, <1>3, <1>4, <1>5 DEF BinRules
<1>7. R # Trap(ns) BY DEF Trap
<1>8. Apply(op, x.lit, y.lit) \in Int64
  <2>1. x.lit \in Int64 /\ y.lit \in Int64 BY <1>1, <1>2, OnlyLiterals
  <2> QED BY <1>5, <2>1, ApplyTyped
<1>9. Typed(ns, {}) BY DEF Typed
<1> QED BY <1>6, <1>7, <1>8, <1>9, ConstRight

(* A creation that asks for none is right, whatever it may call.           *)
LEMMA DirectCreation ==
  ASSUME NEW ns, Graph(ns), NEW Q \in SUBSET Run, Typed(ns, Q),
         NEW op \in Proper, NEW a \in DOMAIN ns, NEW b \in DOMAIN ns,
         \A r \in Q : Defined(op, ns[a].val[r], ns[b].val[r]), Direct(ns, op, a, b)
  PROVE  \A R \in {CreateBin1(ns, op, a, b), CreateBin2(ns, op, a, b),
                   CreateBin3(ns, op, a, b), CreateBin(ns, op, a, b)} :
           /\ Right(ns, Q, R, Values(op, ns[a].val, ns[b].val))
           /\ Commutes(op) /\ IsLit(ns[a]) /\ IsLit(ns[b]) /\ R.end = "none"
                => IsLit(R.nodes[R.node])
<1>1. SUFFICES ASSUME NEW R, \E s, g, d : R = BinRules(ns, op, a, b, s, g, d)
               PROVE  /\ Right(ns, Q, R, Values(op, ns[a].val, ns[b].val))
                      /\ Commutes(op) /\ IsLit(ns[a]) /\ IsLit(ns[b]) /\ R.end = "none"
                           => IsLit(R.nodes[R.node])
  <2>1. \E s, g, d : CreateBin1(ns, op, a, b) = BinRules(ns, op, a, b, s, g, d)
    BY Zenon DEF CreateBin1, Rewrite
  <2>2. \E s, g, d : CreateBin2(ns, op, a, b) = BinRules(ns, op, a, b, s, g, d)
    BY Zenon DEF CreateBin2, Rewrite
  <2>3. \E s, g, d : CreateBin3(ns, op, a, b) = BinRules(ns, op, a, b, s, g, d)
    BY Zenon DEF CreateBin3, Rewrite
  <2>4. \E s, g, d : CreateBin(ns, op, a, b) = BinRules(ns, op, a, b, s, g, d)
    BY Zenon DEF CreateBin, Rewrite
  <2> QED BY <2>1, <2>2, <2>3, <2>4
<1>2. PICK s, g, d : R = BinRules(ns, op, a, b, s, g, d) BY <1>1
<1> QED BY <1>2, DirectRight, FoldsToLit

(* A sum of a sum, or a product of a product.                              *)
LEMMA Nested ==
  ASSUME NEW ns, Graph(ns), NEW a \in DOMAIN ns, Commutes(ns[a].op)
  PROVE  /\ ns[a].op \in Proper /\ ns[a].a \in DOMAIN ns /\ ns[a].b \in DOMAIN ns
         /\ ns[a].val = Values(ns[a].op, ns[ns[a].a].val, ns[ns[a].b].val)
         /\ ~ IsLit(ns[ns[a].a]) /\ ~ Regroups(ns, ns[a].op, ns[ns[a].a])
<1>1. ns[a].op \in Proper BY Ops1
<1>2. NodeOK(ns, a, ns[a]) /\ a \in 1 .. Len(ns) /\ Len(ns) \in Nat /\ DOMAIN ns = 1 .. Len(ns) BY NodeFacts
<1> QED BY <1>1, <1>2 DEF NodeOK, Regroups

(* (x + y) + z as x + (y + z).                                             *)
LEMMA RegroupRight ==
  ASSUME NEW ns, Graph(ns), NEW Q \in SUBSET Run, Typed(ns, Q),
         NEW op, Commutes(op), NEW a \in DOMAIN ns, NEW b \in DOMAIN ns, ns[a].op = op,
         NEW first, NEW second,
         Right(ns, Q, first, Values(op, ns[ns[a].b].val, ns[b].val)),
         first.end = "none" =>
           Right(first.nodes, Q, second,
                 Values(op, first.nodes[ns[a].a].val, first.nodes[first.node].val))
  PROVE  Right(ns, Q, IF first.end = "none" THEN second ELSE first,
               Values(op, ns[a].val, ns[b].val))
<1>1. PICK v : v = Values(op, ns[a].val, ns[b].val) OBVIOUS
<1>2. CASE first.end # "none"
  <2>1. Right(ns, Q, first, v) BY <1>2 DEF Right
  <2> QED BY <1>1, <1>2, <2>1
<1>3. CASE first.end = "none"
  <2>1. /\ ns[a].a \in DOMAIN ns /\ ns[a].b \in DOMAIN ns
        /\ ns[a].val = Values(op, ns[ns[a].a].val, ns[ns[a].b].val)
    BY Nested
  <2>2. PICK x : x = ns[ns[a].a].val OBVIOUS
  <2>3. PICK y : y = ns[ns[a].b].val OBVIOUS
  <2>4. PICK z : z = ns[b].val OBVIOUS
  <2>5. x \in [Run -> Int64] /\ y \in [Run -> Int64] /\ z \in [Run -> Int64]
    BY <2>1, <2>2, <2>3, <2>4, NodeFacts
  <2>6. PICK w : w = first.nodes[first.node].val OBVIOUS
  <2>7. first.nodes[ns[a].a].val = x /\ \A r \in Q : w[r] = Values(op, y, z)[r]
    BY <1>3, <2>1, <2>2, <2>3, <2>4, <2>6 DEF Right
  <2>8. ASSUME NEW r \in Q PROVE Values(op, x, w)[r] = v[r]
    <3>1. \A i, j : Defined(op, i, j) BY Ops1
    <3>2. op \in {"AddI", "MulI"} BY Ops1
    <3>3. v[r] = Apply(op, Apply(op, x[r], y[r]), z[r])
      <4>1. Values(op, x, y)[r] = Apply(op, x[r], y[r]) BY <3>1, ValuesAt
      <4>2. v[r] = Apply(op, ns[a].val[r], z[r]) BY <1>1, <2>4, <3>1, ValuesAt
      <4> QED BY <2>1, <2>2, <2>3, <4>1, <4>2
    <3>4. Values(op, x, w)[r] = Apply(op, x[r], Apply(op, y[r], z[r]))
      <4>1. w[r] = Apply(op, y[r], z[r]) BY <2>7, <3>1, ValuesAt
      <4>2. Values(op, x, w)[r] = Apply(op, x[r], w[r]) BY <3>1, ValuesAt
      <4> QED BY <4>1, <4>2
    <3>5. x[r] \in Int64 /\ y[r] \in Int64 /\ z[r] \in Int64 BY <2>5
    <3>6. \A i, j, k \in Int64 : Apply(op, Apply(op, i, j), k) = Apply(op, i, Apply(op, j, k))
      BY <3>2, Regrouped
    <3>7. Apply(op, Apply(op, x[r], y[r]), z[r]) = Apply(op, x[r], Apply(op, y[r], z[r]))
      BY <3>5, <3>6
    <3> QED BY <3>3, <3>4, <3>7, Zenon
  <2>9. Right(first.nodes, Q, second, Values(op, x, w)) BY <1>3, <2>6, <2>7
  <2>10. Right(first.nodes, Q, second, v) BY <2>8, <2>9, RightSame
  <2>11. Right(ns, Q, second, v) BY <2>10, RightAfter
  <2> QED BY <1>1, <1>3, <2>11
<1> QED BY <1>2, <1>3

(* x + y as y + x.                                                         *)
LEMMA SwapRight ==
  ASSUME NEW ns, Graph(ns), NEW Q \in SUBSET Run,
         NEW op, Commutes(op), NEW a \in DOMAIN ns, NEW b \in DOMAIN ns, NEW R,
         Right(ns, Q, R, Values(op, ns[b].val, ns[a].val))
  PROVE  Right(ns, Q, R, Values(op, ns[a].val, ns[b].val))
<1>1. ns[a].val \in [Run -> Int64] /\ ns[b].val \in [Run -> Int64] BY NodeFacts
<1>2. op \in {"AddI", "MulI"} /\ \A i, j : Defined(op, i, j) BY Ops1
<1>3. ASSUME NEW r \in Q
      PROVE  Values(op, ns[b].val, ns[a].val)[r] = Values(op, ns[a].val, ns[b].val)[r]
  <2>1. ns[a].val[r] \in Int64 /\ ns[b].val[r] \in Int64 BY <1>1
  <2>2. Values(op, ns[b].val, ns[a].val)[r] = Apply(op, ns[b].val[r], ns[a].val[r]) BY <1>2, ValuesAt
  <2>3. Values(op, ns[a].val, ns[b].val)[r] = Apply(op, ns[a].val[r], ns[b].val[r]) BY <1>2, ValuesAt
  <2> QED BY <1>2, <2>1, <2>2, <2>3, Regrouped
<1> QED BY <1>3, RightSame

(* x + x as x * 2.                                                         *)
LEMMA DoubleRight ==
  ASSUME NEW ns, Graph(ns), NEW Q \in SUBSET Run, Typed(ns, Q), NEW a \in DOMAIN ns,
         NEW two, two = Const(ns, 2), NEW second,
         Right(two.nodes, Q, second, Values("MulI", two.nodes[a].val, two.nodes[two.node].val))
  PROVE  Right(ns, Q, second, Values("AddI", ns[a].val, ns[a].val))
<1>1. 2 \in Int64 BY PeepholeAssumption, SizeIs DEF Int64
<1>2. Right(ns, Q, two, Always(2)) /\ two.end = "none" BY <1>1, ConstRight
<1>3. two.nodes[a] = ns[a] /\ \A r \in Q : two.nodes[two.node].val[r] = 2
  <2>1. \A r \in Q : Always(2)[r] = 2 BY <1>1, AlwaysType
  <2> QED BY <1>2, <2>1 DEF Right
<1>4. ns[a].val \in [Run -> Int64] BY NodeFacts
<1>5. \A i, j : Defined("MulI", i, j) /\ Defined("AddI", i, j) BY DEF Defined
<1>6. ASSUME NEW r \in Q
      PROVE  Values("MulI", two.nodes[a].val, two.nodes[two.node].val)[r]
               = Values("AddI", ns[a].val, ns[a].val)[r]
  <2>1. ns[a].val[r] \in Int64 BY <1>4
  <2>2. Values("MulI", two.nodes[a].val, two.nodes[two.node].val)[r] = Apply("MulI", ns[a].val[r], 2)
    BY <1>3, <1>5, ValuesAt
  <2>3. Values("AddI", ns[a].val, ns[a].val)[r] = Apply("AddI", ns[a].val[r], ns[a].val[r])
    BY <1>5, ValuesAt
  <2> QED BY <2>1, <2>2, <2>3, Doubled
<1>7. Right(two.nodes, Q, second, Values("AddI", ns[a].val, ns[a].val)) BY <1>6, RightSame
<1> QED BY <1>2, <1>7, RightAfter

(* A constant on the right: at most one more is met on the left, and then   *)
(* the two are folded.                                                     *)
LEMMA OneConstant ==
  ASSUME NEW ns, Graph(ns), NEW Q \in SUBSET Run, Typed(ns, Q), NEW op, Commutes(op),
         NEW a \in DOMAIN ns, NEW b \in DOMAIN ns, ~ IsLit(ns[a]), IsLit(ns[b])
  PROVE  \A R \in {CreateBin2(ns, op, a, b), CreateBin3(ns, op, a, b)} :
           Right(ns, Q, R, Values(op, ns[a].val, ns[b].val))
<1>1. PICK v : v = Values(op, ns[a].val, ns[b].val) OBVIOUS
<1>2. op \in Proper /\ \A i, j : Defined(op, i, j) BY Ops1
<1>3. a # b /\ ~ Swaps(op, ns[a], ns[b]) BY DEF Swaps
<1>4. ASSUME NEW s, NEW d, NEW first, NEW second,
             \/ /\ first = CreateBin1(ns, op, ns[a].b, b)
                /\ second = CreateBin1(first.nodes, op, ns[a].a, first.node)
             \/ /\ first = CreateBin2(ns, op, ns[a].b, b)
                /\ second = CreateBin2(first.nodes, op, ns[a].a, first.node),
             NEW g, g = IF first.end = "none" THEN second ELSE first
      PROVE  Right(ns, Q, BinRules(ns, op, a, b, s, g, d), v)
  <2>2. ASSUME Regroups(ns, op, ns[a]) PROVE Right(ns, Q, g, v)
    <3>1. ns[a].op = op /\ IsLit(ns[ns[a].b]) BY <2>2 DEF Regroups
    <3>2. ns[a].a \in DOMAIN ns /\ ns[a].b \in DOMAIN ns BY <3>1, Nested
    <3>3. Direct(ns, op, ns[a].b, b) BY <3>1 DEF Direct
    <3>4. /\ Right(ns, Q, first, Values(op, ns[ns[a].b].val, ns[b].val))
          /\ first.end = "none" => IsLit(first.nodes[first.node])
      BY <1>2, <1>4, <3>1, <3>2, <3>3, DirectCreation
    <3>5. ASSUME first.end = "none"
          PROVE  Right(first.nodes, Q, second,
                       Values(op, first.nodes[ns[a].a].val, first.nodes[first.node].val))
      <4>1. PICK ms : ms = first.nodes OBVIOUS
      <4>2. PICK c : c = first.node OBVIOUS
      <4>3. PICK x : x = ns[a].a OBVIOUS
      <4>4. Graph(ms) /\ Typed(ms, Q) /\ c \in DOMAIN ms /\ x \in DOMAIN ms /\ a \in DOMAIN ms /\ ms[a] = ns[a]
        BY <3>2, <3>4, <3>5, <4>1, <4>2, <4>3 DEF Right
      <4>5. ~ IsLit(ms[x]) /\ ~ Regroups(ms, op, ms[x]) BY <3>1, <4>3, <4>4, Nested
      <4>6. IsLit(ms[c]) BY <3>4, <3>5, <4>1, <4>2
      <4>7. Direct(ms, op, x, c) BY <4>5, <4>6 DEF Direct, Swaps
      <4>8. second \in {CreateBin1(ms, op, x, c), CreateBin2(ms, op, x, c)} BY <1>4, <4>1, <4>2, <4>3
      <4>9. Right(ms, Q, second, Values(op, ms[x].val, ms[c].val))
        BY <1>2, <4>4, <4>7, <4>8, DirectCreation
      <4> QED BY <4>1, <4>2, <4>3, <4>9
    <3>6. Right(ns, Q, IF first.end = "none" THEN second ELSE first, Values(op, ns[a].val, ns[b].val))
      BY <3>1, <3>4, <3>5, RegroupRight
    <3> QED BY <1>1, <1>4, <3>6
  <2> QED BY <1>1, <1>2, <1>3, <2>2, RulesRight
<1>5. Right(ns, Q, CreateBin2(ns, op, a, b), v)
  <2>1. PICK first : first = CreateBin1(ns, op, ns[a].b, b) OBVIOUS
  <2>2. PICK second : second = CreateBin1(first.nodes, op, ns[a].a, first.node) OBVIOUS
  <2>3. \E s, d : CreateBin2(ns, op, a, b)
          = BinRules(ns, op, a, b, s, Onto(CreateBin1, CreateBin1(ns, op, ns[a].b, b), op, ns[a].a), d)
    BY Zenon DEF CreateBin2, Rewrite
  <2>4. PICK g : g = Onto(CreateBin1, CreateBin1(ns, op, ns[a].b, b), op, ns[a].a) OBVIOUS
  <2>5. PICK s, d : CreateBin2(ns, op, a, b) = BinRules(ns, op, a, b, s, g, d)
    BY <2>3, <2>4
  <2>6. g = IF first.end = "none" THEN second ELSE first BY <2>1, <2>2, <2>4 DEF Onto
  <2>7. Right(ns, Q, BinRules(ns, op, a, b, s, g, d), v) BY <1>4, <2>1, <2>2, <2>6, Zenon
  <2> QED BY <2>5, <2>7
<1>6. Right(ns, Q, CreateBin3(ns, op, a, b), v)
  <2>1. PICK first : first = CreateBin2(ns, op, ns[a].b, b) OBVIOUS
  <2>2. PICK second : second = CreateBin2(first.nodes, op, ns[a].a, first.node) OBVIOUS
  <2>3. \E s, d : CreateBin3(ns, op, a, b)
          = BinRules(ns, op, a, b, s, Onto(CreateBin2, CreateBin2(ns, op, ns[a].b, b), op, ns[a].a), d)
    BY Zenon DEF CreateBin3, Rewrite
  <2>4. PICK g : g = Onto(CreateBin2, CreateBin2(ns, op, ns[a].b, b), op, ns[a].a) OBVIOUS
  <2>5. PICK s, d : CreateBin3(ns, op, a, b) = BinRules(ns, op, a, b, s, g, d)
    BY <2>3, <2>4
  <2>6. g = IF first.end = "none" THEN second ELSE first BY <2>1, <2>2, <2>4 DEF Onto
  <2>7. Right(ns, Q, BinRules(ns, op, a, b, s, g, d), v) BY <1>4, <2>1, <2>2, <2>6, Zenon
  <2> QED BY <2>5, <2>7
<1> QED BY <1>1, <1>5, <1>6

(* A node twice is a product with 2, of which no more than this is asked.  *)
LEMMA DoublingRight ==
  ASSUME NEW ns, Graph(ns), NEW Q \in SUBSET Run, Typed(ns, Q), NEW a \in DOMAIN ns, ~ IsLit(ns[a])
  PROVE  \A R \in {Onto(CreateBin2, Const(ns, 2), "MulI", a), Onto(CreateBin3, Const(ns, 2), "MulI", a)} :
           Right(ns, Q, R, Values("AddI", ns[a].val, ns[a].val))
<1>1. PICK two : two = Const(ns, 2) OBVIOUS
<1>2. 2 \in Int64 BY PeepholeAssumption, SizeIs DEF Int64
<1>3. /\ Right(ns, Q, two, Always(2)) /\ two.end = "none"
      /\ IsLit(two.nodes[two.node])
  BY <1>1, <1>2, ConstRight
<1>4. PICK ms : ms = two.nodes OBVIOUS
<1>5. PICK c : c = two.node OBVIOUS
<1>6. Graph(ms) /\ Typed(ms, Q) /\ a \in DOMAIN ms /\ ms[a] = ns[a] /\ c \in DOMAIN ms /\ IsLit(ms[c])
  BY <1>3, <1>4, <1>5 DEF Right
<1>7. Commutes("MulI") BY DEF Commutes
<1>8. \A R \in {CreateBin2(ms, "MulI", a, c), CreateBin3(ms, "MulI", a, c)} :
        Right(ms, Q, R, Values("MulI", ms[a].val, ms[c].val))
  BY <1>6, <1>7, OneConstant
<1>9. \A R \in {CreateBin2(ms, "MulI", a, c), CreateBin3(ms, "MulI", a, c)} :
        Right(ns, Q, R, Values("AddI", ns[a].val, ns[a].val))
  BY <1>1, <1>4, <1>5, <1>8, DoubleRight
<1>10. Onto(CreateBin2, Const(ns, 2), "MulI", a) = CreateBin2(ms, "MulI", a, c)
  BY <1>1, <1>3, <1>4, <1>5 DEF Onto
<1>11. Onto(CreateBin3, Const(ns, 2), "MulI", a) = CreateBin3(ms, "MulI", a, c)
  BY <1>1, <1>3, <1>4, <1>5 DEF Onto
<1> QED BY <1>9, <1>10, <1>11

(* Two nodes that are not regrouped: either is a constant, or none is.     *)
LEMMA NotRegrouped ==
  ASSUME NEW ns, Graph(ns), NEW Q \in SUBSET Run, Typed(ns, Q), NEW op, Commutes(op),
         NEW a \in DOMAIN ns, NEW b \in DOMAIN ns, ~ Regroups(ns, op, ns[a])
  PROVE  Right(ns, Q, CreateBin3(ns, op, a, b), Values(op, ns[a].val, ns[b].val))
<1>1. PICK v : v = Values(op, ns[a].val, ns[b].val) OBVIOUS
<1>2. op \in Proper /\ \A i, j : Defined(op, i, j) BY Ops1
<1>3. PICK s : s = CreateBin2(ns, op, b, a) OBVIOUS
<1>4. PICK d : d = Onto(CreateBin2, Const(ns, 2), "MulI", a) OBVIOUS
<1>5. \E g : CreateBin3(ns, op, a, b) = BinRules(ns, op, a, b, s, g, d)
  <2>1. \E g : CreateBin3(ns, op, a, b)
                 = BinRules(ns, op, a, b, CreateBin2(ns, op, b, a), g, Onto(CreateBin2, Const(ns, 2), "MulI", a))
    BY Zenon DEF CreateBin3, Rewrite
  <2> QED BY <1>3, <1>4, <2>1
<1>6. PICK g : CreateBin3(ns, op, a, b) = BinRules(ns, op, a, b, s, g, d) BY <1>5
<1>7. ASSUME Swaps(op, ns[a], ns[b]) PROVE Right(ns, Q, s, v)
  <2>1. IsLit(ns[a]) /\ ~ IsLit(ns[b]) BY <1>7 DEF Swaps
  <2>2. Right(ns, Q, s, Values(op, ns[b].val, ns[a].val)) BY <1>3, <2>1, OneConstant
  <2> QED BY <1>1, <2>2, SwapRight
<1>8. ASSUME op = "AddI", a = b, ~ IsLit(ns[a]) PROVE Right(ns, Q, d, v)
  <2>1. Right(ns, Q, d, Values("AddI", ns[a].val, ns[a].val)) BY <1>4, <1>8, DoublingRight
  <2> QED BY <1>1, <1>8, <2>1
<1>9. Right(ns, Q, BinRules(ns, op, a, b, s, g, d), v) BY <1>1, <1>2, <1>7, <1>8, RulesRight
<1> QED BY <1>1, <1>6, <1>9

(* sea_create_bin_op: the rewriting of a new node ends within four calls    *)
(* that are open at a time, and leaves what the node means.                *)
LEMMA BinRight ==
  ASSUME NEW ns, Graph(ns), NEW Q \in SUBSET Run, Typed(ns, Q),
         NEW op \in Proper, NEW a \in DOMAIN ns, NEW b \in DOMAIN ns,
         \A r \in Q : Defined(op, ns[a].val[r], ns[b].val[r])
  PROVE  Right(ns, Q, CreateBin(ns, op, a, b), Values(op, ns[a].val, ns[b].val))
<1>1. PICK v : v = Values(op, ns[a].val, ns[b].val) OBVIOUS
<1>2. PICK s : s = CreateBin3(ns, op, b, a) OBVIOUS
<1>3. PICK first : first = CreateBin3(ns, op, ns[a].b, b) OBVIOUS
<1>4. PICK second : second = CreateBin3(first.nodes, op, ns[a].a, first.node) OBVIOUS
<1>5. PICK g : g = IF first.end = "none" THEN second ELSE first OBVIOUS
<1>6. PICK d : d = Onto(CreateBin3, Const(ns, 2), "MulI", a) OBVIOUS
<1>7. CreateBin(ns, op, a, b) = BinRules(ns, op, a, b, s, g, d)
  <2>1. g = Onto(CreateBin3, CreateBin3(ns, op, ns[a].b, b), op, ns[a].a) BY <1>3, <1>4, <1>5 DEF Onto
  <2>2. CreateBin(ns, op, a, b)
          = BinRules(ns, op, a, b, CreateBin3(ns, op, b, a),
                     Onto(CreateBin3, CreateBin3(ns, op, ns[a].b, b), op, ns[a].a),
                     Onto(CreateBin3, Const(ns, 2), "MulI", a))
    BY Zenon DEF CreateBin, Rewrite
  <2> QED BY <1>2, <1>6, <2>1, <2>2
<1>8. ASSUME Swaps(op, ns[a], ns[b]) PROVE Right(ns, Q, s, v)
  <2>1. IsLit(ns[a]) /\ ~ IsLit(ns[b]) /\ Commutes(op) BY <1>8 DEF Swaps
  <2>2. Right(ns, Q, s, Values(op, ns[b].val, ns[a].val)) BY <1>2, <2>1, OneConstant
  <2> QED BY <1>1, <2>1, <2>2, SwapRight
<1>9. ASSUME Regroups(ns, op, ns[a]) PROVE Right(ns, Q, g, v)
  <2>1. Commutes(op) /\ ns[a].op = op /\ IsLit(ns[ns[a].b]) BY <1>9 DEF Regroups
  <2>2. ns[a].a \in DOMAIN ns /\ ns[a].b \in DOMAIN ns BY <2>1, Nested
  <2>3. ~ Regroups(ns, op, ns[ns[a].b]) BY <2>1, Ops1 DEF Regroups, IsLit
  <2>4. Right(ns, Q, first, Values(op, ns[ns[a].b].val, ns[b].val)) BY <1>3, <2>1, <2>2, <2>3, NotRegrouped
  <2>5. ASSUME first.end = "none"
        PROVE  Right(first.nodes, Q, second,
                     Values(op, first.nodes[ns[a].a].val, first.nodes[first.node].val))
    <3>1. PICK ms : ms = first.nodes OBVIOUS
    <3>2. PICK c : c = first.node OBVIOUS
    <3>3. PICK x : x = ns[a].a OBVIOUS
    <3>4. Graph(ms) /\ Typed(ms, Q) /\ c \in DOMAIN ms /\ x \in DOMAIN ms /\ a \in DOMAIN ms /\ ms[a] = ns[a]
      BY <2>2, <2>4, <2>5, <3>1, <3>2, <3>3 DEF Right
    <3>5. ~ Regroups(ms, op, ms[x]) BY <2>1, <3>3, <3>4, Nested
    <3>6. Right(ms, Q, CreateBin3(ms, op, x, c), Values(op, ms[x].val, ms[c].val))
      BY <2>1, <3>4, <3>5, NotRegrouped
    <3> QED BY <1>4, <3>1, <3>2, <3>3, <3>6
  <2>6. Right(ns, Q, IF first.end = "none" THEN second ELSE first, Values(op, ns[a].val, ns[b].val))
    BY <2>1, <2>4, <2>5, RegroupRight
  <2> QED BY <1>1, <1>5, <2>6
<1>10. ASSUME op = "AddI", a = b, ~ IsLit(ns[a]) PROVE Right(ns, Q, d, v)
  <2>1. Right(ns, Q, d, Values("AddI", ns[a].val, ns[a].val)) BY <1>6, <1>10, DoublingRight
  <2> QED BY <1>1, <1>10, <2>1
<1>11. Right(ns, Q, BinRules(ns, op, a, b, s, g, d), v) BY <1>1, <1>8, <1>9, <1>10, RulesRight
<1> QED BY <1>1, <1>7, <1>11

-----------------------------------------------------------------------------
(* Programs whose types hold: a remainder is given a range that may be      *)
(* wrong, and so is the negation of what nothing is known of.              *)
SoundOps == "ModI" \notin Ops /\ ("NegI" \in Ops => ~ PhiKnown)

(* Every node is right, and every expression means what its node computes,  *)
(* on the runs that have not trapped.                                      *)
IInv ==
  /\ Graph(nodes)
  /\ runs \in SUBSET Run
  /\ Typed(nodes, runs)
  /\ exprs \in Seq([node : Nat, means : [Run -> Int64]])
  /\ \A e \in DOMAIN exprs :
       /\ exprs[e].node \in DOMAIN nodes
       /\ \A r \in runs : nodes[exprs[e].node].val[r] = exprs[e].means[r]
  /\ fault \in {"none", "trap"}

LEMMA InitIInv == Init => IInv
<1> SUFFICES ASSUME Init PROVE IInv OBVIOUS
<1>1. PICK n \in Nat : DOMAIN Inputs = 1 .. n /\ n = Len(Inputs) BY PeepholeAssumption
<1>2. \A k \in 1 .. n : Inputs[k] \in {S64, Bot, Null} BY <1>1, PeepholeAssumption
<1>3. \A k \in 1 .. n : Input(k) \in [Run -> Int64] /\ \A r \in Run : Input(k)[r] \in Int64
  BY <1>1 DEF Input, Run
<1>4. /\ DOMAIN nodes = 1 .. n
      /\ \A k \in 1 .. n : nodes[k] = [op |-> "Input", a |-> 0, b |-> 0, lit |-> k,
                                      type |-> Inputs[k], val |-> Input(k)]
  BY <1>1 DEF Init
<1>5. {S64, Bot, Null} \subseteq Types BY Kinds DEF Types
<1>6. "Input" \in NodeOps /\ "Input" \notin Unary \cup Proper BY Ops1 DEF NodeOps
<1>7. \A k \in 1 .. n : nodes[k] \in NodeRec
  BY <1>2, <1>3, <1>4, <1>5, <1>6 DEF NodeRec
<1>8. nodes \in Seq(NodeRec)
  <2>1. nodes = [k \in 1 .. n |-> nodes[k]] BY <1>1, <1>4 DEF Init
  <2> QED BY <1>7, <2>1
<1>9. \A k \in 1 .. n : NodeOK(nodes, k, nodes[k])
  BY <1>1, <1>2, <1>4, <1>6 DEF NodeOK, PhiKnown
<1>10. \A k \in 1 .. n, v \in Int64 : Has(Inputs[k], v)
  <2>1. \A v \in Int64 : Has(S64, v) /\ Has(Bot, v) /\ Has(Null, v)
    BY Kinds, SizeIs DEF Has, S64, IntType, Int64
  <2> QED BY <1>2, <2>1
<1>11. Typed(nodes, runs) BY <1>3, <1>4, <1>10 DEF Typed, Init
<1>12. /\ exprs \in Seq([node : Nat, means : [Run -> Int64]])
       /\ \A e \in DOMAIN exprs : e \in 1 .. n /\ exprs[e].node = e /\ exprs[e].means = Input(e)
  <2>1. exprs = [k \in 1 .. n |-> [node |-> k, means |-> Input(k)]] BY <1>1 DEF Init
  <2>2. \A k \in 1 .. n : exprs[k] \in [node : Nat, means : [Run -> Int64]] BY <1>3, <2>1
  <2>3. exprs = [k \in 1 .. n |-> exprs[k]] BY <2>1
  <2> QED BY <2>1, <2>2, <2>3
<1>13. Graph(nodes) BY <1>4, <1>8, <1>9 DEF Graph
<1>14. runs = Run /\ fault = "none" BY DEF Init
<1> QED BY <1>4, <1>11, <1>12, <1>13, <1>14 DEF IInv

(* An expression whose node is right is added, or the compiler traps.      *)
LEMMA ParseKeeps ==
  ASSUME IInv, NEW created, NEW means \in [Run -> Int64], NEW w,
         Parse(created, means), runs' \in SUBSET runs,
         Right(nodes, runs', created, w), \A r \in runs' : w[r] = means[r]
  PROVE  IInv'
<1>1. Graph(nodes') /\ Typed(nodes', runs') /\ fault' \in {"none", "trap"} BY DEF Parse, Right
<1>2. runs' \in SUBSET Run BY DEF IInv
<1>3. ASSUME NEW e \in DOMAIN exprs
      PROVE  /\ exprs[e].node \in DOMAIN nodes'
             /\ \A r \in runs' : nodes'[exprs[e].node].val[r] = exprs[e].means[r]
  BY DEF IInv, Parse, Right
<1>4. CASE created.end = "none"
  <2>1. PICK x : x = [node |-> created.node, means |-> means] OBVIOUS
  <2>2. created.node \in DOMAIN nodes' /\ \A r \in runs' : nodes'[created.node].val[r] = means[r]
    BY <1>4 DEF Parse, Right
  <2>3. created.node \in Nat BY <1>1, <2>2, NodeFacts
  <2>4. x \in [node : Nat, means : [Run -> Int64]] /\ x.node = created.node /\ x.means = means
    BY <2>1, <2>3
  <2>5. exprs' = Append(exprs, x) BY <1>4, <2>1 DEF Parse
  <2>6. exprs \in Seq([node : Nat, means : [Run -> Int64]]) BY DEF IInv
  <2>7. /\ exprs' \in Seq([node : Nat, means : [Run -> Int64]])
        /\ \A e \in DOMAIN exprs' : (e \in DOMAIN exprs /\ exprs'[e] = exprs[e]) \/ exprs'[e] = x
    BY <2>4, <2>5, <2>6
  <2>8. \A e \in DOMAIN exprs' :
          /\ exprs'[e].node \in DOMAIN nodes'
          /\ \A r \in runs' : nodes'[exprs'[e].node].val[r] = exprs'[e].means[r]
    BY <1>3, <2>2, <2>4, <2>7
  <2> QED BY <1>1, <1>2, <2>7, <2>8 DEF IInv
<1>5. CASE created.end # "none"
  <2>1. exprs' = exprs BY <1>5 DEF Parse
  <2> QED BY <1>1, <1>2, <1>3, <2>1 DEF IInv
<1> QED BY <1>4, <1>5

LEMMA LiteralKeeps == ASSUME IInv, Literal PROVE IInv'
<1>1. PICK v \in Literals : Parse(Const(nodes, v), Always(v)) BY DEF Literal
<1>2. v \in Int64 BY PeepholeAssumption, SizeIs DEF Int64
<1>3. runs' = runs BY DEF Literal
<1>4. Right(nodes, runs', Const(nodes, v), Always(v)) BY <1>2, <1>3, ConstRight DEF IInv
<1>5. Always(v) \in [Run -> Int64] BY <1>2, AlwaysType
<1> QED BY <1>1, <1>3, <1>4, <1>5, ParseKeeps

LEMMA MeansType ==
  ASSUME IInv, NEW e \in DOMAIN exprs
  PROVE  exprs[e].means \in [Run -> Int64]
<1>1. PICK S : S = [node : Nat, means : [Run -> Int64]] OBVIOUS
<1>2. exprs \in Seq(S) BY <1>1 DEF IInv
<1>3. exprs[e] \in S BY <1>2
<1> QED BY <1>1, <1>3

LEMMA UnaryKeeps == ASSUME SoundOps, IInv, UnaryExpr PROVE IInv'
<1>1. PICK op \in Ops \cap Unary, i \in DOMAIN exprs :
        Parse(CreateUnary(nodes, op, exprs[i].node), Values(op, exprs[i].means, Always(0)))
  BY DEF UnaryExpr
<1>2. runs' = runs BY DEF UnaryExpr
<1>3. PICK a : a = exprs[i].node OBVIOUS
<1>4. PICK m : m = exprs[i].means OBVIOUS
<1>5. /\ Graph(nodes) /\ runs \in SUBSET Run /\ Typed(nodes, runs) /\ a \in DOMAIN nodes
      /\ \A r \in runs : nodes[a].val[r] = m[r]
      /\ m \in [Run -> Int64]
  BY <1>3, <1>4, MeansType DEF IInv
<1>6. op \in Unary /\ (op = "NegI" => ~ PhiKnown) BY DEF SoundOps
<1>7. PICK z : z = Always(0) OBVIOUS
<1>8. z \in [Run -> Int64] BY <1>7, Kinds, AlwaysType
<1>9. PICK w : w = Values(op, nodes[a].val, z) OBVIOUS
<1>10. PICK means : means = Values(op, m, z) OBVIOUS
<1>11. means \in [Run -> Int64] BY <1>5, <1>6, <1>8, <1>10, ValuesType
<1>12. \A r \in runs : w[r] = means[r] BY <1>5, <1>9, <1>10 DEF Values
<1>13. PICK created : created = CreateUnary(nodes, op, a) OBVIOUS
<1>14. Right(nodes, runs, created, w) BY <1>5, <1>6, <1>7, <1>9, <1>13, UnaryRight
<1>15. Parse(created, means) BY <1>1, <1>3, <1>4, <1>7, <1>10, <1>13
<1> QED BY <1>2, <1>11, <1>12, <1>14, <1>15, ParseKeeps

LEMMA BinaryKeeps == ASSUME SoundOps, IInv, BinaryExpr PROVE IInv'
<1>1. PICK op \in Ops \cap Binary, i \in DOMAIN exprs, j \in DOMAIN exprs :
        /\ Parse(CreateBin(nodes, op, exprs[i].node, exprs[j].node),
                 Values(op, exprs[i].means, exprs[j].means))
        /\ runs' = {r \in runs : Defined(op, exprs[i].means[r], exprs[j].means[r])}
  BY DEF BinaryExpr
<1>2. PICK a : a = exprs[i].node OBVIOUS
<1>3. PICK b : b = exprs[j].node OBVIOUS
<1>4. PICK x : x = exprs[i].means OBVIOUS
<1>5. PICK y : y = exprs[j].means OBVIOUS
<1>6. /\ Graph(nodes) /\ runs \in SUBSET Run /\ Typed(nodes, runs)
      /\ a \in DOMAIN nodes /\ b \in DOMAIN nodes
      /\ \A r \in runs : nodes[a].val[r] = x[r] /\ nodes[b].val[r] = y[r]
      /\ x \in [Run -> Int64] /\ y \in [Run -> Int64]
  BY <1>2, <1>3, <1>4, <1>5, MeansType DEF IInv
<1>7. op \in Proper BY DEF SoundOps, Proper
<1>8. runs' \in SUBSET runs /\ \A r \in runs' : Defined(op, x[r], y[r]) BY <1>1, <1>4, <1>5
<1>9. Typed(nodes, runs') BY <1>6, <1>8 DEF Typed
<1>10. PICK w : w = Values(op, nodes[a].val, nodes[b].val) OBVIOUS
<1>11. PICK means : means = Values(op, x, y) OBVIOUS
<1>12. means \in [Run -> Int64] BY <1>6, <1>7, <1>11, ValuesType
<1>13. \A r \in runs : w[r] = means[r] BY <1>6, <1>10, <1>11 DEF Values
<1>14. PICK created : created = CreateBin(nodes, op, a, b) OBVIOUS
<1>15. \A r \in runs' : Defined(op, nodes[a].val[r], nodes[b].val[r]) BY <1>6, <1>8
<1>16. runs' \in SUBSET Run BY <1>6, <1>8
<1>17. Right(nodes, runs', created, w) BY <1>6, <1>7, <1>9, <1>10, <1>14, <1>15, <1>16, BinRight
<1>18. Parse(created, means) BY <1>1, <1>2, <1>3, <1>4, <1>5, <1>11, <1>14
<1> QED BY <1>8, <1>12, <1>13, <1>17, <1>18, ParseKeeps

LEMMA AlwaysIInv == ASSUME SoundOps PROVE Spec => []IInv
<1>1. IInv /\ [Next]_vars => IInv'
  <2> SUFFICES ASSUME IInv, [Next]_vars PROVE IInv' OBVIOUS
  <2>1. CASE Literal BY <2>1, LiteralKeeps
  <2>2. CASE UnaryExpr BY <2>2, UnaryKeeps
  <2>3. CASE BinaryExpr BY <2>3, BinaryKeeps
  <2>4. CASE UNCHANGED vars BY <2>4 DEF vars, IInv, Graph, NodeOK, Typed, IsLit
  <2> QED BY <2>1, <2>2, <2>3, <2>4 DEF Next
<1> QED BY <1>1, InitIInv, PTL DEF Spec

(* The nodes are well formed, and the compiler ends either with a node or   *)
(* by dividing where it traps: the rewriting of sea_peephole_opt, which     *)
(* calls itself, is over within four calls that are open at a time.        *)
THEOREM TypesCorrect == ASSUME SoundOps PROVE Spec => []TypeOK
<1>1. IInv => TypeOK
  <2> SUFFICES ASSUME IInv PROVE TypeOK OBVIOUS
  <2>1. ASSUME NEW k \in DOMAIN nodes
        PROVE  LET n == nodes[k] IN
               /\ n.a \in 0 .. k - 1 /\ n.b \in 0 .. k - 1
               /\ n.val \in [Run -> Int64]
               /\ n.type.min \in Int64 /\ n.type.max \in Int64
    <3>1. PICK n : n = nodes[k] OBVIOUS
    <3>2. /\ k \in 1 .. Len(nodes) /\ Len(nodes) \in Nat /\ n.op \in NodeOps /\ n.type \in Types
          /\ n.val \in [Run -> Int64] /\ NodeOK(nodes, k, n)
      BY <3>1, NodeFacts DEF IInv
    <3>3. n.a \in 0 .. k - 1 /\ n.b \in 0 .. k - 1 BY <3>2 DEF NodeOK, NodeOps
    <3>4. n.type.min \in Int64 /\ n.type.max \in Int64
      BY <3>2, Kinds DEF Types, Bot, Null
    <3> QED BY <3>1, <3>2, <3>3, <3>4
  <2> QED BY <2>1 DEF IInv, TypeOK
<1> QED BY <1>1, AlwaysIInv, PTL

(* The type that the compiler gives to a node holds what the node computes. *)
THEOREM TypesSound == ASSUME SoundOps PROVE Spec => []TypeSound
<1>1. IInv => TypeSound BY DEF IInv, Typed, TypeSound
<1> QED BY <1>1, AlwaysIInv, PTL

(* Types, sharing of nodes and the rewriting of new ones leave the meaning  *)
(* of the source, on every run that does not trap.                         *)
THEOREM MeaningsKept == ASSUME SoundOps PROVE Spec => []MeaningKept
<1>1. IInv => MeaningKept BY DEF IInv, MeaningKept
<1> QED BY <1>1, AlwaysIInv, PTL

(* The rules reach the form they work towards: a constant is a ConstInt, it *)
(* stands on the right, and is regrouped with those before it.             *)
THEOREM GraphCanonical == ASSUME SoundOps PROVE Spec => []Canonical
<1>1. IInv => Canonical
  <2> SUFFICES ASSUME IInv PROVE Canonical OBVIOUS
  <2>1. SUFFICES ASSUME NEW k \in DOMAIN nodes, NEW n, n = nodes[k]
                 PROVE  /\ n.op \in Unary \cup Binary => ~ IsConst(n.type)
                        /\ Commutes(n.op) => ~ IsLit(nodes[n.a])
                        /\ Commutes(n.op) /\ nodes[n.a].op = n.op => ~ IsLit(nodes[nodes[n.a].b])
    BY DEF Canonical
  <2>2. NodeOK(nodes, k, n) /\ n.op \in NodeOps BY <2>1, NodeFacts DEF IInv
  <2>3. n.op \in Unary \cup Binary => n.op \in Unary \cup Proper
    BY <2>2 DEF NodeOps, Unary, Proper, Binary, Compare
  <2>4. Commutes(n.op) => n.op \in Proper BY Ops1
  <2> QED BY <2>2, <2>3, <2>4 DEF NodeOK
<1> QED BY <1>1, AlwaysIInv, PTL
=============================================================================
