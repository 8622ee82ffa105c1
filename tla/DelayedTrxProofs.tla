-------------------------- MODULE DelayedTrxProofs --------------------------
(***************************************************************************)
(* Delayed starts for every width of the clock, delay and lag, among them  *)
(* the DW1000's own: five bytes of eight bits, of which TLC's clock has    *)
(* three of two.                                                           *)
(***************************************************************************)
EXTENDS DelayedTrx, WellFoundedInduction, TLAPS

-----------------------------------------------------------------------------
(***************************************************************************)
(* Timestamps: the weights of the bytes, and the bytes put together again. *)
(***************************************************************************)
\* A set of naturals that is not empty has a least element.
LEMMA Least ==
  ASSUME NEW T \in SUBSET Nat, T # {}
  PROVE  \E x \in T : \A y \in T : x <= y
<1>1. PICK x \in T : \A y \in T : ~ (<<y, x>> \in OpToRel(<, Nat))
  BY NatLessThanWellFounded, WFMin
<1>2. ASSUME NEW y \in T PROVE x <= y
  <2>1. ~ (<<y, x>> \in OpToRel(<, Nat))
    BY <1>1
  <2>2. ~ (y < x)
    BY <2>1 DEF OpToRel
  <2> QED BY <2>2
<1> QED BY <1>2

\* The recursion behind Power.
PowersUpTo(n, f) == f = [i \in 0 .. n |-> IF i = 0 THEN 1 ELSE Byte * f[i - 1]]

LEMMA PowersExist == \A n \in 0 .. Bytes : \E f : PowersUpTo(n, f)
<1> DEFINE Bad == {n \in 0 .. Bytes : ~ \E f : PowersUpTo(n, f)}
<1>0. Bytes \in Nat
  BY DeviceTimeAssumption
<1> SUFFICES ASSUME Bad # {} PROVE FALSE
  OBVIOUS
<1>1. PICK n \in Bad : \A m \in Bad : n <= m
  <2>1. Bad \in SUBSET Nat
    BY <1>0
  <2> HIDE DEF Bad
  <2> QED BY <2>1, Least
<1>2. n \in 0 .. Bytes
  OBVIOUS
<1>3. n # 0
  <2> DEFINE f == [i \in 0 .. 0 |-> 1]
  <2>1. f = [i \in 0 .. 0 |-> IF i = 0 THEN 1 ELSE Byte * f[i - 1]]
    OBVIOUS
  <2>2. PowersUpTo(0, f)
    BY <2>1 DEF PowersUpTo
  <2> QED BY <2>2
<1>4. PICK f : PowersUpTo(n - 1, f)
  BY <1>0, <1>1, <1>2, <1>3
<1> DEFINE g == [i \in 0 .. n |-> IF i = n THEN Byte * f[n - 1] ELSE f[i]]
<1>5. ASSUME NEW i \in 0 .. n PROVE g[i] = IF i = 0 THEN 1 ELSE Byte * g[i - 1]
  <2>1. \A k \in 0 .. n - 1 : f[k] = IF k = 0 THEN 1 ELSE Byte * f[k - 1]
    BY <1>4 DEF PowersUpTo
  <2>2. CASE i = n
    BY <2>2, <1>2, <1>3
  <2>3. CASE i # n
    BY <2>1, <2>3, <1>2, <1>3
  <2> QED BY <2>2, <2>3
<1>6. PowersUpTo(n, g)
  <2>1. g = [i \in 0 .. n |-> g[i]]
    OBVIOUS
  <2> HIDE DEF g
  <2>2. [i \in 0 .. n |-> g[i]] = [i \in 0 .. n |-> IF i = 0 THEN 1 ELSE Byte * g[i - 1]]
    BY <1>5
  <2> QED BY <2>1, <2>2 DEF PowersUpTo
<1> QED BY <1>6

LEMMA PowerFunction == PowersUpTo(Bytes, Power)
<1>1. \E f : PowersUpTo(Bytes, f)
  BY PowersExist, DeviceTimeAssumption
<1> QED BY Zenon, <1>1 DEF Power, PowersUpTo

LEMMA Powers ==
  /\ Power[0] = 1
  /\ \A i \in 0 .. Bytes - 1 : Power[i + 1] = Byte * Power[i]
  /\ \A i \in 0 .. Bytes : Power[i] \in Nat \ {0}
<1>0. Bytes \in Nat /\ Byte \in Nat \ {0}
  BY DeviceTimeAssumption
<1>1. \A i \in 0 .. Bytes : Power[i] = IF i = 0 THEN 1 ELSE Byte * Power[i - 1]
  BY PowerFunction DEF PowersUpTo
<1>2. Power[0] = 1
  BY <1>0, <1>1
<1>3. \A i \in 0 .. Bytes - 1 : Power[i + 1] = Byte * Power[i]
  BY <1>0, <1>1
<1>4. \A i \in 0 .. Bytes : Power[i] \in Nat \ {0}
  <2> DEFINE Bad == {i \in 0 .. Bytes : Power[i] \notin Nat \ {0}}
  <2> SUFFICES ASSUME Bad # {} PROVE FALSE
    OBVIOUS
  <2>1. PICK n \in Bad : \A m \in Bad : n <= m
    <3>1. Bad \in SUBSET Nat
      BY <1>0
    <3> HIDE DEF Bad
    <3> QED BY <3>1, Least
  <2>2. n # 0
    BY <1>2
  <2>3. n - 1 \in 0 .. Bytes /\ n - 1 \notin Bad
    BY <1>0, <2>1, <2>2
  <2>4. Power[n - 1] \in Nat \ {0}
    BY <2>3
  <2>5. \A p \in Nat \ {0} : Byte * p \in Nat \ {0}
    BY <1>0
  <2>6. Power[n] = Byte * Power[n - 1]
    BY <1>1, <2>2
  <2> QED BY <2>4, <2>5, <2>6
<1> QED BY <1>2, <1>3, <1>4

\* A quotient and its remainder.
LEMMA Division ==
  ASSUME NEW a \in Nat, NEW n \in Nat \ {0}
  PROVE  /\ a \div n \in Nat /\ a % n \in 0 .. n - 1
         /\ a = n * (a \div n) + (a % n)
OBVIOUS

LEMMA Divides ==
  ASSUME NEW a \in Nat, NEW n \in Nat \ {0}
  PROVE  \E q \in Nat, r \in 0 .. n - 1 : q = a \div n /\ a = n * q + r
<1> DEFINE q == a \div n
           r == a % n
<1>1. q \in Nat /\ r \in 0 .. n - 1 /\ q = a \div n /\ a = n * q + r
  BY ONLY Division, a \in Nat, n \in Nat \ {0}
<1> HIDE DEF q, r
<1> QED BY ONLY <1>1

\* There is only one such pair.
LEMMA Quotient ==
  ASSUME NEW n \in Nat \ {0}, NEW q \in Nat, NEW r \in 0 .. n - 1
  PROVE  (n * q + r) \div n = q /\ (n * q + r) % n = r
OBVIOUS

LEMMA Product == ASSUME NEW a \in Int, NEW b \in Int, NEW c \in Int
                 PROVE  (a * b) * c = a * (b * c) /\ (a + b) * c = a * c + b * c /\ a * b = b * a
OBVIOUS

LEMMA Larger == ASSUME NEW a \in Int, NEW b \in Int, NEW c \in Nat, a <= b PROVE a * c <= b * c
OBVIOUS

\* The digits of a number, one after the other.
LEMMA Digit ==
  ASSUME NEW t \in Nat, NEW p \in Nat \ {0}
  PROVE  t \div p = (t \div (Byte * p)) * Byte + ((t \div p) % Byte)
<1>0. Byte \in Nat \ {0}
  BY DeviceTimeAssumption
<1> PICK q \in Nat, s \in 0 .. p - 1 : q = t \div p /\ t = p * q + s
  BY Division
<1> PICK d \in Nat, r \in 0 .. Byte - 1 : d = q \div Byte /\ r = q % Byte /\ q = Byte * d + r
  <2>1. q \div Byte \in Nat /\ q % Byte \in 0 .. Byte - 1 /\ q = Byte * (q \div Byte) + (q % Byte)
    BY ONLY <1>0, Division, q \in Nat
  <2> QED BY <2>1
<1> PICK bp \in Nat \ {0} : bp = Byte * p
  BY <1>0
<1> PICK rp \in Nat : rp = r * p
  OBVIOUS
<1>1. t = bp * d + (rp + s)
  <2>1. p * q = (Byte * d) * p + r * p
    <3> PICK bd \in Nat : bd = Byte * d
      BY <1>0
    <3>1. (bd + r) * p = bd * p + r * p /\ p * q = q * p
      BY ONLY Product, bd \in Int, r \in Int, p \in Int, q \in Int
    <3> QED BY <3>1
  <2>2. (Byte * d) * p = bp * d
    BY <1>0, Product
  <2> QED BY <2>1, <2>2
<1>2. rp + s \in 0 .. bp - 1
  <2>1. r * p <= (Byte - 1) * p
    <3>1. Byte - 1 \in Int /\ r \in Int /\ r <= Byte - 1 /\ p \in Nat
      BY <1>0
    <3> QED BY ONLY <3>1, Larger
  <2>2. (Byte - 1) * p = bp - p
    <3>1. Byte \in Int /\ p \in Int
      BY <1>0
    <3> QED BY <3>1
  <2> QED BY <2>1, <2>2
<1>3. t \div bp = d
  <2> PICK rest \in 0 .. bp - 1 : rest = rp + s
    BY <1>2
  <2>1. (bp * d + rest) \div bp = d
    BY ONLY Quotient, bp \in Nat \ {0}, d \in Nat, rest \in 0 .. bp - 1
  <2> QED BY <1>1, <2>1
<1> QED BY <1>0, <1>3, Product

\* The recursion behind ToU64.
Sums(b, ts) == ts = [i \in 0 .. Bytes |-> IF i = Bytes THEN 0 ELSE ts[i + 1] * Byte + b[i]]

\* What uwb_utils_timestamp_to_u64 puts together again is the timestamp, at whatever width.
LEMMA ReadBack == ASSUME NEW t \in Times PROVE ToU64(ReadTimestamp(t)) = t
<1> DEFINE b == ReadTimestamp(t)
           f == [i \in 0 .. Bytes |-> t \div Power[i]]
<1>0. Bytes \in Nat \ {0} /\ Byte \in Nat \ {0}
  BY DeviceTimeAssumption
<1>t. t \in Nat /\ t < Power[Bytes]
  BY <1>0, Powers DEF Times, Period
<1>1. ASSUME NEW i \in 0 .. Bytes
      PROVE  f[i] = IF i = Bytes THEN 0 ELSE f[i + 1] * Byte + b[i]
  <2>1. CASE i = Bytes
    <3>1. \A p \in Nat \ {0} : t < p => t \div p = 0
      BY <1>t
    <3> QED BY <2>1, <3>1, <1>0, <1>t, Powers
  <2>2. CASE i # Bytes
    <3>1. i \in 0 .. Bytes - 1 /\ i + 1 \in 0 .. Bytes
      BY <1>0, <2>2
    <3>2. Power[i] \in Nat \ {0} /\ Power[i + 1] = Byte * Power[i]
      BY <3>1, Powers
    <3>3. t \div Power[i] = (t \div Power[i + 1]) * Byte + ((t \div Power[i]) % Byte)
      BY <1>t, <3>2, Digit
    <3>4. b[i] = (t \div Power[i]) % Byte
      BY <3>1 DEF ReadTimestamp
    <3> QED BY <2>2, <3>1, <3>3, <3>4
  <2> QED BY <2>1, <2>2
<1>2. Sums(b, f)
  <2>1. f = [i \in 0 .. Bytes |-> f[i]]
    OBVIOUS
  <2> HIDE DEF f, b
  <2>2. [i \in 0 .. Bytes |-> f[i]]
          = [i \in 0 .. Bytes |-> IF i = Bytes THEN 0 ELSE f[i + 1] * Byte + b[i]]
    BY <1>1
  <2> QED BY <2>1, <2>2 DEF Sums
<1>3. PICK ts : Sums(b, ts) /\ ToU64(b) = ts[0]
  <2>1. \E ts : Sums(b, ts)
    BY <1>2
  <2> HIDE DEF b
  <2> QED BY Zenon, <2>1 DEF ToU64, Sums
<1>4. \A i \in 0 .. Bytes : ts[i] = f[i]
  <2> DEFINE Bad == {n \in 0 .. Bytes : ts[Bytes - n] # f[Bytes - n]}
  <2>1. SUFFICES ASSUME Bad # {} PROVE FALSE
    <3>1. ASSUME NEW i \in 0 .. Bytes, ts[i] # f[i] PROVE Bytes - i \in Bad
      <4>1. Bytes - i \in 0 .. Bytes /\ Bytes - (Bytes - i) = i
        BY <1>0
      <4> HIDE DEF f
      <4> QED BY <3>1, <4>1
    <3> HIDE DEF f, Bad
    <3> QED BY <2>1, <3>1
  <2>2. PICK n \in Bad : \A m \in Bad : n <= m
    <3>1. Bad \in SUBSET Nat
      BY <1>0
    <3> HIDE DEF Bad
    <3> QED BY <2>1, <3>1, Least
  <2>3. PICK i \in 0 .. Bytes : i = Bytes - n
    BY <1>0
  <2>4. \A k \in 0 .. Bytes : ts[k] = IF k = Bytes THEN 0 ELSE ts[k + 1] * Byte + b[k]
    BY <1>3 DEF Sums
  <2>5. ts[i] # f[i]
    BY <2>3
  <2> HIDE DEF f, b
  <2>6. i # Bytes
    BY <2>4, <2>5, <1>1
  <2>7. n - 1 \in 0 .. Bytes /\ n - 1 \notin Bad /\ Bytes - (n - 1) = i + 1 /\ i + 1 \in 0 .. Bytes
    BY <1>0, <2>2, <2>3, <2>6
  <2>8. ts[i + 1] = f[i + 1]
    BY <2>7
  <2> QED BY <2>4, <2>5, <2>6, <2>8, <1>1
<1>5. 0 \in 0 .. Bytes /\ t \div 1 = t
  BY <1>0, <1>t
<1> QED BY <1>3, <1>4, <1>5, Powers

-----------------------------------------------------------------------------
(***************************************************************************)
(* Times modulo the period.                                                *)
(***************************************************************************)
LEMMA Sizes ==
  /\ Byte \in Nat \ {0} /\ Ignored \in Nat \ {0} /\ Period \in Nat \ {0} /\ Half \in Nat
  /\ 2 * Half <= Period
  /\ Delay \in Nat /\ PowerUp \in Nat \ {0} /\ MaxLag \in Nat
  /\ PowerUp + Ignored < Delay /\ Delay < Half /\ MaxLag < Half
<1>1. Byte \in Nat \ {0} /\ Ignored \in Nat \ {0}
  BY DeviceTimeAssumption
<1>2. Period \in Nat \ {0}
  BY Powers, DeviceTimeAssumption DEF Period
<1>3. Half \in Nat /\ 2 * Half <= Period
  BY <1>2 DEF Half
<1> QED BY <1>1, <1>2, <1>3, DelayAssumption

\* The remainder of a number below twice the modulus.
LEMMA Once ==
  ASSUME NEW n \in Nat \ {0}, NEW x \in 0 .. 2 * n - 1
  PROVE  x % n = IF x < n THEN x ELSE x - n
<1>1. CASE x < n
  BY <1>1
<1>2. CASE x >= n
  <2> PICK r \in 0 .. n - 1 : r = x - n
    BY <1>2
  <2>1. (n * 1 + r) % n = r
    BY ONLY Quotient, n \in Nat \ {0}, 1 \in Nat, r \in 0 .. n - 1
  <2> QED BY <2>1, <1>2
<1> QED BY <1>1, <1>2

\* How far the rounded start time lies behind the reading t of the clock.
Lead(t) == Delay - ((t + Delay) % Ignored)

LEMMA LeadType == ASSUME NEW t \in Nat PROVE Lead(t) \in Delay - Ignored + 1 .. Delay
<1>1. (t + Delay) % Ignored \in 0 .. Ignored - 1
  <2>1. t + Delay \in Nat
    BY Sizes
  <2> QED BY ONLY <2>1, Division, Sizes
<1> QED BY <1>1, Sizes DEF Lead

\* A number below m and one below n make one below their product.
LEMMA Pair ==
  ASSUME NEW m \in Nat \ {0}, NEW n \in Nat \ {0}, NEW u \in 0 .. n - 1, NEW v \in 0 .. m - 1
  PROVE  m * u + v \in 0 .. m * n - 1
<1>1. (u + 1) * m <= n * m
  <2>1. u + 1 \in Int /\ n \in Int /\ m \in Nat /\ u + 1 <= n
    OBVIOUS
  <2> QED BY ONLY <2>1, Larger
<1>2. (u + 1) * m = m * u + m /\ n * m = m * n /\ m * u \in Nat /\ m * n \in Nat
  OBVIOUS
<1> QED BY <1>1, <1>2

\* The remainder of a multiple, and of a multiple and a bit.
Carried(g, n, p, a) == (g * p + a) % (g * n) = g * (p % n) + a

LEMMA Multiple ==
  ASSUME NEW g \in Nat \ {0}, NEW n \in Nat \ {0}, NEW p \in Nat, NEW a \in 0 .. g - 1
  PROVE  Carried(g, n, p, a)
<1> PICK e \in Nat, u \in 0 .. n - 1 : u = p % n /\ p = n * e + u
  BY Division
<1>1. g * u + a \in 0 .. g * n - 1
  BY Pair
<1>2. g * p + a = (g * n) * e + (g * u + a)
  <2>1. g * p = g * (n * e + u)
    OBVIOUS
  <2>2. g * (n * e + u) = (g * n) * e + g * u
    <3>1. n \in Int /\ g \in Int /\ e \in Int /\ u \in Int
      OBVIOUS
    <3> QED BY ONLY <3>1
  <2>3. g * p \in Int /\ g * u \in Int /\ (g * n) * e \in Int /\ a \in Int
    OBVIOUS
  <2> QED BY ONLY <2>1, <2>2, <2>3
<1>3. ((g * n) * e + (g * u + a)) % (g * n) = g * u + a
  <2> PICK gn \in Nat \ {0} : gn = g * n
    OBVIOUS
  <2> PICK rest \in 0 .. gn - 1 : rest = g * u + a
    BY <1>1
  <2>1. (gn * e + rest) % gn = rest
    BY ONLY Quotient, gn \in Nat \ {0}, e \in Nat, rest \in 0 .. gn - 1
  <2> QED BY <2>1
<1> QED BY <1>2, <1>3 DEF Carried

\* The two roundings: cut to bytes and to Q of them, then to what the chip looks at.
Rounded(B, g, n, x, dx) == dx - (dx % (B * g)) = (x - (x % (B * g))) % ((B * g) * n)
CutTo(B, m, x, dx) == dx = ((x \div B) % m) * B

LEMMA Rounding ==
  ASSUME NEW B \in Nat \ {0}, NEW g \in Nat \ {0}, NEW n \in Nat \ {0}, NEW x \in Nat,
         NEW dx \in Nat, CutTo(B, g * n, x, dx)
  PROVE  Rounded(B, g, n, x, dx)
<1>c. dx = ((x \div B) % (g * n)) * B
  BY DEF CutTo
<1> PICK y \in Nat, b \in 0 .. B - 1 : y = x \div B /\ x = B * y + b
  BY ONLY Divides, x \in Nat, B \in Nat \ {0}
<1> PICK p \in Nat, a \in 0 .. g - 1 : p = y \div g /\ y = g * p + a
  BY ONLY Divides, y \in Nat, g \in Nat \ {0}
<1> PICK u \in 0 .. n - 1 : u = p % n
  BY Division
<1> PICK G \in Nat \ {0} : G = B * g
  OBVIOUS
<1> PICK s \in 0 .. G - 1 : s = B * a + b
  BY Pair
<1> PICK c \in 0 .. G - 1 : c = B * a
  <2> PICK zero \in 0 .. B - 1 : zero = 0
    OBVIOUS
  <2>1. B * a + zero \in 0 .. B * g - 1
    BY ONLY Pair, B \in Nat \ {0}, g \in Nat \ {0}, a \in 0 .. g - 1, zero \in 0 .. B - 1
  <2>2. B * a \in Nat
    OBVIOUS
  <2> QED BY <2>1, <2>2
<1>1. B * (g * p + a) = G * p + c
  <2>1. B * (g * p + a) = (B * g) * p + B * a
    <3>1. B \in Int /\ g \in Int /\ p \in Int /\ a \in Int
      OBVIOUS
    <3> QED BY ONLY <3>1
  <2> QED BY ONLY <2>1, G = B * g, c = B * a
<1>2. x = G * p + s
  <2>1. B * y = G * p + c
    BY ONLY <1>1, y = g * p + a
  <2>2. G * p \in Int /\ c \in Int /\ b \in Int
    OBVIOUS
  <2> QED BY ONLY <2>1, <2>2, x = B * y + b, s = B * a + b, c = B * a
<1>3. x % G = s
  BY ONLY Quotient, <1>2, G \in Nat \ {0}, p \in Nat, s \in 0 .. G - 1
<1>4. dx = G * u + c
  <2>1. y % (g * n) = g * u + a
    <3>1. (g * p + a) % (g * n) = g * (p % n) + a
      <4>1. Carried(g, n, p, a)
        BY ONLY Multiple, g \in Nat \ {0}, n \in Nat \ {0}, p \in Nat, a \in 0 .. g - 1
      <4> QED BY ONLY <4>1 DEF Carried
    <3> QED BY ONLY <3>1, y = g * p + a, u = p % n
  <2>2. (g * u + a) * B = (B * g) * u + B * a
    <3>1. B \in Int /\ g \in Int /\ u \in Int /\ a \in Int
      OBVIOUS
    <3> QED BY ONLY <3>1
  <2> QED BY ONLY <2>1, <2>2, <1>c, y = x \div B,
                  G = B * g, c = B * a
<1>5. dx % G = c
  BY ONLY Quotient, <1>4, G \in Nat \ {0}, u \in 0 .. n - 1, c \in 0 .. G - 1, u \in Nat
<1>6. dx - (dx % G) = G * u
  <2>1. G * u \in Int /\ c \in Int
    OBVIOUS
  <2> QED BY ONLY <2>1, <1>4, <1>5
<1>7. x - (x % G) = G * p
  <2>1. G * p \in Int /\ s \in Int
    OBVIOUS
  <2> QED BY ONLY <2>1, <1>2, <1>3
<1>8. (G * p) % (G * n) = G * u
  <2> PICK zero \in 0 .. G - 1 : zero = 0
    OBVIOUS
  <2>1. (G * p + zero) % (G * n) = G * (p % n) + zero
    <3>1. Carried(G, n, p, zero)
      BY ONLY Multiple, G \in Nat \ {0}, n \in Nat \ {0}, p \in Nat, zero \in 0 .. G - 1
    <3> QED BY ONLY <3>1 DEF Carried
  <2>2. G * p \in Int /\ G * u \in Int
    OBVIOUS
  <2> QED BY ONLY <2>1, <2>2, zero = 0, u = p % n
<1> QED BY ONLY <1>6, <1>7, <1>8, G = B * g DEF Rounded

\* A period is a number of steps of the rounding, and those a number of bytes' units.
Divided(g, n) == Ignored = Byte * g /\ Period = Ignored * n /\ Period \div Byte = g * n

LEMMA Divisors == \E g \in Nat \ {0}, n \in Nat \ {0} : Divided(g, n)
<1> PICK g \in Nat \ {0} : Ignored = Byte * g
  <2>1. Ignored = Byte * (Ignored \div Byte) + (Ignored % Byte) /\ Ignored \div Byte \in Nat
    BY ONLY Division, Sizes
  <2>2. Ignored = Byte * (Ignored \div Byte)
    BY <2>1, DeviceTimeAssumption, Sizes
  <2> PICK q \in Nat : q = Ignored \div Byte
    BY <2>1
  <2>3. q # 0
    BY <2>2, Sizes
  <2> QED BY <2>2, <2>3
<1> PICK n \in Nat \ {0} : Period = Ignored * n
  <2>1. Period = Ignored * (Period \div Ignored) + (Period % Ignored) /\ Period \div Ignored \in Nat
    BY ONLY Division, Sizes
  <2>2. Period = Ignored * (Period \div Ignored)
    BY <2>1, DeviceTimeAssumption, Sizes
  <2> PICK q \in Nat : q = Period \div Ignored
    BY <2>1
  <2>3. q # 0
    BY <2>2, Sizes
  <2> QED BY <2>2, <2>3
<1>1. Period \div Byte = g * n
  <2> PICK q \in Nat : q = g * n
    OBVIOUS
  <2>1. Period = Byte * q + 0
    <3>2. Byte \in Nat /\ Byte \in Int
      BY Sizes
    <3>1. (Byte * g) * n = Byte * (g * n)
      BY ONLY <3>2, g \in Int, n \in Int, Product
    <3> QED BY <3>1, <3>2
  <2> PICK zero \in 0 .. Byte - 1 : zero = 0
    BY Sizes
  <2>2. (Byte * q + zero) \div Byte = q
    BY ONLY Quotient, Sizes, q \in Nat, zero \in 0 .. Byte - 1
  <2> QED BY <2>1, <2>2
<1> QED BY <1>1 DEF Divided

\* Cutting the sum to 32 bits loses no more than the period it is in: the chip starts
\* Lead after the reading of the clock, wherever in the period that was.
LEMMA Target ==
  ASSUME NEW t \in Times
  PROVE  StartsAt(DxTime(StartHi32(t))) = (t + Lead(t)) % Period
<1> PICK x \in Nat : x = t + Delay
  BY Sizes DEF Times
<1> PICK g \in Nat \ {0}, n \in Nat \ {0} : Divided(g, n)
  BY Divisors
<1>1. Ignored = Byte * g /\ Period = Ignored * n /\ Period \div Byte = g * n
  BY DEF Divided
<1> PICK dx \in Nat : dx = ((x \div Byte) % (g * n)) * Byte
  <2>1. x \div Byte \in Nat /\ g * n \in Nat \ {0}
    <3>1. x \div Byte \in Nat
      BY ONLY Division, Sizes, x \in Nat
    <3> QED BY <3>1
  <2>2. (x \div Byte) % (g * n) \in Nat
    BY ONLY <2>1, Division
  <2>3. ((x \div Byte) % (g * n)) * Byte \in Nat
    BY ONLY <2>2, Sizes
  <2> QED BY <2>3
<1>2. DxTime(StartHi32(t)) = dx
  BY <1>1 DEF DxTime, StartHi32
<1>3. dx - (dx % (Byte * g)) = (x - (x % (Byte * g))) % ((Byte * g) * n)
  <2>1. Byte \in Nat \ {0} /\ CutTo(Byte, g * n, x, dx)
    BY Sizes DEF CutTo
  <2>2. Rounded(Byte, g, n, x, dx)
    BY ONLY Rounding, <2>1, g \in Nat \ {0}, n \in Nat \ {0}, x \in Nat, dx \in Nat
  <2> QED BY <2>2 DEF Rounded
<1>4. x - (x % Ignored) = t + Lead(t)
  <2>1. x % Ignored \in Nat
    BY ONLY Division, Sizes, x \in Nat
  <2> QED BY <2>1, Sizes DEF Lead, Times
<1> QED BY <1>1, <1>2, <1>3, <1>4 DEF StartsAt

LEMMA DxTimeType == ASSUME NEW t \in Times PROVE DxTime(StartHi32(t)) \in Times
<1> PICK g \in Nat \ {0}, n \in Nat \ {0} : Divided(g, n)
  BY Divisors
<1>1. Ignored = Byte * g /\ Period = Ignored * n /\ Period \div Byte = g * n
  BY DEF Divided
<1> PICK q \in Nat \ {0} : q = g * n
  OBVIOUS
<1>2. Period = Byte * q
  <2>1. Byte \in Int /\ g \in Int /\ n \in Int
    BY Sizes
  <2>2. (Byte * g) * n = Byte * (g * n)
    BY ONLY <2>1, Product
  <2> QED BY <1>1, <2>2
<1> PICK h \in 0 .. q - 1 : h = StartHi32(t)
  <2>1. t + Delay \in Nat
    BY Sizes DEF Times
  <2>2. (t + Delay) \div Byte \in Nat
    BY ONLY <2>1, Sizes, Division
  <2>3. ((t + Delay) \div Byte) % q \in 0 .. q - 1
    BY ONLY <2>2, Division, q \in Nat \ {0}
  <2> QED BY <2>3, <1>1 DEF StartHi32
<1> PICK zero \in 0 .. Byte - 1 : zero = 0
  BY Sizes
<1>3. Byte * h + zero \in 0 .. Byte * q - 1
  BY ONLY Pair, Sizes, q \in Nat \ {0}, h \in 0 .. q - 1, zero \in 0 .. Byte - 1
<1>4. h * Byte = Byte * h + zero
  <2>1. Byte * h \in Int /\ h * Byte = Byte * h
    BY Sizes, Product
  <2> QED BY <2>1
<1> QED BY <1>2, <1>3, <1>4 DEF DxTime, Times

\* Two times of the same clock less than half a period from t: how far the one lies ahead
\* of the other.
LEMMA Distance ==
  ASSUME NEW t \in Times, NEW d \in 0 .. Half - 1, NEW e \in 0 .. Half - 1
  PROVE  (((t + d) % Period) + Period - ((t + e) % Period)) % Period
            = IF e <= d THEN d - e ELSE Period - (e - d)
<1> PICK P \in Nat \ {0} : P = Period /\ t < P /\ 2 * Half <= P
  BY Sizes DEF Times
<1>0. Half \in Nat /\ t \in Nat
  BY Sizes DEF Times
<1> PICK x \in 0 .. 2 * P - 1 : x = t + d
  BY <1>0
<1> PICK y \in 0 .. 2 * P - 1 : y = t + e
  BY <1>0
<1> PICK u \in 0 .. P - 1 : u = x % P /\ u = IF x < P THEN x ELSE x - P
  <2>1. x % P = IF x < P THEN x ELSE x - P
    BY Once
  <2> QED BY <2>1
<1> PICK v \in 0 .. P - 1 : v = y % P /\ v = IF y < P THEN y ELSE y - P
  <2>1. y % P = IF y < P THEN y ELSE y - P
    BY Once
  <2> QED BY <2>1
<1> PICK w \in 0 .. 2 * P - 1 : w = u + P - v
  OBVIOUS
<1>1. w % P = IF w < P THEN w ELSE w - P
  BY Once
<1>2. (IF w < P THEN w ELSE w - P) = IF e <= d THEN d - e ELSE P - (e - d)
  BY <1>0
<1> QED BY <1>1, <1>2

\* The clock goes on.
LEMMA Onward ==
  ASSUME NEW t \in Times, NEW e \in 0 .. Half - 1
  PROVE  (((t + e) % Period) + 1) % Period = (t + (e + 1)) % Period
<1> PICK P \in Nat \ {0} : P = Period /\ t < P /\ 2 * Half <= P
  BY Sizes DEF Times
<1>0. Half \in Nat /\ t \in Nat
  BY Sizes DEF Times
<1> PICK x \in 0 .. 2 * P - 1 : x = t + e
  BY <1>0
<1> PICK y \in 0 .. 2 * P - 1 : y = t + (e + 1)
  BY <1>0
<1> PICK u \in 0 .. P - 1 : u = x % P /\ u = IF x < P THEN x ELSE x - P
  <2>1. x % P = IF x < P THEN x ELSE x - P
    BY Once
  <2> QED BY <2>1
<1> PICK w \in 0 .. 2 * P - 1 : w = u + 1
  OBVIOUS
<1>1. w % P = (IF w < P THEN w ELSE w - P) /\ y % P = IF y < P THEN y ELSE y - P
  BY Once
<1>2. (IF w < P THEN w ELSE w - P) = IF y < P THEN y ELSE y - P
  BY <1>0
<1> QED BY <1>1, <1>2

-----------------------------------------------------------------------------
(***************************************************************************)
(* The invariant.                                                          *)
(***************************************************************************)
Waiting == radio \in {"txwait", "rxwait"}

\* The radio does what the caller's last step has left it to.
RadioInv ==
  /\ pc \in {"read", "set"} => radio = "off"
  /\ pc = "started" => mode = "tx" /\ radio \in {"txwait", "tx"}
  /\ pc = "enabled" => mode # "tx" /\ radio \in {"rxwait", "rx"} /\ warned \subseteq {"HPDWARN"}

\* While it matters, elapsed is how far the clock has come since the caller has read it.
ClockInv ==
  pc # "idle" \/ Waiting => elapsed < Half /\ sysTime = (start + elapsed) % Period

\* The chip's start time is Lead after that reading.
DueInv ==
  pc \in {"set", "started", "enabled"} \/ Waiting =>
    StartsAt(dxTime) = (start + Lead(start)) % Period

\* A command without a warning has its start before it, and one with a warning has not,
\* or has it too near.
ArmedInv == Waiting /\ (pc = "idle" \/ warned = {}) => elapsed < Lead(start)
WarnedInv == pc \in {"started", "enabled"} /\ warned # {} => elapsed + PowerUp > Lead(start)

LagInv == pc # "idle" => elapsed <= MaxLag

DInv == /\ TypeOK /\ RadioInv /\ ClockInv /\ DueInv
        /\ ArmedInv /\ WarnedInv /\ LagInv

LEMMA Leads == TypeOK => Lead(start) \in Delay - Ignored + 1 .. Delay /\ Lead(start) \in 1 .. Half - 1
<1>1. TypeOK => start \in Nat
  BY Sizes DEF TypeOK, Times
<1>2. TypeOK => Lead(start) \in Delay - Ignored + 1 .. Delay
  BY <1>1, LeadType
<1> QED BY <1>2, Sizes

\* While a command is being given or waits, the warnings mean what they say.
LEMMA Warnings ==
  ASSUME TypeOK, ClockInv, DueInv, pc \in {"set", "started", "enabled"} \/ Waiting
  PROVE  /\ Late <=> elapsed > Lead(start)
         /\ TooCloseToSend => elapsed + PowerUp > Lead(start)
         /\ elapsed = Lead(start) => TooCloseToSend
         /\ Ahead(StartsAt(dxTime)) = IF elapsed <= Lead(start) THEN Lead(start) - elapsed
                                      ELSE Period - (elapsed - Lead(start))
<1> PICK d \in 1 .. Half - 1 : d = Lead(start)
  BY Leads
<1> PICK e \in 0 .. Half - 1 : e = elapsed
  BY Sizes DEF TypeOK, ClockInv
<1>1. sysTime = (start + e) % Period /\ StartsAt(dxTime) = (start + d) % Period
  BY DEF ClockInv, DueInv
<1>2. Ahead(StartsAt(dxTime)) = IF e <= d THEN d - e ELSE Period - (e - d)
  <2>1. start \in Times /\ d \in 0 .. Half - 1
    BY DEF TypeOK
  <2>2. (((start + d) % Period) + Period - ((start + e) % Period)) % Period
            = IF e <= d THEN d - e ELSE Period - (e - d)
    BY ONLY <2>1, Distance, e \in 0 .. Half - 1
  <2> QED BY <1>1, <2>2 DEF Ahead
<1>3. Late <=> e > d
  BY <1>2, Sizes DEF Late
<1>4. TooCloseToSend => e + PowerUp > d
  BY <1>2, Sizes DEF TooCloseToSend
<1>5. e = d => TooCloseToSend
  BY <1>2, Sizes DEF TooCloseToSend
<1> QED BY <1>2, <1>3, <1>4, <1>5

LEMMA Initially == Init => DInv
<1> SUFFICES ASSUME Init PROVE DInv
  OBVIOUS
<1>1. TypeOK
  BY Sizes DEF Init, TypeOK, Times
<1> QED
  BY <1>1 DEF Init, DInv, Waiting, RadioInv, ClockInv, DueInv, ArmedInv, WarnedInv, LagInv

\* The clock at the next unit, while the caller is busy or the chip waits.
LEMMA TickTo ==
  ASSUME DInv, Tick, pc # "idle" \/ Waiting
  PROVE  /\ sysTime' = (start + (elapsed + 1)) % Period
         /\ elapsed' = elapsed + 1 /\ elapsed < Half
         /\ Waiting => (sysTime' = StartsAt(dxTime) <=> elapsed + 1 = Lead(start))
<1> PICK d \in 1 .. Half - 1 : d = Lead(start)
  BY Leads DEF DInv
<1> PICK e \in 0 .. Half - 1 : e = elapsed
  BY Sizes DEF DInv, TypeOK, ClockInv
<1>0. start \in Times /\ sysTime = (start + e) % Period
  BY DEF DInv, TypeOK, ClockInv
<1>1. sysTime' = (start + (e + 1)) % Period
  <2>1. ((((start + e) % Period) + 1) % Period) = (start + (e + 1)) % Period
    BY ONLY <1>0, Onward, e \in 0 .. Half - 1
  <2> QED BY <1>0, <2>1 DEF Tick
<1>2. elapsed' = elapsed + 1
  BY Sizes DEF Tick
<1>3. (start + (e + 1)) % Period = (start + d) % Period <=> e + 1 = d
  <2> PICK P \in Nat \ {0} : P = Period /\ start < P /\ 2 * Half <= P
    BY <1>0, Sizes DEF Times
  <2>0. Half \in Nat /\ start \in Nat
    BY <1>0, Sizes DEF Times
  <2> PICK x \in 0 .. 2 * P - 1 : x = start + d
    BY <2>0
  <2> PICK y \in 0 .. 2 * P - 1 : y = start + (e + 1)
    BY <2>0
  <2>1. x % P = (IF x < P THEN x ELSE x - P) /\ y % P = IF y < P THEN y ELSE y - P
    BY Once
  <2>2. (IF x < P THEN x ELSE x - P) = (IF y < P THEN y ELSE y - P) <=> e + 1 = d
    BY <2>0
  <2> QED BY <2>1, <2>2
<1>4. Waiting => StartsAt(dxTime) = (start + d) % Period
  BY DEF DInv, DueInv
<1>5. elapsed < Half
  BY Sizes
<1>6. Waiting => (sysTime' = StartsAt(dxTime) <=> elapsed + 1 = Lead(start))
  BY ONLY <1>1, <1>3, <1>4, d = Lead(start), e = elapsed
<1>7. sysTime' = (start + (elapsed + 1)) % Period
  BY ONLY <1>1, e = elapsed
<1> QED BY ONLY <1>2, <1>5, <1>6, <1>7

LEMMA TickStep == ASSUME DInv, Tick PROVE DInv'
<1> USE DEF DInv
<1>1. TypeOK'
  <2>1. (sysTime + 1) % Period \in Times
    <3>1. sysTime + 1 \in Nat
      BY Sizes DEF TypeOK, Times
    <3> QED BY ONLY <3>1, Division, Sizes DEF Times
  <2>2. elapsed' \in 0 .. Period
    BY Sizes DEF Tick, TypeOK
  <2>3. radio' \in {"off", "txwait", "tx", "rxwait", "rx"}
    BY DEF Tick, TypeOK
  <2> QED BY <2>1, <2>2, <2>3 DEF TypeOK, Tick, caller
<1>2. RadioInv'
  <2>1. UNCHANGED <<pc, mode, warned>>
    BY DEF Tick, caller
  <2>2. /\ radio = "off" => radio' = "off"
        /\ radio \in {"txwait", "tx"} => radio' \in {"txwait", "tx"}
        /\ radio \in {"rxwait", "rx"} => radio' \in {"rxwait", "rx"}
    BY DEF Tick
  <2> QED BY <2>1, <2>2 DEF RadioInv
<1>3. CASE pc # "idle" \/ Waiting
  <2> PICK d \in 1 .. Half - 1 : d = Lead(start)
    BY Leads
  <2> PICK e \in 0 .. Half - 1 : e = elapsed /\ elapsed' = e + 1
    <3>1. elapsed' = elapsed + 1 /\ elapsed < Half /\ elapsed \in Nat
      BY <1>3, TickTo, Sizes DEF TypeOK
    <3> QED BY <3>1, Sizes
  <2>0. UNCHANGED <<pc, start, dxTime, warned>> /\ d = Lead(start')
    BY DEF Tick, caller
  <2>1. Waiting' => Waiting /\ e + 1 # d
    BY <1>3, TickTo DEF Tick, Waiting
  <2>2. LagInv'
    BY Sizes DEF LagInv, Tick, caller
  <2>3. ArmedInv'
    BY <2>0, <2>1 DEF ArmedInv
  <2>4. ClockInv'
    <3>1. sysTime' = (start' + elapsed') % Period
      BY <1>3, <2>0, TickTo
    <3>2. pc' # "idle" => elapsed' < Half
      BY <2>2, Sizes DEF LagInv
    <3>3. pc' = "idle" /\ Waiting' => elapsed' < Half
      BY <2>0, <2>3, Sizes DEF ArmedInv
    <3> QED BY <3>1, <3>2, <3>3 DEF ClockInv
  <2>5. DueInv'
    BY <2>0, <2>1 DEF DueInv
  <2>6. WarnedInv'
    BY <2>0, Sizes DEF WarnedInv
  <2> QED BY <1>1, <1>2, <2>2, <2>3, <2>4, <2>5, <2>6
<1>4. CASE pc = "idle" /\ ~Waiting
  <2>1. pc' = "idle" /\ ~Waiting'
    BY <1>4 DEF Tick, Waiting, caller
  <2> QED BY <1>1, <1>2, <2>1 DEF ClockInv, DueInv, ArmedInv, WarnedInv, LagInv
<1> QED BY <1>3, <1>4

LEMMA ReadStep == ASSUME DInv, ReadSysTime PROVE DInv'
<1> USE DEF DInv
<1>1. start' = sysTime /\ sysTime \in Times
  BY ReadBack DEF ReadSysTime, TypeOK
<1>2. TypeOK'
  BY <1>1, Sizes DEF TypeOK, ReadSysTime
<1>3. ClockInv'
  <2>1. (sysTime + 0) % Period = sysTime
    <3> PICK t \in Nat : t = sysTime /\ t < Period
      BY <1>1, Sizes DEF Times
    <3>1. t \in 0 .. 2 * Period - 1
      BY Sizes
    <3>2. t % Period = t
      BY ONLY <3>1, Once, Sizes, t < Period
    <3> QED BY <3>2
  <2> QED BY <1>1, <2>1, Sizes DEF ClockInv, ReadSysTime
<1> QED
  BY <1>2, <1>3, Sizes DEF ReadSysTime, RadioInv, DueInv, ArmedInv, WarnedInv, LagInv, Waiting

LEMMA SetStep == ASSUME DInv, SetDelayedTrxTime PROVE DInv'
<1> USE DEF DInv
<1>1. TypeOK'
  <2>1. dxTime' \in Times
    BY DxTimeType DEF SetDelayedTrxTime, TypeOK
  <2> QED BY <2>1 DEF SetDelayedTrxTime, TypeOK
<1>2. DueInv'
  <2>1. StartsAt(DxTime(StartHi32(start))) = (start + Lead(start)) % Period
    BY Target DEF TypeOK
  <2> QED BY <2>1 DEF DueInv, SetDelayedTrxTime
<1> QED
  BY <1>1, <1>2
     DEF SetDelayedTrxTime, RadioInv, ClockInv, ArmedInv, WarnedInv, LagInv, Waiting

LEMMA CommandStep == ASSUME DInv, StartTx \/ RxEnable PROVE DInv'
<1> USE DEF DInv
<1>0. pc = "set" /\ UNCHANGED <<sysTime, dxTime, mode, start, result, elapsed>>
  BY DEF StartTx, RxEnable
<1> PICK d \in 1 .. Half - 1 : d = Lead(start) /\ d = Lead(start')
  BY <1>0, Leads
<1> PICK e \in 0 .. Half - 1 : e = elapsed /\ e = elapsed'
  BY <1>0, Sizes DEF TypeOK, ClockInv
<1>1. /\ Late <=> e > d
      /\ TooCloseToSend => e + PowerUp > d
      /\ e = d => TooCloseToSend
      /\ Ahead(StartsAt(dxTime)) = IF e <= d THEN d - e ELSE Period - (e - d)
  BY <1>0, Warnings
<1>2. TypeOK' /\ RadioInv'
  BY <1>0 DEF TypeOK, RadioInv, StartTx, RxEnable
<1>3. ClockInv' /\ DueInv' /\ LagInv'
  BY <1>0 DEF ClockInv, DueInv, LagInv, StartTx, RxEnable
<1>4. ArmedInv'
  <2>1. CASE StartTx
    <3>1. warned' = {} => ~Late /\ ~TooCloseToSend
      BY <2>1 DEF StartTx
    <3>2. pc' # "idle"
      BY <2>1 DEF StartTx
    <3> QED BY <1>1, <3>1, <3>2 DEF ArmedInv
  <2>2. CASE RxEnable
    <3>1. warned' = {} => ~Late
      BY <2>2 DEF RxEnable
    <3>2. pc' # "idle"
      BY <2>2 DEF RxEnable
    <3>3. Waiting' => Ahead(StartsAt(dxTime)) # 0
      BY <2>2 DEF RxEnable, Waiting
    <3>4. Waiting' => e # d
      BY <1>1, <3>3
    <3> QED BY <1>1, <3>1, <3>2, <3>4 DEF ArmedInv
  <2> QED BY <2>1, <2>2
<1>5. WarnedInv'
  <2>1. warned' # {} => Late \/ TooCloseToSend
    BY DEF StartTx, RxEnable
  <2> QED BY <1>1, <2>1, Sizes DEF WarnedInv
<1> QED BY <1>2, <1>3, <1>4, <1>5

LEMMA CheckStep == ASSUME DInv, CheckTx \/ CheckRx \/ Stops PROVE DInv'
<1> USE DEF DInv
<1>0. /\ UNCHANGED <<sysTime, dxTime, warned, mode, start, elapsed>>
      /\ pc' = "idle"
      /\ Waiting' => Waiting /\ (pc = "idle" \/ warned = {})
  <2>1. CASE CheckTx
    BY <2>1 DEF CheckTx, Waiting, TxErr
  <2>2. CASE CheckRx
    <3>1. pc = "enabled" /\ warned \subseteq {"HPDWARN"}
      BY <2>2 DEF CheckRx, RadioInv
    <3>2. "HPDWARN" \in warned => ~Waiting'
      BY <2>2 DEF CheckRx, Waiting, WhenLate
    <3> QED BY <2>2, <3>1, <3>2 DEF CheckRx, Waiting
  <2>3. CASE Stops
    BY <2>3 DEF Stops, Waiting, caller
  <2> QED BY <2>1, <2>2, <2>3
<1>1. TypeOK'
  <2>1. radio' \in {"off", "txwait", "tx", "rxwait", "rx"} /\ result' \in {"none", "success", "error"}
    <3>1. CASE CheckTx
      BY <3>1 DEF CheckTx, TypeOK
    <3>2. CASE CheckRx
      BY <3>2 DEF CheckRx, TypeOK, WhenLate
    <3>3. CASE Stops
      BY <3>3 DEF Stops, TypeOK, caller
    <3> QED BY <3>1, <3>2, <3>3
  <2> QED BY <1>0, <2>1 DEF TypeOK
<1>2. ClockInv' /\ DueInv'
  BY <1>0 DEF ClockInv, DueInv
<1> QED
  BY <1>0, <1>1, <1>2 DEF RadioInv, ArmedInv, WarnedInv, LagInv

LEMMA Step == DInv /\ [Next]_vars => DInv'
<1> SUFFICES ASSUME DInv, [Next]_vars PROVE DInv'
  OBVIOUS
<1>1. CASE UNCHANGED vars
  BY <1>1 DEF vars, chip, caller, DInv, TypeOK, RadioInv, ClockInv, DueInv, ArmedInv, WarnedInv,
              LagInv, Waiting
<1> QED
  BY <1>1, TickStep, ReadStep, SetStep, CommandStep, CheckStep DEF Next, Call

\* The radio, the clock and the warnings agree with the caller's step, always.
THEOREM Invariant == Spec => []DInv
BY Initially, Step, PTL DEF Spec

-----------------------------------------------------------------------------
(***************************************************************************)
(* The properties.                                                         *)
(***************************************************************************)
\* Every variable stays in its type.
THEOREM TypeCorrect == Spec => []TypeOK
<1>1. DInv => TypeOK
  BY DEF DInv
<1> QED BY <1>1, Invariant, PTL

\* Transmission and reception start when they were asked to: Delay after the caller has
\* read the clock, less no more than the bits the chip ignores, at whatever point of the
\* period and whenever within MaxLag the command was given.
THEOREM StartsOnTime == Spec => StartsWhenAsked
<1>1. ASSUME DInv, Next, pc = "idle" \/ warned = {}, radio \in {"txwait", "rxwait"},
             radio' \in {"tx", "rx"}
      PROVE  elapsed' \in Delay - Ignored + 1 .. Delay
  <2> USE <1>1 DEF DInv
  <2>1. Tick
    <3>1. ~Stops /\ ~ReadSysTime /\ ~SetDelayedTrxTime /\ ~StartTx /\ ~RxEnable
      BY DEF Stops, ReadSysTime, SetDelayedTrxTime, StartTx, RxEnable, RadioInv
    <3>2. ~CheckTx
      BY DEF CheckTx
    <3>3. ~CheckRx
      BY DEF CheckRx
    <3> QED BY <3>1, <3>2, <3>3 DEF Next, Call
  <2>2. Waiting
    BY DEF Waiting
  <2>3. sysTime' = StartsAt(dxTime)
    BY <2>1 DEF Tick
  <2>4. elapsed' = Lead(start)
    BY <2>1, <2>2, <2>3, TickTo
  <2> QED BY <2>4, Leads
<1>2. DInv /\ [Next]_vars =>
        [(pc = "idle" \/ warned = {}) /\ radio \in {"txwait", "rxwait"} /\ radio' \in {"tx", "rx"}
           => elapsed' \in Delay - Ignored + 1 .. Delay]_vars
  BY <1>1
<1> QED
  BY <1>2, Invariant, PTL DEF Spec, StartsWhenAsked

\* The result of dwt_starttx and dwt_rxenable says what the radio does.
THEOREM ResultsAreTrue == Spec => ResultIsTrue
<1> DEFINE True == IF result' = "success"
                     THEN radio' \in {"tx", "rx"} \/ elapsed + Ahead(StartsAt(dxTime)) <= Delay
                     ELSE /\ elapsed > Delay - Ignored + 1 - PowerUp
                          /\ radio' = IF mode = "DELAYED" THEN "rx" ELSE "off"
<1>1. ASSUME DInv, Next, pc' = "idle", pc \in {"started", "enabled"}
      PROVE  True
  <2> USE <1>1 DEF DInv
  <2> PICK d \in Delay - Ignored + 1 .. Delay : d = Lead(start)
    BY Leads
  <2>1. CheckTx \/ CheckRx
    <3>1. ~Tick
      BY DEF Tick, caller
    <3> QED BY <3>1 DEF Next, Call, Stops, ReadSysTime, SetDelayedTrxTime, StartTx, RxEnable
  <2>2. warned # {} => elapsed > Delay - Ignored + 1 - PowerUp
    BY Sizes DEF WarnedInv, TypeOK
  <2>3. warned = {} /\ Waiting => elapsed + Ahead(StartsAt(dxTime)) <= Delay
    <3> SUFFICES ASSUME warned = {}, Waiting
                 PROVE  elapsed + Ahead(StartsAt(dxTime)) <= Delay
      OBVIOUS
    <3>1. elapsed < d /\ elapsed \in Nat
      BY Sizes DEF ArmedInv, TypeOK
    <3>2. Ahead(StartsAt(dxTime)) = d - elapsed
      BY <3>1, Warnings, Sizes
    <3> QED BY <3>1, <3>2, Sizes
  <2>4. CASE CheckTx
    <3>1. mode = "tx" /\ radio \in {"txwait", "tx"}
      BY <2>4 DEF CheckTx, RadioInv
    <3>2. CASE warned = {}
      BY <2>3, <2>4, <3>1, <3>2 DEF CheckTx, TxErr, Waiting
    <3>3. CASE warned # {}
      BY <2>2, <2>4, <3>1, <3>3 DEF CheckTx, TxErr
    <3> QED BY <3>2, <3>3
  <2>5. CASE CheckRx
    <3>1. mode \in RxModes /\ radio \in {"rxwait", "rx"} /\ warned \subseteq {"HPDWARN"}
      BY <2>5 DEF CheckRx, RadioInv, TypeOK
    <3>2. mode \in {"DELAYED", "DELAYED | IDLE_ON_DLY_ERR"}
      BY <3>1, RxModesAssumption
    <3>3. CASE warned = {}
      BY <2>3, <2>5, <3>1, <3>3 DEF CheckRx, Waiting
    <3>4. CASE "HPDWARN" \in warned
      <4>1. result' = "error" /\ radio' = IF mode = "DELAYED" THEN "rx" ELSE "off"
        BY <2>5, <3>2, <3>4 DEF CheckRx, WhenLate
      <4> QED BY <2>2, <3>4, <4>1
    <3> QED BY <3>1, <3>3, <3>4
  <2> QED BY <2>1, <2>4, <2>5
<1>2. DInv /\ [Next]_vars => [pc' = "idle" /\ pc \in {"started", "enabled"} => True]_vars
  BY <1>1
<1> QED
  BY <1>2, Invariant, PTL DEF Spec, ResultIsTrue
=============================================================================
