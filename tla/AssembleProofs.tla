--------------------------- MODULE AssembleProofs ---------------------------
(***************************************************************************)
(* The assembled code is the items, for programs of any length, numbers of *)
(* any size and bytes of any number of bits.                               *)
(***************************************************************************)
EXTENDS Assemble, WellFoundedInduction, TLAPS

-----------------------------------------------------------------------------
(***************************************************************************)
(* Numbers.                                                                *)
(***************************************************************************)
\* A set of numbers that is not empty has a least element.
LEMMA NatMin ==
  ASSUME NEW T \in SUBSET Nat, T # {}
  PROVE  \E x \in T : \A y \in T : x <= y
<1> DEFINE R == {ss \in Nat \X Nat : ss[1] < ss[2]}
<1>1. IsWellFoundedOn(R, Nat)
  BY NatLessThanWellFounded DEF OpToRel
<1>2. \A x, y \in Nat : y < x => <<y, x>> \in R
  <2> SUFFICES ASSUME NEW x \in Nat, NEW y \in Nat, y < x PROVE <<y, x>> \in R
    OBVIOUS
  <2>1. <<y, x>> \in Nat \X Nat /\ <<y, x>>[1] = y /\ <<y, x>>[2] = x
    OBVIOUS
  <2> QED
    BY <2>1
<1> HIDE DEF R
<1>3. PICK x \in T : \A y \in T : ~(<<y, x>> \in R)
  BY <1>1, WFMin
<1>4. \A y \in T : ~(y < x)
  BY <1>2, <1>3
<1> QED
  BY <1>4

\* Induction, for a property given as the set of the numbers that have it.
LEMMA SetInduction ==
  ASSUME NEW S, 0 \in S, \A n \in Nat : n \in S => n + 1 \in S
  PROVE  Nat \subseteq S
<1> SUFFICES ASSUME Nat \ S # {} PROVE FALSE
  OBVIOUS
<1>1. PICK x \in Nat \ S : \A y \in Nat \ S : x <= y
  BY NatMin
<1>2. x # 0 /\ x - 1 \in Nat /\ x - 1 \in S
  BY <1>1
<1> QED
  BY <1>1, <1>2

(***************************************************************************)
(* A step function and a first value make a sequence.  The prefixes exist  *)
(* by induction and agree where they overlap.                              *)
(***************************************************************************)
Iterates(f, a, s) == f[0] = a /\ \A n \in Nat : f[n + 1] = s[<<n + 1, f[n]>>]

\* A recursion over the numbers has a solution.
LEMMA RecursiveSequence ==
  ASSUME NEW S, NEW a, a \in S, NEW s, s \in [Nat \X S -> S]
  PROVE  \E f \in [Nat -> S] : Iterates(f, a, s)
<1> DEFINE Prefix(g, n) == /\ g \in [0 .. n -> S] /\ g[0] = a
                           /\ \A i \in 0 .. n - 1 : g[i + 1] = s[<<i + 1, g[i]>>]
           P == {n \in Nat : \E g : Prefix(g, n)}
<1>1. 0 \in P
  <2>1. Prefix([i \in 0 .. 0 |-> a], 0)
    OBVIOUS
  <2> QED
    BY <2>1
<1>2. ASSUME NEW n \in Nat, n \in P PROVE n + 1 \in P
  <2>1. PICK g : Prefix(g, n)
    BY <1>2
  <2> DEFINE h == [i \in 0 .. n + 1 |-> IF i = n + 1 THEN s[<<n + 1, g[n]>>] ELSE g[i]]
  <2>2. g[n] \in S /\ <<n + 1, g[n]>> \in Nat \X S
    BY <2>1
  <2>3. h \in [0 .. n + 1 -> S] /\ h[0] = a
    BY <2>1, <2>2
  <2>4. h[n + 1] = s[<<n + 1, g[n]>>] /\ \A i \in 0 .. n : h[i] = g[i]
    OBVIOUS
  <2> HIDE DEF h
  <2>5. ASSUME NEW i \in 0 .. n PROVE h[i + 1] = s[<<i + 1, h[i]>>]
    <3>1. CASE i = n
      BY <3>1, <2>4
    <3>2. CASE i # n
      <4>1. i \in 0 .. n - 1 /\ i + 1 \in 0 .. n
        BY <3>2
      <4> QED
        BY <4>1, <2>1, <2>4
    <3> QED
      BY <3>1, <3>2
  <2>6. 0 .. (n + 1) - 1 = 0 .. n
    OBVIOUS
  <2>7. Prefix(h, n + 1)
    BY <2>3, <2>5, <2>6
  <2> QED
    BY <2>7
<1> HIDE DEF P
<1>3. \A n \in Nat : n \in P
  BY <1>1, <1>2, SetInduction
<1> USE DEF P
<1> DEFINE at == [n \in Nat |-> CHOOSE g : Prefix(g, n)]
<1>4. ASSUME NEW n \in Nat PROVE Prefix(at[n], n)
  BY <1>3
<1> HIDE DEF P, at
<1>5. ASSUME NEW n \in Nat PROVE at[n + 1][n] = at[n][n]
  <2> DEFINE Q == {i \in Nat : i <= n => at[n + 1][i] = at[n][i]}
  <2>1. Prefix(at[n], n) /\ Prefix(at[n + 1], n + 1)
    BY <1>4
  <2>2. 0 \in Q
    BY <2>1
  <2>3. ASSUME NEW i \in Nat, i \in Q PROVE i + 1 \in Q
    <3> SUFFICES ASSUME i + 1 <= n PROVE at[n + 1][i + 1] = at[n][i + 1]
      OBVIOUS
    <3>1. i \in 0 .. n - 1 /\ i \in 0 .. (n + 1) - 1 /\ at[n + 1][i] = at[n][i]
      BY <2>3
    <3> QED
      BY <3>1, <2>1
  <2> HIDE DEF Q
  <2>4. n \in Q
    BY <2>2, <2>3, SetInduction
  <2> QED
    BY <2>4 DEF Q
<1> DEFINE f == [n \in Nat |-> at[n][n]]
<1>6. f \in [Nat -> S] /\ f[0] = a
  BY <1>4
<1>7. ASSUME NEW n \in Nat PROVE f[n + 1] = s[<<n + 1, f[n]>>]
  <2>1. at[n + 1][n + 1] = s[<<n + 1, at[n + 1][n]>>]
    BY <1>4
  <2> QED
    BY <2>1, <1>5
<1> QED
  BY <1>6, <1>7 DEF Iterates

-----------------------------------------------------------------------------
(***************************************************************************)
(* Powers of the byte base and the number of bytes of a number.            *)
(***************************************************************************)
LEMMA BytePowerFacts ==
  /\ BytePower[0] = 1
  /\ \A n \in Nat : BytePower[n] \in Nat /\ BytePower[n + 1] = ByteBase * BytePower[n]
<1> DEFINE s == [x \in Nat \X Nat |-> ByteBase * x[2]]
<1>1. s \in [Nat \X Nat -> Nat]
  BY ByteAssumption
<1> HIDE DEF s
<1>2. PICK f \in [Nat -> Nat] : f[0] = 1 /\ \A n \in Nat : f[n + 1] = s[<<n + 1, f[n]>>]
  <2>1. 1 \in Nat
    OBVIOUS
  <2>2. \E f \in [Nat -> Nat] : Iterates(f, 1, s)
    BY <1>1, <2>1, RecursiveSequence
  <2> QED
    BY <2>2 DEF Iterates
<1>3. ASSUME NEW n \in Nat PROVE f[n + 1] = ByteBase * f[n]
  <2>1. <<n + 1, f[n]>> \in Nat \X Nat /\ f[n + 1] = s[<<n + 1, f[n]>>]
    BY <1>2
  <2> QED
    BY <2>1 DEF s
<1>4. f = [n \in Nat |-> IF n = 0 THEN 1 ELSE ByteBase * f[n - 1]]
  <2>1. ASSUME NEW n \in Nat, n # 0 PROVE f[n] = ByteBase * f[n - 1]
    <3>1. n - 1 \in Nat /\ (n - 1) + 1 = n
      BY <2>1
    <3> QED
      BY <3>1, <1>3
  <2> QED
    BY <2>1, <1>2
<1>5. BytePower = [n \in Nat |-> IF n = 0 THEN 1 ELSE ByteBase * BytePower[n - 1]]
  BY <1>4 DEF BytePower
<1>6. BytePower[0] = 1
  BY <1>5
<1>7. ASSUME NEW n \in Nat PROVE BytePower[n + 1] = ByteBase * BytePower[n]
  BY <1>5
<1> DEFINE P == {n \in Nat : BytePower[n] \in Nat}
<1>8. 0 \in P
  BY <1>6
<1>9. ASSUME NEW n \in Nat, n \in P PROVE n + 1 \in P
  BY <1>9, <1>7, ByteAssumption
<1> HIDE DEF P
<1>10. \A n \in Nat : n \in P
  BY <1>8, <1>9, SetInduction
<1> QED
  BY <1>6, <1>7, <1>10 DEF P

\* The powers of the base grow with the exponent.
LEMMA PowerGrows ==
  /\ \A n \in Nat : BytePower[n] >= n + 1
  /\ \A m, n \in Nat : m <= n => BytePower[m] <= BytePower[n]
<1> DEFINE P == {n \in Nat : BytePower[n] >= n + 1}
           Q(m) == {d \in Nat : BytePower[m] <= BytePower[m + d]}
<1>1. ASSUME NEW n \in Nat PROVE BytePower[n + 1] >= BytePower[n] + BytePower[n]
  <2>1. BytePower[n] \in Nat /\ BytePower[n + 1] = ByteBase * BytePower[n]
    BY BytePowerFacts
  <2>2. \A b, p \in Nat : b >= 2 => b * p >= p + p
    OBVIOUS
  <2> QED
    BY <2>1, <2>2, ByteAssumption
<1>2. 0 \in P
  BY BytePowerFacts
<1>3. ASSUME NEW n \in Nat, n \in P PROVE n + 1 \in P
  BY <1>1, <1>3, BytePowerFacts
<1>4. ASSUME NEW m \in Nat PROVE 0 \in Q(m)
  BY <1>4, BytePowerFacts
<1>5. ASSUME NEW m \in Nat, NEW d \in Nat, d \in Q(m) PROVE d + 1 \in Q(m)
  <2>1. m + d \in Nat /\ m + (d + 1) = (m + d) + 1
    OBVIOUS
  <2>2. BytePower[m + d] \in Nat /\ BytePower[m] \in Nat /\ BytePower[(m + d) + 1] \in Nat
    BY <2>1, BytePowerFacts
  <2> QED
    BY <1>1, <1>5, <2>1, <2>2
<1> HIDE DEF P, Q
<1>6. \A n \in Nat : n \in P
  BY <1>2, <1>3, SetInduction
<1>7. ASSUME NEW m \in Nat, NEW n \in Nat, m <= n PROVE n - m \in Q(m)
  <2>1. Nat \subseteq Q(m)
    BY <1>4, <1>5, SetInduction
  <2> QED
    BY <1>7, <2>1
<1>8. ASSUME NEW m \in Nat, NEW n \in Nat, m <= n PROVE BytePower[m] <= BytePower[n]
  <2>1. m + (n - m) = n
    OBVIOUS
  <2> QED
    BY <1>7, <1>8, <2>1 DEF Q
<1> QED
  BY <1>6, <1>8 DEF P

\* The power of twice the exponent is the square.
LEMMA PowerSquare == \A n \in Nat : BytePower[n + n] = BytePower[n] * BytePower[n]
<1> DEFINE P == {n \in Nat : BytePower[n + n] = BytePower[n] * BytePower[n]}
<1>1. 0 \in P
  BY BytePowerFacts
<1>2. ASSUME NEW n \in Nat, n \in P PROVE n + 1 \in P
  <2>1. (n + 1) + (n + 1) = (n + n + 1) + 1 /\ n + n \in Nat /\ n + n + 1 \in Nat
    OBVIOUS
  <2>2. /\ BytePower[(n + n + 1) + 1] = ByteBase * BytePower[n + n + 1]
        /\ BytePower[n + n + 1] = ByteBase * BytePower[n + n]
        /\ BytePower[n + 1] = ByteBase * BytePower[n]
        /\ BytePower[n] \in Nat
    BY <2>1, BytePowerFacts
  <2>3. BytePower[n + n] = BytePower[n] * BytePower[n]
    BY <1>2
  <2>4. \A b, p \in Nat : b * (b * (p * p)) = (b * p) * (b * p)
    OBVIOUS
  <2> QED
    BY <2>1, <2>2, <2>3, <2>4, ByteAssumption
<1> HIDE DEF P
<1>3. \A n \in Nat : n \in P
  BY <1>1, <1>2, SetInduction
<1> QED
  BY <1>3 DEF P

\* What the quotient and the remainder are, and that nothing else is the quotient.
LEMMA Division ==
  ASSUME NEW a \in Nat, NEW b \in Nat, b # 0
  PROVE  /\ a \div b \in Nat /\ b * (a \div b) <= a /\ a < b * (a \div b) + b
         /\ a % b \in 0 .. b - 1 /\ a = b * (a \div b) + (a % b)
         /\ \A q \in Nat : b * q <= a /\ a < b * q + b => q = a \div b
<1>1. a \div b \in Nat /\ a % b \in 0 .. b - 1 /\ a = b * (a \div b) + (a % b)
  OBVIOUS
<1>2. b * (a \div b) <= a /\ a < b * (a \div b) + b
  BY <1>1
<1>3. ASSUME NEW q \in Nat, b * q <= a, a < b * q + b PROVE q = a \div b
  <2>1. \A x, y \in Nat : x < y => b * x + b <= b * y
    <3> SUFFICES ASSUME NEW x \in Nat, NEW y \in Nat, x < y PROVE b * x + b <= b * y
      OBVIOUS
    <3>1. b * (x + 1) = b * x + b /\ x + 1 <= y
      OBVIOUS
    <3>2. \A u, v \in Nat : u <= v => b * u <= b * v
      OBVIOUS
    <3> QED
      BY <3>1, <3>2
  <2>2. ~(q < a \div b) /\ ~(a \div b < q)
    BY <1>1, <1>2, <1>3, <2>1
  <2> QED
    BY <1>1, <2>2
<1> QED
  BY <1>1, <1>2, <1>3

\* Dividing by a power and then by the base is dividing by the next power.
LEMMA NextQuotient ==
  ASSUME NEW v \in Nat, NEW n \in Nat
  PROVE  /\ v \div BytePower[n] \in Nat
         /\ v \div BytePower[n + 1] = (v \div BytePower[n]) \div ByteBase
         /\ v \div BytePower[n]
              = (v \div BytePower[n + 1]) * ByteBase + ((v \div BytePower[n]) % ByteBase)
<1> DEFINE p == BytePower[n]
           q == v \div p
           r == q \div ByteBase
<1>1. p \in Nat /\ p # 0 /\ BytePower[n + 1] = ByteBase * p /\ ByteBase * p \in Nat /\ ByteBase * p # 0
  <2>1. p \in Nat /\ p # 0 /\ BytePower[n + 1] = ByteBase * p
    BY BytePowerFacts, PowerGrows
  <2>2. \A b, x \in Nat : b # 0 /\ x # 0 => b * x \in Nat /\ b * x # 0
    OBVIOUS
  <2> QED
    BY <2>1, <2>2, ByteAssumption
<1> HIDE DEF p
<1>2. q \in Nat /\ p * q <= v /\ v < p * q + p
  BY <1>1, Division
<1> HIDE DEF q
<1>3. r \in Nat /\ ByteBase * r <= q /\ q < ByteBase * r + ByteBase
      /\ q = ByteBase * r + (q % ByteBase)
  <2>1. ByteBase \in Nat /\ ByteBase # 0 /\ q \in Nat
    BY <1>2, ByteAssumption
  <2> HIDE DEF ByteBase
  <2> QED
    BY <2>1, Division
<1>4. q % ByteBase \in Nat
  BY <1>2, Division, ByteAssumption
<1> HIDE DEF r
<1>5. (ByteBase * p) * r <= v
  <2>1. \A b, x, y, z \in Nat : b * y <= z => (b * x) * y <= x * z
    <3> SUFFICES ASSUME NEW b \in Nat, NEW x \in Nat, NEW y \in Nat, NEW z \in Nat, b * y <= z
                 PROVE  (b * x) * y <= x * z
      OBVIOUS
    <3>1. (b * x) * y = x * (b * y) /\ b * y \in Nat
      OBVIOUS
    <3>2. \A i, j \in Nat : i <= j => x * i <= x * j
      OBVIOUS
    <3> QED
      BY <3>1, <3>2
  <2>2. (ByteBase * p) * r <= p * q
    BY <2>1, <1>1, <1>2, <1>3, ByteAssumption
  <2>3. (ByteBase * p) * r \in Nat /\ p * q \in Nat
    BY <1>1, <1>2, <1>3
  <2> QED
    BY <2>2, <2>3, <1>2
<1>6. v < (ByteBase * p) * r + ByteBase * p
  <2>1. q + 1 <= ByteBase * (r + 1)
    <3>1. ByteBase * (r + 1) = ByteBase * r + ByteBase
      BY <1>3, ByteAssumption
    <3>2. ByteBase * r \in Nat
      BY <1>3, ByteAssumption
    <3> QED
      BY <3>1, <3>2, <1>2, <1>3, ByteAssumption
  <2>2. p * (q + 1) <= p * (ByteBase * (r + 1))
    <3>1. ByteBase * (r + 1) \in Nat
      BY <1>3, ByteAssumption
    <3>2. \A i, j \in Nat : i <= j => p * i <= p * j
      BY <1>1
    <3> QED
      BY <3>1, <3>2, <2>1, <1>2
  <2>3. p * (ByteBase * (r + 1)) = (ByteBase * p) * r + ByteBase * p
    BY <1>1, <1>3, ByteAssumption
  <2>4. p * (q + 1) = p * q + p
    BY <1>1, <1>2
  <2>5. p * q \in Nat /\ (ByteBase * p) * r \in Nat
    BY <1>1, <1>2, <1>3
  <2> QED
    BY <2>2, <2>3, <2>4, <2>5, <1>1, <1>2
<1>7. r = v \div (ByteBase * p)
  BY <1>1, <1>3, <1>5, <1>6, Division
<1>8. v \div BytePower[n + 1] = r
  BY <1>1, <1>7
<1>9. q = r * ByteBase + (q % ByteBase)
  <2>1. ByteBase * r = r * ByteBase
    BY <1>3, ByteAssumption
  <2> QED
    BY <2>1, <1>3
<1> QED
  BY <1>2, <1>8, <1>9 DEF p, q, r

\* A number without its last byte takes one byte less.
LEMMA Shorter ==
  ASSUME NEW n \in Nat, NEW k \in Nat
  PROVE  n < BytePower[k + 1] <=> n \div ByteBase < BytePower[k]
<1> DEFINE q == n \div ByteBase
           p == BytePower[k]
<1>1. ByteBase \in Nat /\ ByteBase # 0 /\ p \in Nat /\ BytePower[k + 1] = ByteBase * p
  BY ByteAssumption, BytePowerFacts
<1> HIDE DEF ByteBase, p
<1>2. q \in Nat /\ ByteBase * q <= n /\ n < ByteBase * q + ByteBase
  BY <1>1, Division
<1> HIDE DEF q
<1>3. \A x, y \in Nat : x <= y => ByteBase * x <= ByteBase * y
  BY <1>1
<1>4. ByteBase * (q + 1) = ByteBase * q + ByteBase
  BY <1>1, <1>2
<1>5. ByteBase * q \in Nat /\ ByteBase * p \in Nat
  BY <1>1, <1>2
<1>6. ASSUME q < p PROVE n < ByteBase * p
  <2>1. ByteBase * (q + 1) <= ByteBase * p
    BY <1>1, <1>2, <1>3, <1>6
  <2> QED
    BY <2>1, <1>1, <1>2, <1>4, <1>5
<1>7. ASSUME ~(q < p) PROVE ~(n < ByteBase * p)
  <2>1. ByteBase * p <= ByteBase * q
    BY <1>1, <1>2, <1>3, <1>7
  <2> QED
    BY <2>1, <1>2, <1>5
<1> QED
  BY <1>1, <1>6, <1>7 DEF q, p

(***************************************************************************)
(* bytesRequired of a number is the least number of bytes that hold it.    *)
(***************************************************************************)
Holds(n, k) == k \in Nat /\ n < BytePower[k] /\ \A j \in Nat : n < BytePower[j] => k <= j

\* bytesRequired of a number is the least width that holds it.
LEMMA BytesOfFacts == \A n \in Nat : Holds(n, BytesOf[n])
<1> DEFINE least == [n \in Nat |-> CHOOSE k : Holds(n, k)]
<1>1. ASSUME NEW n \in Nat PROVE Holds(n, least[n])
  <2> DEFINE T == {k \in Nat : n < BytePower[k]}
  <2>1. n \in T
    BY PowerGrows, BytePowerFacts
  <2>2. PICK k \in T : \A j \in T : k <= j
    BY <2>1, NatMin
  <2>3. Holds(n, k)
    BY <2>2 DEF Holds
  <2> QED
    BY <2>3
<1>2. ASSUME NEW n \in Nat, NEW j, NEW k, Holds(n, j), Holds(n, k) PROVE j = k
  BY <1>2 DEF Holds
<1> HIDE DEF least
<1>3. Holds(0, 0)
  BY BytePowerFacts DEF Holds
<1>4. ASSUME NEW n \in Nat, n # 0, NEW k, Holds(n \div ByteBase, k) PROVE Holds(n, 1 + k)
  <2>1. k \in Nat /\ n < BytePower[k + 1] /\ k + 1 = 1 + k
    BY <1>4, Shorter DEF Holds
  <2>2. ASSUME NEW j \in Nat, n < BytePower[j] PROVE 1 + k <= j
    <3>1. j # 0
      BY <1>4, <2>2, BytePowerFacts
    <3>2. PICK i \in Nat : j = i + 1
      <4>1. j - 1 \in Nat /\ j = (j - 1) + 1
        BY <3>1
      <4> QED
        BY <4>1
    <3>3. n \div ByteBase < BytePower[i]
      BY <3>2, <2>2, Shorter
    <3>4. k <= i
      BY <3>3, <1>4 DEF Holds
    <3> QED
      BY <3>2, <3>4, <2>1
  <2> QED
    BY <2>1, <2>2 DEF Holds
<1>5. ASSUME NEW n \in Nat PROVE n \div ByteBase \in Nat /\ (n # 0 => n \div ByteBase < n)
  <2>1. ByteBase \in Nat /\ ByteBase >= 2
    BY ByteAssumption
  <2> HIDE DEF ByteBase
  <2>2. n \div ByteBase \in Nat /\ ByteBase * (n \div ByteBase) <= n
    BY <2>1, Division
  <2>3. \A b, q \in Nat : b >= 2 => b * q >= q + q
    OBVIOUS
  <2>4. ByteBase * (n \div ByteBase) \in Nat
    BY <2>1, <2>2
  <2> QED
    BY <2>1, <2>2, <2>3, <2>4
<1>6. least = [n \in Nat |-> IF n = 0 THEN 0 ELSE 1 + least[n \div ByteBase]]
  <2>1. least[0] = 0
    BY <1>1, <1>2, <1>3
  <2>2. ASSUME NEW n \in Nat, n # 0 PROVE least[n] = 1 + least[n \div ByteBase]
    BY <1>1, <1>2, <1>4, <1>5, <2>2
  <2>3. least = [n \in Nat |-> least[n]]
    BY DEF least
  <2> QED
    BY <2>1, <2>2, <2>3
<1>7. BytesOf = [n \in Nat |-> IF n = 0 THEN 0 ELSE 1 + BytesOf[n \div ByteBase]]
  BY <1>6 DEF BytesOf
<1> DEFINE P == {n \in Nat : \A m \in 0 .. n : Holds(m, BytesOf[m])}
<1>8. 0 \in P
  <2>1. BytesOf[0] = 0
    BY <1>7
  <2> QED
    BY <2>1, <1>3
<1>9. ASSUME NEW n \in Nat, n \in P PROVE n + 1 \in P
  <2>1. (n + 1) \div ByteBase \in 0 .. n
    <3>1. n + 1 \in Nat /\ n + 1 # 0
      OBVIOUS
    <3> QED
      BY <3>1, <1>5
  <2>2. Holds(n + 1, 1 + BytesOf[(n + 1) \div ByteBase])
    BY <2>1, <1>4, <1>9
  <2>3. BytesOf[n + 1] = 1 + BytesOf[(n + 1) \div ByteBase]
    BY <1>7
  <2>4. ASSUME NEW m \in 0 .. n + 1, m # n + 1 PROVE m \in 0 .. n
    BY <2>4
  <2> QED
    BY <2>2, <2>3, <2>4, <1>9
<1> HIDE DEF P
<1>10. \A n \in Nat : n \in P
  BY <1>8, <1>9, SetInduction
<1> QED
  BY <1>10 DEF P

-----------------------------------------------------------------------------
(***************************************************************************)
(* Sums of sizes and sequences put together.                               *)
(***************************************************************************)
LEMMA Elements ==
  ASSUME NEW S, NEW s \in Seq(S)
  PROVE  Len(s) \in Nat /\ DOMAIN s = 1 .. Len(s) /\ \A i \in 1 .. Len(s) : s[i] \in S
  OBVIOUS



\* A function on 1 .. n is a sequence of length n.
LEMMA FunctionSequence ==
  ASSUME NEW S, NEW s, NEW n \in Nat, s \in [1 .. n -> S]
  PROVE  s \in Seq(S) /\ Len(s) = n
  OBVIOUS

\* A length of at most one is 0 or 1.
LEMMA AtMostOne ==
  ASSUME NEW S, NEW s \in Seq(S), Len(s) <= 1
  PROVE  Len(s) \in {0, 1}
<1>1. PICK n \in Nat : n = Len(s)
  BY Elements
<1>2. n <= 1
  BY <1>1
<1>3. n \in {0, 1}
  BY <1>2
<1> QED
  BY <1>1, <1>3

\* Elements a + 1 to b of x \o y are those of y, the first a those of x.
JoinedAt(C, x, y, a, b) ==
  /\ x \o y \in Seq(C) /\ Len(x \o y) = b
  /\ \A k \in 1 .. a : k \in 1 .. b /\ (x \o y)[k] = x[k]
  /\ \A k \in 1 .. Len(y) : a + k \in 1 .. b /\ (x \o y)[a + k] = y[k]

\* Two sequences joined.
LEMMA Joined ==
  ASSUME NEW C, NEW x, NEW y, NEW a, NEW b, x \in Seq(C), y \in Seq(C), Len(x) = a, b = a + Len(y)
  PROVE  JoinedAt(C, x, y, a, b)
<1>1. a \in Nat /\ Len(y) \in Nat
  OBVIOUS
<1>2. \A k \in 1 .. a : k \in 1 .. b
  BY <1>1
<1>3. \A k \in 1 .. Len(y) : a + k \in 1 .. b
  BY <1>1
<1>4. x \o y \in Seq(C) /\ Len(x \o y) = b
  BY <1>1
<1>5. \A k \in 1 .. a : (x \o y)[k] = x[k]
  BY <1>1
<1>6. \A k \in 1 .. Len(y) : (x \o y)[a + k] = y[k]
  BY <1>1
<1> QED
  BY <1>1, <1>2, <1>3, <1>4, <1>5, <1>6 DEF JoinedAt

\* f[i] is the sum of the first i elements of s.
Sums(f, s) ==
  /\ f \in [0 .. Len(s) -> Nat] /\ f[0] = 0
  /\ \A i \in 1 .. Len(s) : f[i] = f[i - 1] + s[i]

\* Every sequence of sizes has its partial sums,
LEMMA SumsExist ==
  ASSUME NEW s \in Seq(Nat)
  PROVE  \E f : Sums(f, s)
<1> DEFINE step == [x \in Nat \X Nat |-> x[2] + (IF x[1] \in 1 .. Len(s) THEN s[x[1]] ELSE 0)]
<1>1. step \in [Nat \X Nat -> Nat]
  OBVIOUS
<1>2. ASSUME NEW n \in Nat, NEW x \in Nat
      PROVE  step[<<n, x>>] = x + (IF n \in 1 .. Len(s) THEN s[n] ELSE 0)
  OBVIOUS
<1> HIDE DEF step
<1>3. PICK g \in [Nat -> Nat] : Iterates(g, 0, step)
  <2>1. 0 \in Nat
    OBVIOUS
  <2> QED
    BY <1>1, <2>1, RecursiveSequence
<1> DEFINE f == [i \in 0 .. Len(s) |-> g[i]]
<1>4. f \in [0 .. Len(s) -> Nat] /\ f[0] = 0
  BY <1>3 DEF Iterates
<1>5. ASSUME NEW i \in 1 .. Len(s) PROVE f[i] = f[i - 1] + s[i]
  <2>1. i - 1 \in Nat /\ (i - 1) + 1 = i /\ i \in Nat
    OBVIOUS
  <2>2. g[i] = step[<<i, g[i - 1]>>]
    BY <2>1, <1>3 DEF Iterates
  <2>3. g[i - 1] \in Nat
    BY <2>1
  <2>4. step[<<i, g[i - 1]>>] = g[i - 1] + s[i]
    BY <2>1, <2>3, <1>2
  <2>5. f[i] = g[i] /\ f[i - 1] = g[i - 1]
    BY <2>1
  <2> QED
    BY <2>2, <2>4, <2>5
<1> QED
  BY <1>4, <1>5 DEF Sums

\* and only one function is that.
LEMMA SumsUnique ==
  ASSUME NEW s \in Seq(Nat), NEW f, NEW g, Sums(f, s),
         g = [i \in 0 .. Len(s) |-> IF i = 0 THEN 0 ELSE g[i - 1] + s[i]]
  PROVE  g = f
<1> DEFINE P == {i \in Nat : i <= Len(s) => g[i] = f[i]}
<1>1. 0 \in P
  BY DEF Sums
<1>2. ASSUME NEW i \in Nat, i \in P PROVE i + 1 \in P
  <2> SUFFICES ASSUME i + 1 <= Len(s) PROVE g[i + 1] = f[i + 1]
    OBVIOUS
  <2>1. i + 1 \in 1 .. Len(s) /\ (i + 1) - 1 = i /\ i <= Len(s)
    BY <1>2
  <2>2. g[i] = f[i]
    BY <1>2, <2>1
  <2>3. f[i + 1] = f[i] + s[i + 1]
    BY <2>1 DEF Sums
  <2>4. g[i + 1] = g[i] + s[i + 1]
    BY <2>1
  <2> QED
    BY <2>2, <2>3, <2>4
<1> HIDE DEF P
<1>3. \A i \in Nat : i \in P
  BY <1>1, <1>2, SetInduction
<1>4. ASSUME NEW i \in 0 .. Len(s) PROVE g[i] = f[i]
  <2>1. i \in Nat /\ i <= Len(s)
    BY Elements
  <2> QED
    BY <2>1, <1>3 DEF P
<1>5. f = [i \in 0 .. Len(s) |-> f[i]]
  BY DEF Sums
<1>6. g = [i \in 0 .. Len(s) |-> g[i]]
  OBVIOUS
<1> QED
  BY <1>4, <1>5, <1>6

\* Total is the last partial sum.
LEMMA TotalIsSum ==
  ASSUME NEW s \in Seq(Nat), NEW f, Sums(f, s)
  PROVE  Total(s) = f[Len(s)]
<1> DEFINE upTo == CHOOSE g : g = [i \in 0 .. Len(s) |-> IF i = 0 THEN 0 ELSE g[i - 1] + s[i]]
<1>1. f = [i \in 0 .. Len(s) |-> IF i = 0 THEN 0 ELSE f[i - 1] + s[i]]
  BY DEF Sums
<1>2. upTo = [i \in 0 .. Len(s) |-> IF i = 0 THEN 0 ELSE upTo[i - 1] + s[i]]
  BY <1>1
<1>3. Total(s) = upTo[Len(s)]
  BY DEF Total
<1> HIDE DEF upTo
<1>4. upTo = f
  BY <1>2, SumsUnique
<1> QED
  BY <1>3, <1>4

\* The sum of sizes is a number; that of none is 0, that of one is the one.
LEMMA TotalFacts ==
  ASSUME NEW s \in Seq(Nat)
  PROVE  /\ Total(s) \in Nat
         /\ Len(s) = 0 => Total(s) = 0
         /\ Len(s) = 1 => Total(s) = s[1]
<1>1. PICK f : Sums(f, s)
  BY SumsExist
<1>2. Total(s) = f[Len(s)]
  BY <1>1, TotalIsSum
<1>3. f \in [0 .. Len(s) -> Nat] /\ f[0] = 0 /\ (Len(s) = 1 => f[1] = f[0] + s[1])
  BY <1>1 DEF Sums
<1>4. (Len(s) = 1 => s[1] \in Nat) /\ Len(s) \in Nat
  BY Elements
<1> QED
  BY <1>2, <1>3, <1>4

\* Two sequences of sizes that differ by at most k everywhere.
LEMMA TotalBound ==
  ASSUME NEW s \in Seq(Nat), NEW t \in Seq(Nat), Len(t) = Len(s), NEW k \in Nat,
         \A i \in 1 .. Len(s) : t[i] <= s[i] + k
  PROVE  Total(t) <= Total(s) + Len(s) * k
<1>1. PICK f : Sums(f, s)
  BY SumsExist
<1>2. PICK g : Sums(g, t)
  BY SumsExist
<1> DEFINE P == {i \in Nat : i <= Len(s) => g[i] <= f[i] + i * k}
<1>3. 0 \in P
  BY <1>1, <1>2 DEF Sums
<1>4. ASSUME NEW i \in Nat, i \in P PROVE i + 1 \in P
  <2> SUFFICES ASSUME i + 1 <= Len(s) PROVE g[i + 1] <= f[i + 1] + (i + 1) * k
    OBVIOUS
  <2>1. i + 1 \in 1 .. Len(s) /\ (i + 1) - 1 = i /\ i \in 0 .. Len(s) /\ i <= Len(s)
    BY Elements
  <2>2. f[i + 1] = f[i] + s[i + 1] /\ f[i] \in Nat /\ s[i + 1] \in Nat
    BY <1>1, <2>1, Elements DEF Sums
  <2>3. g[i + 1] = g[i] + t[i + 1] /\ g[i] \in Nat /\ t[i + 1] \in Nat
    BY <1>2, <2>1, Elements DEF Sums
  <2>4. t[i + 1] <= s[i + 1] + k
    BY <2>1
  <2> DEFINE p == i * k
             q == (i + 1) * k
  <2>5. q = p + k /\ p \in Nat /\ g[i] <= f[i] + p
    BY <2>1, <1>4
  <2> HIDE DEF p, q
  <2>6. \A a, b, c, d, e \in Nat : a <= c + e /\ b <= d + k => a + b <= (c + d) + (e + k)
    OBVIOUS
  <2>7. g[i] + t[i + 1] <= (f[i] + s[i + 1]) + (p + k)
    BY <2>2, <2>3, <2>4, <2>5, <2>6, Zenon
  <2>8. g[i + 1] <= f[i + 1] + q
    BY <2>2, <2>3, <2>5, <2>7, Zenon
  <2> QED
    BY <2>8 DEF q
<1> HIDE DEF P
<1>5. \A i \in Nat : i \in P
  BY <1>3, <1>4, SetInduction
<1>6. g[Len(s)] <= f[Len(s)] + Len(s) * k
  BY <1>5 DEF P
<1> QED
  BY <1>1, <1>2, <1>6, TotalIsSum

\* What FlattenSeq makes of sequences: each of them where the ones before it end.
InPieces(s, seqs, m, f) ==
  /\ Len(s) = f[m]
  /\ \A i \in 1 .. m : \A k \in 1 .. Len(seqs[i]) :
       f[i - 1] + k \in 1 .. f[m] /\ s[f[i - 1] + k] = seqs[i][k]

\* Sequences put together, with the partial sums of their lengths.
LEMMA FlattenFacts ==
  ASSUME NEW C, NEW m, m \in Nat, NEW seqs, seqs \in [1 .. m -> Seq(C)],
         NEW f, Sums(f, [i \in 1 .. m |-> Len(seqs[i])])
  PROVE  FlattenSeq(seqs) \in Seq(C) /\ InPieces(FlattenSeq(seqs), seqs, m, f)
<1> USE DEF InPieces
<1> DEFINE lens == [i \in 1 .. m |-> Len(seqs[i])]
<1>1. lens \in Seq(Nat) /\ Len(lens) = m /\ Len(seqs) = m
  OBVIOUS
<1>2. f \in [0 .. m -> Nat] /\ f[0] = 0 /\ \A i \in 1 .. m : f[i] = f[i - 1] + Len(seqs[i])
  BY <1>1 DEF Sums
<1>3. CASE m = 0
  <2>1. FlattenSeq(seqs) = seqs /\ seqs \in Seq(C)
    BY <1>1, <1>3 DEF FlattenSeq
  <2> QED
    BY <1>1, <1>2, <1>3, <2>1
<1>4. CASE m # 0
  <2> DEFINE step == [x \in Nat \X Seq(C) |->
                        x[2] \o (IF x[1] + 1 \in 1 .. m THEN seqs[x[1] + 1] ELSE <<>>)]
             flatten == CHOOSE g : g = [i \in 1 .. Len(seqs) |->
                                          IF i = 1 THEN seqs[i] ELSE g[i - 1] \o seqs[i]]
  <2>1. step \in [Nat \X Seq(C) -> Seq(C)]
    OBVIOUS
  <2>2. ASSUME NEW n \in Nat, NEW x \in Seq(C), n + 1 \in 1 .. m
        PROVE  step[<<n, x>>] = x \o seqs[n + 1]
    BY <2>2
  <2> HIDE DEF step
  <2>3. seqs[1] \in Seq(C)
    BY <1>4
  <2>4. PICK h \in [Nat -> Seq(C)] : Iterates(h, seqs[1], step)
    BY <2>1, <2>3, RecursiveSequence
  <2> DEFINE w == [i \in 1 .. m |-> h[i - 1]]
  <2>5. ASSUME NEW i \in 1 .. m, i # 1 PROVE w[i] = w[i - 1] \o seqs[i]
    <3>1. i - 1 \in 1 .. m /\ i - 1 \in Nat /\ i - 2 \in Nat /\ (i - 2) + 1 = i - 1 /\ (i - 1) - 1 = i - 2
          /\ (i - 1) + 1 = i
      BY <2>5
    <3>2. h[i - 1] = step[<<i - 1, h[i - 2]>>] /\ h[i - 2] \in Seq(C)
      BY <3>1, <2>4 DEF Iterates
    <3>3. step[<<i - 1, h[i - 2]>>] = h[i - 2] \o seqs[i]
      BY <3>1, <3>2, <2>2
    <3> QED
      BY <3>1, <3>2, <3>3
  <2>6. w[1] = seqs[1]
    BY <1>4, <2>4 DEF Iterates
  <2>7. w = [i \in 1 .. m |-> w[i]]
    OBVIOUS
  <2> HIDE DEF w
  <2>8. w = [i \in 1 .. Len(seqs) |-> IF i = 1 THEN seqs[i] ELSE w[i - 1] \o seqs[i]]
    BY <1>1, <2>5, <2>6, <2>7
  <2>9. flatten = [i \in 1 .. Len(seqs) |-> IF i = 1 THEN seqs[i] ELSE flatten[i - 1] \o seqs[i]]
    BY <2>8
  <2>10. FlattenSeq(seqs) = flatten[m]
    BY <1>1, <1>4 DEF FlattenSeq
  <2> HIDE DEF flatten
  <2>11. flatten[1] = seqs[1] /\ \A i \in 1 .. m : i # 1 => flatten[i] = flatten[i - 1] \o seqs[i]
    <3>1. 1 \in 1 .. Len(seqs)
      BY <1>1, <1>4
    <3>2. flatten[1] = seqs[1]
      BY <2>9, <3>1
    <3>3. ASSUME NEW i \in 1 .. m, i # 1 PROVE flatten[i] = flatten[i - 1] \o seqs[i]
      BY <2>9, <3>3, <1>1
    <3> QED
      BY <3>2, <3>3
  <2> DEFINE Upto(n) == /\ flatten[n] \in Seq(C) /\ Len(flatten[n]) = f[n]
                        /\ \A i \in 1 .. n : \A k \in 1 .. Len(seqs[i]) :
                             f[i - 1] + k \in 1 .. f[n] /\ flatten[n][f[i - 1] + k] = seqs[i][k]
             P == {n \in Nat : n + 1 <= m => Upto(n + 1)}
  <2>12. 0 \in P
    <3>1. f[1] = Len(seqs[1]) /\ f[1 - 1] = 0 /\ seqs[1] \in Seq(C)
      BY <1>2, <1>4
    <3>2. ASSUME NEW i \in 1 .. 1, NEW k \in 1 .. Len(seqs[i])
          PROVE  f[i - 1] + k \in 1 .. f[1] /\ flatten[1][f[i - 1] + k] = seqs[i][k]
      <4>1. i = 1 /\ k \in 1 .. Len(seqs[1]) /\ 0 + k = k
        OBVIOUS
      <4> QED
        BY <4>1, <3>1, <2>11
    <3>3. Upto(1)
      BY <3>1, <3>2, <2>11
    <3> HIDE DEF Upto
    <3> QED
      BY <3>3
  <2>13. ASSUME NEW n \in Nat, n \in P PROVE n + 1 \in P
    <3> SUFFICES ASSUME (n + 1) + 1 <= m PROVE Upto((n + 1) + 1)
      OBVIOUS
    <3> DEFINE j == n + 1
               k1 == j + 1
    <3>1. j \in 1 .. m /\ k1 \in 1 .. m /\ k1 # 1 /\ k1 - 1 = j /\ j \in Nat
      OBVIOUS
    <3>2. Upto(j)
      BY <3>1, <2>13
    <3>3. flatten[k1] = flatten[j] \o seqs[k1] /\ seqs[k1] \in Seq(C)
      BY <3>1, <2>11
    <3> HIDE DEF k1, j
    <3>4. f[k1] = f[j] + Len(seqs[k1]) /\ f[j] \in Nat
      <4>1. f[k1] = f[k1 - 1] + Len(seqs[k1])
        BY <3>1, <1>2
      <4> QED
        BY <4>1, <3>1, <1>2
    <3> DEFINE x == flatten[j]
               y == seqs[k1]
    <3>5. /\ x \in Seq(C) /\ y \in Seq(C) /\ Len(x) = f[j] /\ Len(x) \in Nat /\ Len(y) \in Nat
          /\ flatten[k1] = x \o y
      BY <3>2, <3>3, <3>4
    <3> HIDE DEF x, y
    <3>6. f[k1] = f[j] + Len(y)
      BY <3>4 DEF y
    <3>7. JoinedAt(C, x, y, f[j], f[k1])
      BY <3>5, <3>6, Joined
    <3>8. flatten[k1] \in Seq(C) /\ Len(flatten[k1]) = f[k1]
      BY <3>5, <3>7 DEF JoinedAt
    <3>9. ASSUME NEW i \in 1 .. k1, NEW k \in 1 .. Len(seqs[i])
          PROVE  f[i - 1] + k \in 1 .. f[k1] /\ flatten[k1][f[i - 1] + k] = seqs[i][k]
      <4>1. CASE i = k1
        <5>1. f[i - 1] = f[j] /\ k \in 1 .. Len(y)
          BY <4>1, <3>1 DEF y
        <5>2. f[j] + k \in 1 .. f[k1] /\ (x \o y)[f[j] + k] = y[k]
          BY <5>1, <3>7 DEF JoinedAt
        <5> QED
          BY <5>1, <5>2, <4>1, <3>5 DEF y
      <4>2. CASE i # k1
        <5>1. i \in 1 .. j
          BY <4>2, <3>1
        <5>2. f[i - 1] + k \in 1 .. f[j] /\ flatten[j][f[i - 1] + k] = seqs[i][k]
          BY <5>1, <3>2
        <5>3. f[i - 1] + k \in 1 .. f[k1] /\ (x \o y)[f[i - 1] + k] = x[f[i - 1] + k]
          BY <5>2, <3>7 DEF JoinedAt
        <5> QED
          BY <5>2, <5>3, <3>5 DEF x
      <4> QED
        BY <4>1, <4>2
    <3>10. Upto(k1)
      BY <3>8, <3>9
    <3> QED
      BY <3>10 DEF k1, j
  <2> HIDE DEF P
  <2>14. \A n \in Nat : n \in P
    BY <2>12, <2>13, SetInduction
  <2>15. m - 1 \in Nat /\ (m - 1) + 1 = m /\ m <= m
    BY <1>4
  <2>16. Upto(m)
    <3> HIDE DEF Upto
    <3>1. m - 1 \in P
      BY <2>14, <2>15
    <3> QED
      BY <3>1, <2>15 DEF P
  <2> QED
    BY <2>10, <2>16
<1> QED
  BY <1>3, <1>4

-----------------------------------------------------------------------------
(***************************************************************************)
(* The estimate of the size: the loop of bytesRequired ends.               *)
(***************************************************************************)
ItemTypes == {"Operation", "Tag", "Push", "PushTag", "PushData", "PushSub", "PushSubSize",
              "PushProgramSize"}

ItemSet == [type: ItemTypes, instruction: Instructions \cup {"none"}, sub: Int, data: Nat]

\* What OuterItem says of an item, kind by kind.
LEMMA ItemKinds ==
  ASSUME NEW item, OuterItem(item)
  PROVE  /\ item \in ItemSet
         /\ item.type \in ItemTypes
         /\ item.type = "Operation" =>
              item = Operation(item.instruction) /\ item.instruction \notin {"JUMPDEST", "PUSH"}
         /\ item.type = "Tag" => item = Tag(item.data) /\ item.data # 0
         /\ item.type = "PushTag" => item.sub \in {NoSub, 0}
         /\ item.type \in {"PushData", "PushSub"} => item = PushOther(item.type, item.data)
         /\ item.type \in {"PushSub", "PushSubSize"} => item.data = 0
<1> USE DEF ItemTypes, ItemSet, Operation, Push, PushTag, Tag, PushOther, Item, NoSub
<1>1. CASE item.instruction \in Instructions \ {"JUMPDEST", "PUSH"} /\ item = Operation(item.instruction)
  BY <1>1
<1>2. CASE item.data \in Nat \ {0} /\ item = Tag(item.data)
  BY <1>2
<1>3. CASE item.data \in Nat /\ item = Push(item.data)
  BY <1>3
<1>4. CASE item.data \in Nat /\ item = PushTag(NoSub, item.data)
  BY <1>4
<1>5. CASE item = PushOther("PushProgramSize", 0)
  BY <1>5
<1>6. CASE item.data \in Nat /\ item = PushTag(0, item.data)
  BY <1>6
<1>7. CASE item.data \in Nat /\ item = PushOther("PushData", item.data)
  BY <1>7
<1>8. CASE item = PushOther("PushSub", 0)
  BY <1>8
<1>9. CASE item = PushOther("PushSubSize", 0)
  BY <1>9
<1> QED
  BY <1>1, <1>2, <1>3, <1>4, <1>5, <1>6, <1>7, <1>8, <1>9 DEF OuterItem, InnerItem

\* The larger of 1 and a number.
LEMMA MaxOfTwo ==
  ASSUME NEW x \in Nat
  PROVE  Max({1, x}) \in Nat /\ Max({1, x}) >= 1 /\ Max({1, x}) >= x
<1>1. \E m \in {1, x} : \A y \in {1, x} : m >= y
  <2>1. CASE x <= 1
    BY <2>1
  <2>2. CASE x > 1
    BY <2>2
  <2> QED
    BY <2>1, <2>2
<1>2. Max({1, x}) \in {1, x} /\ \A y \in {1, x} : Max({1, x}) >= y
  BY <1>1 DEF Max
<1> QED
  BY <1>2

\* An item takes at most the address length more than with addresses of no bytes.
LEMMA ItemBytesFacts ==
  ASSUME NEW item, OuterItem(item), NEW t \in Nat
  PROVE  ItemBytes(item, t) \in Nat /\ ItemBytes(item, t) <= ItemBytes(item, 0) + t
<1> DEFINE m == Max({1, BytesOf[item.data]})
<1>1. item.data \in Nat
  BY ItemKinds DEF ItemSet
<1>2. m \in Nat
  BY <1>1, BytesOfFacts, MaxOfTwo DEF Holds
<1>3. \A u \in Nat : ItemBytes(item, u)
          = (CASE item.type \in {"Operation", "Tag"} -> 1
               [] item.type = "PushString" -> 1 + 32
               [] item.type = "Push" -> 1 + m
               [] item.type \in {"PushSubSize", "PushProgramSize"} -> 1 + 4
               [] item.type \in {"PushTag", "PushData", "PushSub"} -> 1 + u
               [] OTHER -> 1 + 20)
  BY DEF ItemBytes
<1> HIDE DEF m
<1>4. item.type \in ItemTypes
  BY ItemKinds
<1>5. CASE item.type \in {"Operation", "Tag"}
  BY <1>3, <1>5
<1>6. CASE item.type = "Push"
  BY <1>2, <1>3, <1>6
<1>7. CASE item.type \in {"PushSubSize", "PushProgramSize"}
  BY <1>3, <1>7
<1>8. CASE item.type \in {"PushTag", "PushData", "PushSub"}
  BY <1>3, <1>8
<1> QED
  BY <1>4, <1>5, <1>6, <1>7, <1>8 DEF ItemTypes

WellFormed(items) == items \in Seq(ItemSet) /\ \A i \in DOMAIN items : OuterItem(items[i])

\* So do the items together, once for each.
LEMMA BytesRequiredFacts ==
  ASSUME NEW items, WellFormed(items), NEW t \in Nat
  PROVE  /\ BytesRequired(items, t) \in Nat
         /\ BytesRequired(items, t) <= BytesRequired(items, 0) + Len(items) * t
<1> DEFINE sizes(u) == [i \in 1 .. Len(items) |-> ItemBytes(items[i], u)]
<1>1. Len(items) \in Nat /\ DOMAIN items = 1 .. Len(items)
  BY DEF WellFormed
<1>2. ASSUME NEW i \in 1 .. Len(items), NEW u \in Nat
      PROVE  ItemBytes(items[i], u) \in Nat /\ ItemBytes(items[i], u) <= ItemBytes(items[i], 0) + u
  BY <1>1, ItemBytesFacts DEF WellFormed
<1>3. \A u \in Nat : sizes(u) \in Seq(Nat) /\ Len(sizes(u)) = Len(items)
  <2> SUFFICES ASSUME NEW u \in Nat PROVE sizes(u) \in Seq(Nat) /\ Len(sizes(u)) = Len(items)
    OBVIOUS
  <2>1. sizes(u) \in [1 .. Len(items) -> Nat]
    BY <1>2
  <2> QED
    BY <2>1, <1>1
<1>4. \A i \in 1 .. Len(items) : sizes(t)[i] <= sizes(0)[i] + t
  BY <1>2
<1>5. \A u \in Nat : BytesRequired(items, u) = Total(sizes(u))
  BY DEF BytesRequired
<1> HIDE DEF sizes
<1>6. Total(sizes(t)) <= Total(sizes(0)) + Len(items) * t
  BY <1>1, <1>3, <1>4, TotalBound
<1> QED
  BY <1>3, <1>5, <1>6, TotalFacts

\* Numbers of n bytes outgrow every linear function of n.
LEMMA PowersOutgrow ==
  ASSUME NEW c \in Nat, NEW k \in Nat, NEW t \in Nat
  PROVE  \E u \in Nat : u >= t /\ c + k * u < BytePower[u]
<1> DEFINE m == c + k + k + t + 1
           u == m + m
           p == BytePower[m]
<1>1. m \in Nat /\ u \in Nat /\ u >= t /\ m >= 1
  OBVIOUS
<1>2. p \in Nat /\ p >= m + 1 /\ BytePower[u] = p * p
  BY <1>1, BytePowerFacts, PowerGrows, PowerSquare
<1>3. m * m = m * c + m * (k + k) + m * t + m
  BY <1>1
<1>4. m * c >= c
  <2>1. \A x, y \in Nat : x >= 1 => x * y >= y
    OBVIOUS
  <2> QED
    BY <2>1, <1>1
<1>5. m * (k + k) = k * u
  BY <1>1
<1> HIDE DEF p
<1>6. m * c \in Nat /\ m * (k + k) \in Nat /\ m * t \in Nat
  BY <1>1
<1> HIDE DEF u, m
<1>7. c + k * u < m * m
  BY <1>1, <1>3, <1>4, <1>5, <1>6
<1>8. m * m <= p * p
  <2>1. \A x, y \in Nat : x <= y => x * x <= y * y
    <3> SUFFICES ASSUME NEW x \in Nat, NEW y \in Nat, x <= y PROVE x * x <= y * y
      OBVIOUS
    <3>1. x * x <= x * y /\ x * y <= y * y
      OBVIOUS
    <3> QED
      BY <3>1
  <2>2. m <= p
    BY <1>1, <1>2
  <2> QED
    BY <2>1, <2>2, <1>1, <1>2
<1>9. c + k * u < p * p
  <2>1. k * u \in Nat /\ m * m \in Nat /\ p * p \in Nat
    BY <1>1, <1>2
  <2> QED
    BY <2>1, <1>7, <1>8
<1> QED
  BY <1>1, <1>2, <1>9

AssemblySet == [items: {s \in Seq(ItemSet) : WellFormed(s)}, data: Seq(Nat), aux: Nat]

(***************************************************************************)
(* bytesRequired finds a tag size that suffices, from any size on.         *)
(***************************************************************************)
LEMMA CodeBytesFacts ==
  ASSUME NEW a \in AssemblySet, NEW t \in Nat
  PROVE  CodeBytes(a, t) \in Nat
<1> DEFINE bytes(u) == 1 + Total(a.data) + BytesRequired(a.items, u)
           suits(u) == BytesOf[bytes(u)] <= u
           from == CHOOSE g : g = [u \in Nat |-> IF suits(u) THEN bytes(u) ELSE g[u + 1]]
<1>1. CodeBytes(a, t) = from[t]
  BY DEF CodeBytes
<1>2. a.data \in Seq(Nat) /\ WellFormed(a.items) /\ Len(a.items) \in Nat
  BY DEF AssemblySet
<1>3. Total(a.data) \in Nat
  BY <1>2, TotalFacts
<1>4. \A u \in Nat : BytesRequired(a.items, u) \in Nat
  BY <1>2, BytesRequiredFacts
<1>5. \A u \in Nat : BytesRequired(a.items, u) <= BytesRequired(a.items, 0) + Len(a.items) * u
  BY <1>2, BytesRequiredFacts
<1>6. \A u \in Nat : bytes(u) \in Nat
  BY <1>3, <1>4
<1>7. ASSUME NEW x \in Nat PROVE \E u \in Nat : u >= x /\ suits(u)
  <2> DEFINE c == 1 + Total(a.data) + BytesRequired(a.items, 0)
             k == Len(a.items)
  <2>1. BytesRequired(a.items, 0) \in Nat
    BY <1>4
  <2>2. c \in Nat /\ k \in Nat
    BY <1>2, <1>3, <2>1
  <2>3. ASSUME NEW u \in Nat PROVE bytes(u) <= c + k * u
    <3>1. Total(a.data) \in Nat /\ BytesRequired(a.items, u) \in Nat /\ BytesRequired(a.items, 0) \in Nat
          /\ BytesRequired(a.items, u) <= BytesRequired(a.items, 0) + k * u
      BY <1>3, <1>4, <1>5
    <3> DEFINE q == k * u
    <3>2. q \in Nat /\ BytesRequired(a.items, u) <= BytesRequired(a.items, 0) + q
      BY <2>2, <3>1
    <3> HIDE DEF q
    <3>3. bytes(u) <= c + q
      BY <3>1, <3>2
    <3> QED
      BY <3>3 DEF q
  <2> HIDE DEF c, k, bytes
  <2>4. PICK u \in Nat : u >= x /\ c + k * u < BytePower[u]
    BY <2>2, PowersOutgrow
  <2>5. bytes(u) < BytePower[u]
    <3> DEFINE q == c + k * u
    <3>1. bytes(u) \in Nat /\ BytePower[u] \in Nat /\ q \in Nat /\ bytes(u) <= q /\ q < BytePower[u]
      BY <2>2, <2>3, <2>4, <1>6, BytePowerFacts
    <3> HIDE DEF q
    <3> QED
      BY <3>1
  <2>6. suits(u)
    BY <2>5, <1>6, BytesOfFacts DEF Holds
  <2> QED
    BY <2>4, <2>6
<1> HIDE DEF bytes, suits
<1> DEFINE Least(x, u) == /\ u \in Nat /\ u >= x /\ suits(u)
                          /\ \A v \in Nat : v >= x /\ suits(v) => u <= v
           w == [x \in Nat |-> bytes(CHOOSE u : Least(x, u))]
<1>8. ASSUME NEW x \in Nat PROVE \E u : Least(x, u)
  <2> DEFINE T == {u \in Nat : u >= x /\ suits(u)}
  <2>1. T # {} /\ T \in SUBSET Nat
    BY <1>7
  <2>2. PICK u \in T : \A v \in T : u <= v
    BY <2>1, NatMin
  <2> QED
    BY <2>2
<1>9. ASSUME NEW x \in Nat, NEW u, NEW v, Least(x, u), Least(x, v) PROVE u = v
  <2>1. u <= v /\ v <= u /\ u \in Nat /\ v \in Nat
    BY <1>9
  <2> QED
    BY <2>1
<1>10. ASSUME NEW x \in Nat, suits(x) PROVE w[x] = bytes(x)
  <2>1. Least(x, x)
    BY <1>10
  <2>2. (CHOOSE u : Least(x, u)) = x
    BY <2>1, <1>9
  <2> QED
    BY <2>2
<1>11. ASSUME NEW x \in Nat, ~suits(x) PROVE w[x] = w[x + 1]
  <2> DEFINE u == CHOOSE u : Least(x + 1, u)
             v == CHOOSE v : Least(x, v)
  <2>1. Least(x + 1, u)
    BY <1>8
  <2>2. Least(x, u)
    <3>1. ASSUME NEW y \in Nat, y >= x, suits(y) PROVE y >= x + 1
      <4>1. y # x
        BY <3>1, <1>11
      <4> QED
        BY <4>1, <3>1
    <3>2. u \in Nat /\ u >= x + 1 /\ suits(u) /\ \A y \in Nat : y >= x + 1 /\ suits(y) => u <= y
      BY <2>1
    <3> HIDE DEF u
    <3> QED
      BY <3>1, <3>2
  <2>3. Least(x, v)
    BY <2>2
  <2> HIDE DEF Least
  <2>4. u = v
    BY <2>2, <2>3, <1>9
  <2>5. w[x] = bytes(v) /\ w[x + 1] = bytes(u)
    OBVIOUS
  <2> QED
    BY <2>4, <2>5
<1>12. w = [x \in Nat |-> w[x]]
  OBVIOUS
<1> HIDE DEF w
<1>13. w = [u \in Nat |-> IF suits(u) THEN bytes(u) ELSE w[u + 1]]
  BY <1>10, <1>11, <1>12
<1>14. from = [u \in Nat |-> IF suits(u) THEN bytes(u) ELSE from[u + 1]]
  BY <1>13
<1> HIDE DEF from
<1>15. PICK u \in Nat : u >= t /\ suits(u)
  BY <1>7
<1> DEFINE P == {d \in Nat : d <= u => from[u - d] \in Nat}
<1>16. 0 \in P
  <2>1. from[u] = bytes(u)
    BY <1>14, <1>15
  <2> QED
    BY <2>1, <1>6
<1>17. ASSUME NEW d \in Nat, d \in P PROVE d + 1 \in P
  <2> SUFFICES ASSUME d + 1 <= u PROVE from[u - (d + 1)] \in Nat
    OBVIOUS
  <2>1. u - (d + 1) \in Nat /\ (u - (d + 1)) + 1 = u - d /\ d <= u
    OBVIOUS
  <2>2. from[u - d] \in Nat
    BY <2>1, <1>17
  <2> QED
    BY <2>1, <2>2, <1>6, <1>14
<1> HIDE DEF P
<1>18. u - t \in P
  BY <1>15, <1>16, <1>17, SetInduction
<1>19. u - t <= u /\ u - (u - t) = t
  BY <1>15
<1> QED
  BY <1>1, <1>18, <1>19 DEF P

-----------------------------------------------------------------------------
(***************************************************************************)
(* The bytes of an item, and what the EVM reads from them.                 *)
(***************************************************************************)
CodeSet == [op: {"PUSH", "JUMPDEST", "STOP", "digit", "data", "aux"} \cup Instructions, n: Nat]

Digit(v, w, k) == (v \div BytePower[w - k]) % ByteBase

\* The digits of a number are numbers.
LEMMA Digits ==
  ASSUME NEW v \in Nat, NEW w \in Nat, NEW k \in 1 .. w
  PROVE  Digit(v, w, k) \in Nat
<1>1. w - k \in Nat /\ BytePower[w - k] \in Nat /\ BytePower[w - k] # 0
  BY BytePowerFacts, PowerGrows
<1> DEFINE q == v \div BytePower[w - k]
<1>2. q \in Nat
  BY <1>1, Division
<1> HIDE DEF q
<1>3. ByteBase \in Nat /\ ByteBase # 0
  BY ByteAssumption
<1> HIDE DEF ByteBase
<1>4. q % ByteBase \in Nat
  BY <1>2, <1>3, Division
<1> QED
  BY <1>4 DEF q, Digit

\* A PUSH is its instruction and the digits.
LEMMA PushOfFacts ==
  ASSUME NEW v \in Nat, NEW w \in Nat
  PROVE  /\ PushOf(v, w) \in Seq(CodeSet) /\ Len(PushOf(v, w)) = w + 1
         /\ PushOf(v, w)[1] = Code("PUSH", w)
         /\ \A k \in 1 .. w : PushOf(v, w)[1 + k] = Code("digit", Digit(v, w, k))
<1> DEFINE x == <<Code("PUSH", w)>>
           y == [k \in 1 .. w |-> Code("digit", Digit(v, w, k))]
<1>1. x \in Seq(CodeSet) /\ Len(x) = 1 /\ x[1] = Code("PUSH", w)
  BY DEF CodeSet, Code
<1>2. y \in Seq(CodeSet) /\ Len(y) = w /\ \A k \in 1 .. w : y[k] = Code("digit", Digit(v, w, k))
  <2>1. y \in [1 .. w -> CodeSet]
    BY Digits DEF CodeSet, Code
  <2> QED
    BY <2>1
<1>3. PushOf(v, w) = x \o y
  BY DEF PushOf, BigEndian, Digit
<1> HIDE DEF x, y
<1>4. w + 1 = 1 + Len(y)
  BY <1>2
<1>5. JoinedAt(CodeSet, x, y, 1, w + 1)
  BY <1>1, <1>2, <1>4, Joined
<1>6. 1 \in 1 .. 1
  OBVIOUS
<1> QED
  BY <1>1, <1>2, <1>3, <1>5, <1>6 DEF JoinedAt

(***************************************************************************)
(* The digits that were written are the number that is read.               *)
(***************************************************************************)
Written(code, p, v, w) ==
  /\ code[p + 1] = Code("PUSH", w)
  /\ \A k \in 1 .. w : code[p + 1 + k] = Code("digit", Digit(v, w, k))

\* A number that fits the width is read as it was written.
LEMMA ReadWhatWasWritten ==
  ASSUME NEW code, NEW p \in Nat, NEW v \in Nat, NEW w \in Nat, v < BytePower[w],
         Written(code, p, v, w)
  PROVE  Pushed(code, p) = v
<1> DEFINE upTo == CHOOSE g : g = [k \in 0 .. w |-> IF k = 0 THEN 0
                                                    ELSE g[k - 1] * ByteBase + code[p + 1 + k].n]
           u == [k \in 0 .. w |-> v \div BytePower[w - k]]
<1>1. code[p + 1].n = w /\ \A k \in 1 .. w : code[p + 1 + k].n = Digit(v, w, k)
  <2>1. Code("PUSH", w).n = w /\ \A d : Code("digit", d).n = d
    BY DEF Code
  <2>2. code[p + 1].n = w
    BY <2>1 DEF Written
  <2>3. ASSUME NEW k \in 1 .. w PROVE code[p + 1 + k].n = Digit(v, w, k)
    <3>1. code[p + 1 + k] = Code("digit", Digit(v, w, k))
      BY DEF Written
    <3> QED
      BY <2>1, <3>1
  <2> QED
    BY <2>2, <2>3
<1>2. Pushed(code, p) = upTo[w]
  BY <1>1 DEF Pushed
<1>3. u[0] = 0
  <2> DEFINE b == BytePower[w]
  <2>1. b \in Nat /\ b # 0 /\ v < b
    BY BytePowerFacts, PowerGrows
  <2> HIDE DEF b
  <2>2. 0 \in Nat /\ b * 0 <= v /\ v < b * 0 + b
    BY <2>1
  <2>3. 0 = v \div b
    BY <2>1, <2>2, Division
  <2>4. u[0] = v \div BytePower[w - 0] /\ w - 0 = w
    OBVIOUS
  <2> QED
    BY <2>3, <2>4 DEF b
<1>4. u[w] = v
  <2>1. u[w] = v \div BytePower[0]
    <3>1. w - w = 0
      OBVIOUS
    <3> QED
      BY <3>1
  <2>2. v \div 1 = v
    OBVIOUS
  <2> QED
    BY <2>1, <2>2, BytePowerFacts
<1>5. ASSUME NEW k \in 0 .. w, k # 0 PROVE u[k] = u[k - 1] * ByteBase + code[p + 1 + k].n
  <2>1. w - k \in Nat /\ w - (k - 1) = (w - k) + 1 /\ k - 1 \in 0 .. w /\ k \in 1 .. w
    BY <1>5
  <2>2. v \div BytePower[w - k]
          = (v \div BytePower[(w - k) + 1]) * ByteBase + ((v \div BytePower[w - k]) % ByteBase)
    BY <2>1, NextQuotient
  <2>3. u[k] = v \div BytePower[w - k] /\ u[k - 1] = v \div BytePower[(w - k) + 1]
    BY <2>1
  <2>4. code[p + 1 + k].n = (v \div BytePower[w - k]) % ByteBase
    BY <2>1, <1>1 DEF Digit
  <2> HIDE DEF u, ByteBase
  <2> QED
    BY <2>2, <2>3, <2>4
<1>6. u = [k \in 0 .. w |-> u[k]]
  OBVIOUS
<1> HIDE DEF u
<1>7. u = [k \in 0 .. w |-> IF k = 0 THEN 0 ELSE u[k - 1] * ByteBase + code[p + 1 + k].n]
  BY <1>3, <1>5, <1>6
<1>8. upTo = [k \in 0 .. w |-> IF k = 0 THEN 0 ELSE upTo[k - 1] * ByteBase + code[p + 1 + k].n]
  BY <1>7
<1> HIDE DEF upTo
<1> DEFINE P == {k \in Nat : k <= w => upTo[k] = u[k]}
<1>9. 0 \in P
  BY <1>3, <1>8
<1>10. ASSUME NEW k \in Nat, k \in P PROVE k + 1 \in P
  <2> SUFFICES ASSUME k + 1 <= w PROVE upTo[k + 1] = u[k + 1]
    OBVIOUS
  <2>1. k + 1 \in 0 .. w /\ k + 1 # 0 /\ (k + 1) - 1 = k /\ k <= w
    OBVIOUS
  <2>2. upTo[k + 1] = upTo[k] * ByteBase + code[p + 1 + (k + 1)].n
    <3> HIDE DEF ByteBase
    <3> QED
      BY <2>1, <1>8
  <2>3. u[k + 1] = u[k] * ByteBase + code[p + 1 + (k + 1)].n
    BY <2>1, <1>5
  <2>4. upTo[k] = u[k]
    BY <2>1, <1>10
  <2> QED
    BY <2>2, <2>3, <2>4
<1> HIDE DEF P
<1>11. w \in P
  BY <1>9, <1>10, SetInduction
<1> QED
  BY <1>2, <1>4, <1>11 DEF P

-----------------------------------------------------------------------------
(***************************************************************************)
(* Objects, the widths of references, and the items as they are encoded.   *)
(***************************************************************************)
ObjectSet == [error: {"none"}, code: Seq(CodeSet), tags: [0 .. UsedTags -> Nat \cup {Unplaced}]]

\* An assembly has no sub-assembly or a complete one.
Complete(subs) == subs = <<>> \/ \E o \in ObjectSet : subs = <<o>>

\* The size for tags of sub-assemblies is a number.
LEMMA SubTagSizeFacts ==
  ASSUME NEW subs, Complete(subs)
  PROVE  SubTagSize(subs) \in Nat
<1>1. ASSUME NEW x \in Int, NEW y \in Int PROVE Max({1, x, y}) \in Nat
  <2>1. \E m \in {1, x, y} : \A n \in {1, x, y} : m >= n
    <3>1. CASE x <= 1 /\ y <= 1
      BY <3>1
    <3>2. CASE x <= y /\ 1 <= y
      BY <3>2
    <3>3. CASE y <= x /\ 1 <= x
      BY <3>3
    <3> QED
      BY <3>1, <3>2, <3>3
  <2>2. Max({1, x, y}) \in {1, x, y} /\ \A n \in {1, x, y} : Max({1, x, y}) >= n
    BY <2>1 DEF Max
  <2> QED
    BY <2>2
<1>2. CASE subs = <<>>
  <2>1. {Range(subs[s].tags) : s \in DOMAIN subs} = {}
    BY <1>2
  <2>2. {1} \cup UNION {Range(subs[s].tags) : s \in DOMAIN subs} = {1, 1, 1}
    BY <2>1
  <2>3. Max({1, 1, 1}) \in Nat
    BY <1>1
  <2> QED
    BY <2>2, <2>3 DEF SubTagSize
<1>3. ASSUME NEW o \in ObjectSet, subs = <<o>> PROVE SubTagSize(subs) \in Nat
  <2>1. DOMAIN subs = {1} /\ subs[1] = o
    BY <1>3
  <2>2. o.tags \in [0 .. 1 -> Int]
    BY DEF ObjectSet, UsedTags, Unplaced
  <2>3. Range(o.tags) = {o.tags[0], o.tags[1]}
    BY <2>2 DEF Range
  <2>4. {Range(subs[s].tags) : s \in DOMAIN subs} = {Range(o.tags)}
    BY <2>1
  <2>5. {1} \cup UNION {Range(subs[s].tags) : s \in DOMAIN subs} = {1, o.tags[0], o.tags[1]}
    BY <2>3, <2>4
  <2>6. Max({1, o.tags[0], o.tags[1]}) \in Nat
    BY <1>1, <2>2
  <2> QED
    BY <2>5, <2>6 DEF SubTagSize
<1> QED
  BY <1>2, <1>3 DEF Complete

\* The widths of references are numbers.
LEMMA ReservedFacts ==
  ASSUME NEW a \in AssemblySet, NEW subs, Complete(subs)
  PROVE  Reserved(a, subs).tag \in Nat /\ Reserved(a, subs).dataRef \in Nat
<1> DEFINE forCode == CodeBytes(a, SubTagSize(subs))
           lens == [s \in DOMAIN subs |-> Len(subs[s].code)]
           withData == forCode + 1 + a.aux + Total(lens)
<1>1. forCode \in Nat
  BY SubTagSizeFacts, CodeBytesFacts
<1>2. lens \in Seq(Nat)
  <2>1. CASE subs = <<>>
    <3>1. lens = <<>>
      BY <2>1
    <3> QED
      BY <3>1
  <2>2. ASSUME NEW o \in ObjectSet, subs = <<o>> PROVE lens \in Seq(Nat)
    <3>1. DOMAIN subs = 1 .. 1 /\ subs[1] = o /\ Len(o.code) \in Nat
      BY <2>2 DEF ObjectSet
    <3>2. lens \in [1 .. 1 -> Nat]
      BY <3>1
    <3> QED
      BY <3>2
  <2> QED
    BY <2>1, <2>2 DEF Complete
<1>3. withData \in Nat
  <2>1. Total(lens) \in Nat /\ a.aux \in Nat
    BY <1>2, TotalFacts DEF AssemblySet
  <2> QED
    BY <1>1, <2>1
<1>4. Reserved(a, subs) = [tag |-> BytesOf[forCode], dataRef |-> BytesOf[withData]]
  BY DEF Reserved
<1> HIDE DEF forCode, withData
<1> QED
  BY <1>1, <1>3, <1>4, BytesOfFacts DEF Holds

\* An item pushes a number, in how many bytes, and which if the layout does not matter.
IsPush(item) == item.type \notin {"Operation", "Tag"}

Width(item, subs, reserved) ==
  CASE item.type \in {"Push", "PushSubSize"} -> Max({1, BytesOf[KnownValue(item, subs)]})
    [] item.type = "PushTag" -> reserved.tag
    [] OTHER                 -> reserved.dataRef

Size(item, subs, reserved) == IF IsPush(item) THEN Width(item, subs, reserved) + 1 ELSE 1

\* What an item refers to exists.
Resolves(item, a, subs) ==
  /\ OuterItem(item)
  /\ item.type \in {"PushSub", "PushSubSize"} \/ (item.type = "PushTag" /\ item.sub = 0) => subs # <<>>
  /\ item.type = "PushData" => item.data \in DOMAIN a.data

\* Values that do not depend on the layout are numbers.
LEMMA KnownValues ==
  ASSUME NEW a, NEW subs, Complete(subs), NEW item, Resolves(item, a, subs)
  PROVE  KnownValue(item, subs) \in Nat
<1>1. item \in ItemSet /\ (item.type = "PushSubSize" => item.data = 0 /\ subs # <<>>)
  BY ItemKinds DEF Resolves
<1>2. CASE item.type = "Push"
  BY <1>1, <1>2 DEF KnownValue, ItemSet
<1>3. CASE item.type = "PushSubSize"
  <2>1. PICK o \in ObjectSet : subs = <<o>>
    BY <1>1, <1>3 DEF Complete
  <2>2. subs[item.data + 1] = o /\ Len(o.code) \in Nat
    BY <1>1, <1>3, <2>1 DEF ObjectSet
  <2> QED
    BY <1>3, <2>2 DEF KnownValue
<1>4. CASE item.type \notin {"Push", "PushSubSize"}
  BY <1>4 DEF KnownValue
<1> QED
  BY <1>2, <1>3, <1>4

\* The width of an item and the size of its bytes are numbers.
LEMMA Widths ==
  ASSUME NEW a \in AssemblySet, NEW subs, Complete(subs), NEW item, Resolves(item, a, subs)
  PROVE  Width(item, subs, Reserved(a, subs)) \in Nat /\ Size(item, subs, Reserved(a, subs)) \in Nat
<1> DEFINE v == KnownValue(item, subs)
           r == Reserved(a, subs)
<1>1. v \in Nat
  BY KnownValues
<1>2. r.tag \in Nat /\ r.dataRef \in Nat
  BY ReservedFacts
<1>3. Max({1, BytesOf[v]}) \in Nat
  BY <1>1, BytesOfFacts, MaxOfTwo DEF Holds
<1> HIDE DEF v, r
<1>4. Width(item, subs, r) \in Nat
  BY <1>2, <1>3 DEF Width, v
<1> QED
  BY <1>4 DEF Size, r

\* The bytes of an item have the size the layout counted.
LEMMA EncodeFacts ==
  ASSUME NEW a \in AssemblySet, NEW subs, Complete(subs), NEW item, Resolves(item, a, subs),
         NEW v \in Nat, item.type \in {"Push", "PushSubSize"} => v = KnownValue(item, subs)
  PROVE  /\ Encode(item, v, Reserved(a, subs)) \in Seq(CodeSet)
         /\ Len(Encode(item, v, Reserved(a, subs))) = Size(item, subs, Reserved(a, subs))
         /\ IsPush(item) =>
              Encode(item, v, Reserved(a, subs)) = PushOf(v, Width(item, subs, Reserved(a, subs)))
         /\ item.type = "Operation" =>
              Encode(item, v, Reserved(a, subs)) = <<Code(item.instruction, 0)>>
         /\ item.type = "Tag" => Encode(item, v, Reserved(a, subs)) = <<Code("JUMPDEST", 0)>>
<1> DEFINE r == Reserved(a, subs)
           w == Width(item, subs, r)
           e == Encode(item, v, r)
<1>1. w \in Nat
  BY Widths
<1>2. item \in ItemSet /\ item.type \in ItemTypes
      /\ (item.type = "Operation" => item.instruction \in Instructions)
  BY ItemKinds DEF Resolves, OuterItem, InnerItem, Push, PushTag, Tag, PushOther, Item
<1>3. item.type = "Operation" => e = <<Code(item.instruction, 0)>>
  BY DEF Encode
<1>4. item.type = "Tag" => e = <<Code("JUMPDEST", 0)>>
  BY DEF Encode
<1>5. IsPush(item) => e = PushOf(v, w)
  <2>1. CASE item.type \in {"Push", "PushSubSize"}
    BY <2>1 DEF Encode, Width
  <2>2. CASE item.type = "PushTag"
    BY <2>2 DEF Encode, Width
  <2>3. CASE item.type \in {"PushData", "PushSub", "PushProgramSize"}
    BY <2>3 DEF Encode, Width
  <2> QED
    BY <1>2, <2>1, <2>2, <2>3 DEF IsPush, ItemTypes
<1> HIDE DEF w, e
<1>6. CASE IsPush(item)
  BY <1>1, <1>5, <1>6, PushOfFacts DEF Size, IsPush, w, e
<1>7. CASE item.type = "Operation"
  <2>1. Code(item.instruction, 0) \in CodeSet
    BY <1>2, <1>7 DEF Code, CodeSet
  <2>2. e \in Seq(CodeSet) /\ Len(e) = 1
    BY <1>3, <1>7, <2>1
  <2> QED
    BY <1>3, <1>7, <2>2 DEF Size, IsPush, w, e
<1>8. CASE item.type = "Tag"
  <2>1. Code("JUMPDEST", 0) \in CodeSet
    BY DEF Code, CodeSet
  <2>2. \A c \in CodeSet : <<c>> \in Seq(CodeSet) /\ Len(<<c>>) = 1
    OBVIOUS
  <2>3. e \in Seq(CodeSet) /\ Len(e) = 1
    BY <1>4, <1>8, <2>1, <2>2
  <2> QED
    BY <1>4, <1>8, <2>3 DEF Size, IsPush, w, e
<1> QED
  BY <1>6, <1>7, <1>8 DEF IsPush

-----------------------------------------------------------------------------
(***************************************************************************)
(* The layout.                                                             *)
(***************************************************************************)
SizesOf(a, subs) == [i \in 1 .. Len(a.items) |-> Size(a.items[i], subs, Reserved(a, subs))]

Assemblable(a, subs) ==
  /\ a \in AssemblySet /\ Len(a.data) <= 1 /\ Complete(subs)
  /\ \A i \in DOMAIN a.items : Resolves(a.items[i], a, subs)

\* The items of an assembly and their sizes are sequences.
LEMMA ItemsFacts ==
  ASSUME NEW a, NEW subs, Assemblable(a, subs)
  PROVE  /\ Len(a.items) \in Nat /\ DOMAIN a.items = 1 .. Len(a.items)
         /\ SizesOf(a, subs) \in Seq(Nat) /\ Len(SizesOf(a, subs)) = Len(a.items)
<1>1. a \in AssemblySet /\ Complete(subs) /\ \A i \in DOMAIN a.items : Resolves(a.items[i], a, subs)
  BY DEF Assemblable
<1>2. Len(a.items) \in Nat /\ DOMAIN a.items = 1 .. Len(a.items)
  <2>1. a.items \in Seq(ItemSet)
    BY <1>1 DEF AssemblySet
  <2> QED
    BY <2>1, Elements
<1>3. \A i \in 1 .. Len(a.items) : Size(a.items[i], subs, Reserved(a, subs)) \in Nat
  BY <1>1, <1>2, Widths
<1>4. SizesOf(a, subs) \in [1 .. Len(a.items) -> Nat]
  BY <1>3 DEF SizesOf
<1> QED
  BY <1>2, <1>4

\* The items start at the partial sums of their sizes.
LEMMA StartsFacts ==
  ASSUME NEW a, NEW subs, Assemblable(a, subs)
  PROVE  \E f : /\ Sums(f, SizesOf(a, subs))
                /\ Starts(a, subs, Reserved(a, subs)) = [i \in 1 .. Len(a.items) + 1 |-> f[i - 1]]
<1> DEFINE n == Len(a.items)
           r == Reserved(a, subs)
           len(i) == Len(Encode(a.items[i], KnownValue(a.items[i], subs), r))
           start == CHOOSE g : g = [i \in 1 .. n + 1 |-> IF i = 1 THEN 0 ELSE g[i - 1] + len(i - 1)]
           s == SizesOf(a, subs)
<1>1. n \in Nat /\ s \in Seq(Nat) /\ Len(s) = n /\ DOMAIN a.items = 1 .. n
  BY ItemsFacts
<1>2. ASSUME NEW i \in 1 .. n PROVE len(i) = s[i]
  <2>1. a \in AssemblySet /\ Complete(subs) /\ Resolves(a.items[i], a, subs)
    BY <1>1 DEF Assemblable
  <2>2. KnownValue(a.items[i], subs) \in Nat
    BY <2>1, KnownValues
  <2>3. len(i) = Size(a.items[i], subs, r)
    BY <2>1, <2>2, EncodeFacts
  <2> QED
    BY <2>3 DEF SizesOf
<1>3. Starts(a, subs, r) = start
  BY DEF Starts
<1>4. PICK f : Sums(f, s)
  BY <1>1, SumsExist
<1> HIDE DEF len, s
<1> DEFINE w == [i \in 1 .. n + 1 |-> f[i - 1]]
<1>5. f \in [0 .. n -> Nat] /\ f[0] = 0 /\ \A i \in 1 .. n : f[i] = f[i - 1] + s[i]
  BY <1>1, <1>4 DEF Sums
<1>6. ASSUME NEW i \in 1 .. n + 1, i # 1 PROVE w[i] = w[i - 1] + len(i - 1)
  <2>1. i - 1 \in 1 .. n /\ i - 1 \in 1 .. n + 1
    BY <1>1, <1>6
  <2>2. w[i] = f[i - 1] /\ w[i - 1] = f[(i - 1) - 1]
    BY <2>1
  <2>3. f[i - 1] = f[(i - 1) - 1] + s[i - 1]
    BY <2>1, <1>5
  <2> QED
    BY <2>1, <2>2, <2>3, <1>2
<1>7. w[1] = 0
  BY <1>1, <1>5
<1>8. w = [i \in 1 .. n + 1 |-> w[i]]
  OBVIOUS
<1> HIDE DEF w
<1>9. w = [i \in 1 .. n + 1 |-> IF i = 1 THEN 0 ELSE w[i - 1] + len(i - 1)]
  BY <1>6, <1>7, <1>8
<1>10. start = [i \in 1 .. n + 1 |-> IF i = 1 THEN 0 ELSE start[i - 1] + len(i - 1)]
  BY <1>9
<1> HIDE DEF start, n
<1> DEFINE P == {k \in Nat : k + 1 <= n + 1 => start[k + 1] = w[k + 1]}
<1>11. 0 \in P
  BY <1>1, <1>7, <1>10
<1>12. ASSUME NEW k \in Nat, k \in P PROVE k + 1 \in P
  <2> SUFFICES ASSUME (k + 1) + 1 <= n + 1 PROVE start[(k + 1) + 1] = w[(k + 1) + 1]
    OBVIOUS
  <2> DEFINE j == (k + 1) + 1
  <2>1. j \in 1 .. n + 1 /\ j # 1 /\ j - 1 = k + 1 /\ k + 1 <= n + 1
    BY <1>1
  <2>2. start[k + 1] = w[k + 1]
    BY <2>1, <1>12
  <2> HIDE DEF j
  <2>3. start[j] = start[j - 1] + len(j - 1) /\ w[j] = w[j - 1] + len(j - 1)
    BY <2>1, <1>6, <1>10
  <2>4. start[j] = w[j]
    BY <2>1, <2>2, <2>3
  <2> QED
    BY <2>4 DEF j
<1> HIDE DEF P
<1>13. \A k \in Nat : k \in P
  BY <1>11, <1>12, SetInduction
<1>14. ASSUME NEW i \in 1 .. n + 1 PROVE start[i] = w[i]
  <2>1. i - 1 \in Nat /\ (i - 1) + 1 = i /\ i <= n + 1
    BY <1>1
  <2>2. i - 1 \in P
    BY <2>1, <1>13
  <2> QED
    BY <2>1, <2>2 DEF P
<1>15. start = [i \in 1 .. n + 1 |-> start[i]]
  BY <1>10
<1>16. start = w
  BY <1>8, <1>14, <1>15
<1> QED
  BY <1>3, <1>4, <1>16 DEF n, s, w

\* A tag with a position is defined by an item that starts there.
LEMMA TagPositionsFacts ==
  ASSUME NEW a, NEW start, DOMAIN a.items \subseteq Nat, \A i \in DOMAIN a.items : start[i] \in Nat
  PROVE  /\ TagPositions(a, start, UsedTags) \in [0 .. UsedTags -> Nat \cup {Unplaced}]
         /\ \A t \in 0 .. UsedTags : TagPositions(a, start, UsedTags)[t] # Unplaced =>
              \E i \in DOMAIN a.items :
                /\ IF t = 0 THEN a.items[i].type # "Tag" ELSE a.items[i] = Tag(t)
                /\ TagPositions(a, start, UsedTags)[t] = start[i]
<1> DEFINE at(t) == {i \in DOMAIN a.items :
                       IF t = 0 THEN a.items[i].type # "Tag" ELSE a.items[i] = Tag(t)}
           tags == TagPositions(a, start, UsedTags)
<1>1. tags = [t \in 0 .. UsedTags |-> IF at(t) = {} THEN Unplaced ELSE start[Min(at(t))]]
  BY DEF TagPositions
<1>2. ASSUME NEW t \in 0 .. UsedTags, at(t) # {} PROVE Min(at(t)) \in at(t)
  <2> DEFINE T == at(t)
  <2>1. T \in SUBSET Nat /\ T # {}
    BY <1>2
  <2> HIDE DEF T
  <2>2. \E x \in T : \A y \in T : x <= y
    BY <2>1, NatMin
  <2>3. Min(T) \in T
    BY <2>2 DEF Min
  <2> QED
    BY <2>3 DEF T
<1>3. ASSUME NEW t \in 0 .. UsedTags
      PROVE  /\ tags[t] \in Nat \cup {Unplaced}
             /\ tags[t] # Unplaced =>
                  \E i \in DOMAIN a.items :
                    /\ IF t = 0 THEN a.items[i].type # "Tag" ELSE a.items[i] = Tag(t)
                    /\ tags[t] = start[i]
  <2>1. CASE at(t) = {}
    BY <1>1, <2>1
  <2>2. CASE at(t) # {}
    <3>1. Min(at(t)) \in at(t) /\ tags[t] = start[Min(at(t))]
      <4>1. Min(at(t)) \in at(t)
        BY <1>2, <2>2
      <4>2. tags[t] = start[Min(at(t))]
        BY <1>1, <2>2
      <4> QED
        BY <4>1, <4>2
    <3> QED
      BY <3>1
  <2> QED
    BY <2>1, <2>2
<1>4. tags = [t \in 0 .. UsedTags |-> tags[t]]
  BY <1>1
<1> HIDE DEF tags
<1>5. tags \in [0 .. UsedTags -> Nat \cup {Unplaced}]
  BY <1>3, <1>4
<1> QED
  BY <1>3, <1>5 DEF tags

\* The instructions of the code are read where the items were placed.
LEMMA ReadInOrder ==
  ASSUME NEW n \in Nat, NEW code, NEW f \in [0 .. n -> Nat], f[0] = 0,
         \A i \in 1 .. n : f[i] = f[i - 1] + 1
                             + (IF code[f[i - 1] + 1].op = "PUSH" THEN code[f[i - 1] + 1].n ELSE 0)
  PROVE  \A m \in 1 .. n : InstructionAt(code, m) = f[m - 1]
<1> SUFFICES ASSUME NEW m \in 1 .. n PROVE InstructionAt(code, m) = f[m - 1]
  OBVIOUS
<1> DEFINE next(p) == p + 1 + (IF code[p + 1].op = "PUSH" THEN code[p + 1].n ELSE 0)
           at == CHOOSE g : g = [k \in 1 .. m |-> IF k = 1 THEN 0 ELSE next(g[k - 1])]
           w == [k \in 1 .. m |-> f[k - 1]]
<1>1. InstructionAt(code, m) = at[m]
  BY DEF InstructionAt
<1>2. ASSUME NEW k \in 1 .. m, k # 1 PROVE w[k] = next(w[k - 1])
  <2>1. k - 1 \in 1 .. n /\ k - 1 \in 1 .. m
    BY <1>2
  <2>2. w[k] = f[k - 1] /\ w[k - 1] = f[(k - 1) - 1]
    BY <2>1
  <2>3. f[k - 1] = f[(k - 1) - 1] + 1
                  + (IF code[f[(k - 1) - 1] + 1].op = "PUSH" THEN code[f[(k - 1) - 1] + 1].n ELSE 0)
    BY <2>1
  <2> QED
    BY <2>2, <2>3
<1>3. w[1] = 0 /\ w = [k \in 1 .. m |-> w[k]]
  OBVIOUS
<1> HIDE DEF w, next
<1>4. w = [k \in 1 .. m |-> IF k = 1 THEN 0 ELSE next(w[k - 1])]
  BY <1>2, <1>3
<1>5. at = [k \in 1 .. m |-> IF k = 1 THEN 0 ELSE next(at[k - 1])]
  BY <1>4
<1> HIDE DEF at
<1> DEFINE P == {k \in Nat : k + 1 <= m => at[k + 1] = w[k + 1]}
<1>6. 0 \in P
  BY <1>3, <1>5
<1>7. ASSUME NEW k \in Nat, k \in P PROVE k + 1 \in P
  <2> SUFFICES ASSUME (k + 1) + 1 <= m PROVE at[(k + 1) + 1] = w[(k + 1) + 1]
    OBVIOUS
  <2> DEFINE j == (k + 1) + 1
  <2>1. j \in 1 .. m /\ j # 1 /\ j - 1 = k + 1 /\ k + 1 <= m
    OBVIOUS
  <2>2. at[k + 1] = w[k + 1]
    BY <2>1, <1>7
  <2> HIDE DEF j
  <2>3. at[j] = next(at[j - 1]) /\ w[j] = next(w[j - 1])
    BY <2>1, <1>2, <1>5
  <2>4. at[j] = w[j]
    BY <2>1, <2>2, <2>3
  <2> QED
    BY <2>4 DEF j
<1> HIDE DEF P
<1>8. \A k \in Nat : k \in P
  BY <1>6, <1>7, SetInduction
<1>9. at[m] = w[m]
  <2>1. (m - 1) + 1 = m /\ m - 1 \in Nat /\ m <= m
    OBVIOUS
  <2>2. m - 1 \in P
    BY <2>1, <1>8
  <2> QED
    BY <2>1, <2>2 DEF P
<1> QED
  BY <1>1, <1>9 DEF w

\* One sequence put together is itself, none is the empty one.
LEMMA FlattenOne ==
  ASSUME NEW C, NEW seqs
  PROVE  /\ seqs = <<>> => FlattenSeq(seqs) = <<>>
         /\ seqs \in [1 .. 1 -> Seq(C)] => FlattenSeq(seqs) = seqs[1]
<1>1. CASE seqs = <<>>
  BY <1>1 DEF FlattenSeq
<1>2. CASE seqs \in [1 .. 1 -> Seq(C)]
  <2> DEFINE flatten == CHOOSE g : g = [i \in 1 .. Len(seqs) |->
                                          IF i = 1 THEN seqs[i] ELSE g[i - 1] \o seqs[i]]
             w == [i \in 1 .. 1 |-> seqs[1]]
  <2>1. Len(seqs) = 1
    BY <1>2
  <2>2. w = [i \in 1 .. Len(seqs) |-> IF i = 1 THEN seqs[i] ELSE w[i - 1] \o seqs[i]]
    BY <2>1
  <2>3. flatten = [i \in 1 .. Len(seqs) |-> IF i = 1 THEN seqs[i] ELSE flatten[i - 1] \o seqs[i]]
    BY <2>2
  <2>4. FlattenSeq(seqs) = flatten[1]
    BY <2>1 DEF FlattenSeq
  <2> HIDE DEF flatten
  <2> QED
    BY <2>1, <2>3, <2>4
<1> QED
  BY <1>1, <1>2

\* A sequence of sizes with at most one element.
LEMMA ShortTotal ==
  ASSUME NEW s, (s = <<>>) \/ (s \in [1 .. 1 -> Nat])
  PROVE  /\ Total(s) = IF s = <<>> THEN 0 ELSE s[1]
         /\ Total(SubSeq(s, 1, 1 - 1)) = 0
<1>1. Total(<<>>) = 0
  <2>1. <<>> \in Seq(Nat) /\ Len(<<>>) = 0
    OBVIOUS
  <2> QED
    BY <2>1, TotalFacts
<1>2. SubSeq(s, 1, 1 - 1) = <<>>
  <2>1. CASE s = <<>>
    BY <2>1
  <2>2. CASE s \in [1 .. 1 -> Nat]
    <3>1. s \in Seq(Nat)
      BY <2>2, FunctionSequence
    <3> QED
      BY <3>1
  <2> QED
    BY <2>1, <2>2
<1>3. ASSUME s # <<>> PROVE Total(s) = s[1]
  <2>1. s \in Seq(Nat) /\ Len(s) = 1
    <3>1. s \in [1 .. 1 -> Nat]
      BY <1>3
    <3> QED
      BY <3>1, FunctionSequence
  <2> QED
    BY <2>1, TotalFacts
<1> QED
  BY <1>1, <1>2, <1>3

\* The sub-assembly is appended where references to it point.
LEMMA AppendedSubsFacts ==
  ASSUME NEW a, NEW subs, Assemblable(a, subs), NEW end \in Nat
  PROVE  LET tail == CodeTail(a, subs, end)
             code == AppendedSubs(a, subs) IN
         /\ tail.stop \in Nat
         /\ code \in Seq(CodeSet)
         /\ Total([s \in DOMAIN subs |-> IF Pushes(a, "PushSub", s - 1) THEN Len(subs[s].code) ELSE 0])
              = Len(code)
         /\ subs # <<>> => tail.subAt[1] = end + tail.stop
         /\ subs # <<>> /\ Pushes(a, "PushSub", 0) => code = subs[1].code
<1> DEFINE tail == CodeTail(a, subs, end)
           used == [s \in DOMAIN subs |-> IF Pushes(a, "PushSub", s - 1) THEN Len(subs[s].code) ELSE 0]
           pieces == [s \in DOMAIN subs |-> IF Pushes(a, "PushSub", s - 1) THEN subs[s].code ELSE <<>>]
<1>1. AppendedSubs(a, subs) = FlattenSeq(pieces)
  BY DEF AppendedSubs
<1>2. /\ tail.stop = IF subs # <<>> \/ a.data # <<>> \/ a.aux > 0 THEN 1 ELSE 0
      /\ tail.subAt = [s \in DOMAIN subs |-> (end + tail.stop) + Total(SubSeq(used, 1, s - 1))]
  BY DEF CodeTail
<1>3. tail.stop \in Nat
  BY <1>2
<1> HIDE DEF tail
<1>4. CASE subs = <<>>
  <2>1. used = <<>> /\ pieces = <<>>
    BY <1>4
  <2> HIDE DEF used, pieces
  <2>2. FlattenSeq(pieces) = <<>> /\ Total(used) = 0
    BY <2>1, FlattenOne, ShortTotal
  <2> QED
    BY <1>1, <1>3, <1>4, <2>2 DEF used, tail
<1>5. ASSUME NEW o \in ObjectSet, subs = <<o>> PROVE
         /\ FlattenSeq(pieces) \in Seq(CodeSet)
         /\ Total(used) = Len(FlattenSeq(pieces))
         /\ tail.subAt[1] = end + tail.stop
         /\ Pushes(a, "PushSub", 0) => FlattenSeq(pieces) = subs[1].code
  <2>1. DOMAIN subs = 1 .. 1 /\ subs[1] = o /\ o.code \in Seq(CodeSet) /\ 1 - 1 = 0 /\ 1 \in 1 .. 1
    BY <1>5 DEF ObjectSet
  <2>2. Len(o.code) \in Nat /\ <<>> \in Seq(CodeSet) /\ Len(<<>>) = 0
    BY <2>1
  <2>3. \A s \in 1 .. 1 : s = 1
    OBVIOUS
  <2>4. /\ pieces \in [1 .. 1 -> Seq(CodeSet)]
        /\ pieces[1] = IF Pushes(a, "PushSub", 0) THEN o.code ELSE <<>>
    BY <2>1, <2>2, <2>3
  <2>5. used \in [1 .. 1 -> Nat] /\ used[1] = IF Pushes(a, "PushSub", 0) THEN Len(o.code) ELSE 0
    BY <2>1, <2>2, <2>3
  <2>6. used # <<>>
    <3>1. 1 \in DOMAIN used
      BY <2>1
    <3> QED
      BY <3>1
  <2>7. tail.subAt[1] = (end + tail.stop) + Total(SubSeq(used, 1, 1 - 1))
    BY <1>2, <2>1
  <2> HIDE DEF pieces, used
  <2>8. FlattenSeq(pieces) = pieces[1]
    BY <2>4, FlattenOne
  <2>9. Total(used) = used[1] /\ Total(SubSeq(used, 1, 1 - 1)) = 0
    BY <2>5, <2>6, ShortTotal
  <2>10. tail.subAt[1] = end + tail.stop
    BY <1>3, <2>7, <2>9
  <2> QED
    BY <2>1, <2>2, <2>4, <2>5, <2>8, <2>9, <2>10
<1>6. subs = <<>> \/ \E o \in ObjectSet : subs = <<o>>
  BY DEF Assemblable, Complete
<1> QED
  BY <1>1, <1>3, <1>4, <1>5, <1>6 DEF tail

\* So is the data, after it; the size of the tail is that of all that is appended.
LEMMA AppendedDataFacts ==
  ASSUME NEW a, NEW subs, Assemblable(a, subs), NEW end \in Nat
  PROVE  LET tail == CodeTail(a, subs, end)
             code == AppendedData(a) IN
         /\ code \in Seq(CodeSet)
         /\ tail.size = end + tail.stop + Len(AppendedSubs(a, subs)) + Len(code) + a.aux
         /\ a.data # <<>> =>
              /\ DOMAIN a.data = {1} /\ a.data[1] \in Nat
              /\ tail.dataAt[1] = end + tail.stop + Len(AppendedSubs(a, subs))
              /\ Pushes(a, "PushData", 1) => code = [k \in 1 .. a.data[1] |-> Code("data", 1)]
<1> DEFINE tail == CodeTail(a, subs, end)
           subUsed == [s \in DOMAIN subs |-> IF Pushes(a, "PushSub", s - 1) THEN Len(subs[s].code) ELSE 0]
           used == [d \in DOMAIN a.data |-> IF Pushes(a, "PushData", d) THEN a.data[d] ELSE 0]
           pieces == [d \in DOMAIN a.data |->
                        IF Pushes(a, "PushData", d) THEN [k \in 1 .. a.data[d] |-> Code("data", d)] ELSE <<>>]
           subLen == Len(AppendedSubs(a, subs))
<1>1. AppendedData(a) = FlattenSeq(pieces)
  BY DEF AppendedData
<1>2. /\ tail.dataAt = [d \in DOMAIN a.data |->
                          (end + tail.stop) + Total(subUsed) + Total(SubSeq(used, 1, d - 1))]
      /\ tail.size = (end + tail.stop) + Total(subUsed) + Total(used) + a.aux
  BY DEF CodeTail
<1>3. tail.stop \in Nat /\ subLen \in Nat /\ Total(subUsed) = subLen /\ a.aux \in Nat
  <2>1. tail.stop \in Nat /\ AppendedSubs(a, subs) \in Seq(CodeSet) /\ Total(subUsed) = subLen
    BY AppendedSubsFacts
  <2>2. subLen \in Nat
    BY <2>1
  <2>3. a.aux \in Nat
    BY DEF Assemblable, AssemblySet
  <2> QED
    BY <2>1, <2>2, <2>3
<1> HIDE DEF tail, subLen, subUsed
<1>4. a.data \in Seq(Nat) /\ Len(a.data) \in {0, 1}
  <2>1. a.data \in Seq(Nat) /\ Len(a.data) <= 1
    BY DEF Assemblable, AssemblySet
  <2> QED
    BY <2>1, AtMostOne
<1>5. CASE a.data = <<>>
  <2>1. used = <<>> /\ pieces = <<>>
    BY <1>5
  <2> HIDE DEF used, pieces
  <2>2. FlattenSeq(pieces) = <<>> /\ Total(used) = 0
    BY <2>1, FlattenOne, ShortTotal
  <2>3. FlattenSeq(pieces) \in Seq(CodeSet) /\ Len(FlattenSeq(pieces)) = 0
    BY <2>2
  <2>4. tail.size = end + tail.stop + subLen + 0 + a.aux
    BY <1>2, <1>3, <2>2
  <2> QED
    BY <1>1, <1>5, <2>3, <2>4 DEF tail, subLen
<1>6. CASE a.data # <<>>
  <2>1. DOMAIN a.data = 1 .. 1 /\ a.data[1] \in Nat /\ 1 - 1 = 0 /\ 1 \in 1 .. 1
    BY <1>4, <1>6
  <2> DEFINE piece == [k \in 1 .. a.data[1] |-> Code("data", 1)]
  <2>2. piece \in Seq(CodeSet) /\ Len(piece) = a.data[1] /\ <<>> \in Seq(CodeSet) /\ Len(<<>>) = 0
    <3>1. Code("data", 1) \in CodeSet
      BY DEF Code, CodeSet
    <3>2. piece \in [1 .. a.data[1] -> CodeSet]
      BY <3>1
    <3> HIDE DEF piece
    <3> QED
      BY <3>2, <2>1
  <2>3. \A d \in 1 .. 1 : d = 1
    OBVIOUS
  <2>4. pieces[1] = IF Pushes(a, "PushData", 1) THEN piece ELSE <<>>
    BY <2>1
  <2>5. pieces \in [1 .. 1 -> Seq(CodeSet)]
    <3>1. pieces = [d \in 1 .. 1 |-> pieces[1]]
      BY <2>1, <2>3
    <3>2. pieces[1] \in Seq(CodeSet)
      BY <2>2, <2>4
    <3> HIDE DEF pieces
    <3> QED
      BY <3>1, <3>2
  <2>6. used \in [1 .. 1 -> Nat] /\ used[1] = IF Pushes(a, "PushData", 1) THEN a.data[1] ELSE 0
    BY <2>1, <2>3
  <2>7. used # <<>>
    <3>1. 1 \in DOMAIN used
      BY <2>1
    <3> QED
      BY <3>1
  <2>8. tail.dataAt[1] = (end + tail.stop) + Total(subUsed) + Total(SubSeq(used, 1, 1 - 1))
    BY <1>2, <2>1
  <2> HIDE DEF pieces, used, piece
  <2>9. FlattenSeq(pieces) = pieces[1]
    BY <2>5, FlattenOne
  <2>10. Total(used) = used[1] /\ Total(SubSeq(used, 1, 1 - 1)) = 0
    BY <2>6, <2>7, ShortTotal
  <2>11. Len(FlattenSeq(pieces)) = used[1] /\ used[1] \in Nat
    BY <2>2, <2>4, <2>6, <2>9
  <2>12. tail.dataAt[1] = end + tail.stop + subLen
    BY <1>3, <2>8, <2>10
  <2>13. tail.size = end + tail.stop + subLen + used[1] + a.aux
    BY <1>2, <1>3, <2>10
  <2>14. DOMAIN a.data = {1}
    BY <2>1
  <2>15. FlattenSeq(pieces) \in Seq(CodeSet)
    BY <2>2, <2>4, <2>9
  <2>16. Pushes(a, "PushData", 1) => FlattenSeq(pieces) = piece
    BY <2>4, <2>9
  <2> QED
    BY <1>1, <2>1, <2>11, <2>12, <2>13, <2>14, <2>15, <2>16 DEF tail, subLen, piece
<1> QED
  BY <1>5, <1>6

-----------------------------------------------------------------------------
(***************************************************************************)
(* What assemble returns when nothing is wrong with the tags.              *)
(***************************************************************************)
StartOf(a, subs) == Starts(a, subs, Reserved(a, subs))
TailOf(a, subs)  == CodeTail(a, subs, StartOf(a, subs)[Len(a.items) + 1])
TagsOf(a, subs)  == TagPositions(a, StartOf(a, subs), UsedTags)
BodyOf(a, subs)  == Body(a, subs, Reserved(a, subs), TagsOf(a, subs), TailOf(a, subs))
ValueOf(item, a, subs) == Value(item, subs, TagsOf(a, subs), TailOf(a, subs))

TagsArePlaced(a, subs) == TagProblems(a, subs, TagsOf(a, subs), Reserved(a, subs).tag) = {}

\* assemble returns code only if no assertion about a tag fails.
LEMMA Success ==
  ASSUME NEW a, NEW subs, AssembleWith(a, subs, UsedTags).error = "none"
  PROVE  /\ TagsArePlaced(a, subs)
         /\ AssembleWith(a, subs, UsedTags) =
              [error |-> "none", tags |-> TagsOf(a, subs),
               code |-> BodyOf(a, subs) \o Repeated("STOP", TailOf(a, subs).stop)
                          \o AppendedSubs(a, subs) \o AppendedData(a) \o Repeated("aux", a.aux)]
<1> DEFINE problems == TagProblems(a, subs, TagsOf(a, subs), Reserved(a, subs).tag)
           object1 == [error |-> "none", tags |-> TagsOf(a, subs),
                       code |-> BodyOf(a, subs) \o Repeated("STOP", TailOf(a, subs).stop)
                                  \o AppendedSubs(a, subs) \o AppendedData(a) \o Repeated("aux", a.aux)]
<1>1. AssembleWith(a, subs, UsedTags)
        = IF problems # {} THEN Failed(CHOOSE p \in problems : TRUE) ELSE object1
  BY DEF AssembleWith, TagsOf, TailOf, BodyOf, StartOf
<1>2. "none" \notin problems
  BY DEF TagProblems
<1> HIDE DEF problems, object1
<1>3. problems = {}
  <2> SUFFICES ASSUME problems # {} PROVE FALSE
    OBVIOUS
  <2>1. (CHOOSE p \in problems : TRUE) \in problems
    OBVIOUS
  <2>2. Failed(CHOOSE p \in problems : TRUE).error # "none"
    BY <2>1, <1>2 DEF Failed
  <2> QED
    BY <2>2, <1>1
<1> QED
  BY <1>1, <1>3 DEF problems, object1, TagsArePlaced

\* Where the items start in a layout,
LEMMA StartOfFacts ==
  ASSUME NEW a, NEW subs, Assemblable(a, subs)
  PROVE  \E f \in [0 .. Len(a.items) -> Nat] :
           /\ Sums(f, SizesOf(a, subs)) /\ f[0] = 0
           /\ \A i \in 1 .. Len(a.items) :
                f[i] = f[i - 1] + Size(a.items[i], subs, Reserved(a, subs))
           /\ \A i \in 1 .. Len(a.items) + 1 : StartOf(a, subs)[i] = f[i - 1]
<1>1. PICK f : /\ Sums(f, SizesOf(a, subs))
               /\ StartOf(a, subs) = [i \in 1 .. Len(a.items) + 1 |-> f[i - 1]]
  BY StartsFacts DEF StartOf
<1>2. Len(SizesOf(a, subs)) = Len(a.items)
  BY ItemsFacts
<1>3. f \in [0 .. Len(a.items) -> Nat] /\ f[0] = 0
      /\ \A i \in 1 .. Len(a.items) : f[i] = f[i - 1] + SizesOf(a, subs)[i]
  BY <1>1, <1>2 DEF Sums
<1>4. \A i \in 1 .. Len(a.items) : SizesOf(a, subs)[i] = Size(a.items[i], subs, Reserved(a, subs))
  BY DEF SizesOf
<1>5. \A i \in 1 .. Len(a.items) + 1 : StartOf(a, subs)[i] = f[i - 1]
  BY <1>1
<1> QED
  BY <1>1, <1>3, <1>4, <1>5

\* which are numbers.
LEMMA StartsAreNumbers ==
  ASSUME NEW a, NEW subs, Assemblable(a, subs)
  PROVE  \A i \in 1 .. Len(a.items) + 1 : StartOf(a, subs)[i] \in Nat
<1>1. PICK f \in [0 .. Len(a.items) -> Nat] :
             \A i \in 1 .. Len(a.items) + 1 : StartOf(a, subs)[i] = f[i - 1]
  BY StartOfFacts
<1>2. Len(a.items) \in Nat
  BY ItemsFacts
<1>3. ASSUME NEW i \in 1 .. Len(a.items) + 1 PROVE i - 1 \in 0 .. Len(a.items)
  BY <1>2
<1> QED
  BY <1>1, <1>3

\* The positions of the tags of an assembly.
LEMMA TagsOfFacts ==
  ASSUME NEW a, NEW subs, Assemblable(a, subs)
  PROVE  /\ TagsOf(a, subs) \in [0 .. UsedTags -> Nat \cup {Unplaced}]
         /\ \A t \in 0 .. UsedTags : TagsOf(a, subs)[t] # Unplaced =>
              \E i \in DOMAIN a.items :
                /\ IF t = 0 THEN a.items[i].type # "Tag" ELSE a.items[i] = Tag(t)
                /\ TagsOf(a, subs)[t] = StartOf(a, subs)[i]
<1>1. Len(a.items) \in Nat /\ DOMAIN a.items = 1 .. Len(a.items)
  BY ItemsFacts
<1>2. DOMAIN a.items \subseteq Nat /\ \A i \in DOMAIN a.items : StartOf(a, subs)[i] \in Nat
  <2>1. ASSUME NEW i \in 1 .. Len(a.items) PROVE i \in 1 .. Len(a.items) + 1 /\ i \in Nat
    BY <1>1
  <2> QED
    BY <1>1, <2>1, StartsAreNumbers
<1> QED
  BY <1>2, TagPositionsFacts DEF TagsOf

\* A tag that passes the assertions has a position that its reference can hold.
LEMMA TagsResolve ==
  ASSUME NEW a, NEW subs, Assemblable(a, subs), TagsArePlaced(a, subs),
         NEW i \in DOMAIN a.items, a.items[i].type = "PushTag"
  PROVE  LET positions == Positions(a.items[i].sub, subs, TagsOf(a, subs))
             t == a.items[i].data IN
         /\ t \in 0 .. UsedTags /\ positions[t] \in Nat
         /\ positions[t] < BytePower[Reserved(a, subs).tag]
<1> DEFINE positions == Positions(a.items[i].sub, subs, TagsOf(a, subs))
           t == a.items[i].data
           w == Reserved(a, subs).tag
<1>1. TagProblem(positions, t, w) = "none"
  BY DEF TagsArePlaced, TagProblems
<1>2. positions \in [0 .. UsedTags -> Nat \cup {Unplaced}]
  <2>1. a.items[i].sub \in {NoSub, 0} /\ (a.items[i].sub = 0 => subs # <<>>) /\ Complete(subs)
    BY ItemKinds DEF Assemblable, Resolves
  <2>2. CASE a.items[i].sub = NoSub
    BY <2>2, TagsOfFacts DEF Positions
  <2>3. CASE a.items[i].sub = 0
    <3>1. PICK o \in ObjectSet : subs = <<o>>
      BY <2>1, <2>3 DEF Complete
    <3>2. positions = o.tags
      BY <2>3, <3>1 DEF Positions, NoSub
    <3> QED
      BY <3>2 DEF ObjectSet
  <2> QED
    BY <2>1, <2>2, <2>3
<1> HIDE DEF positions, t, w
<1>3. t \in DOMAIN positions /\ positions[t] # Unplaced /\ ~(BytesOf[positions[t]] > w)
  BY <1>1 DEF TagProblem
<1>4. t \in 0 .. UsedTags /\ positions[t] \in Nat
  BY <1>2, <1>3
<1>5. w \in Nat
  BY ReservedFacts DEF Assemblable, w
<1>6. BytesOf[positions[t]] \in Nat /\ positions[t] < BytePower[BytesOf[positions[t]]]
  BY <1>4, BytesOfFacts DEF Holds
<1>7. BytePower[BytesOf[positions[t]]] <= BytePower[w]
  <2>1. BytesOf[positions[t]] <= w
    BY <1>3, <1>5, <1>6
  <2> QED
    BY <2>1, <1>5, <1>6, PowerGrows
<1>8. positions[t] < BytePower[w]
  <2>1. BytePower[BytesOf[positions[t]]] \in Nat /\ BytePower[w] \in Nat
    BY <1>5, <1>6, BytePowerFacts
  <2> QED
    BY <2>1, <1>4, <1>6, <1>7
<1> QED
  BY <1>4, <1>8 DEF positions, t, w

\* The tail of an assembly: what is appended, and where.
LEMMA TailOfFacts ==
  ASSUME NEW a, NEW subs, Assemblable(a, subs)
  PROVE  LET tail == TailOf(a, subs)
             end == StartOf(a, subs)[Len(a.items) + 1]
             subCode == AppendedSubs(a, subs)
             data == AppendedData(a) IN
         /\ end \in Nat /\ tail.stop \in Nat /\ subCode \in Seq(CodeSet) /\ data \in Seq(CodeSet)
         /\ a.aux \in Nat
         /\ tail.size = end + tail.stop + Len(subCode) + Len(data) + a.aux /\ tail.size \in Nat
         /\ subs # <<>> => tail.subAt[1] = end + tail.stop /\ tail.subAt[1] \in Nat
         /\ subs # <<>> /\ Pushes(a, "PushSub", 0) => subCode = subs[1].code
         /\ a.data # <<>> =>
              /\ DOMAIN a.data = {1} /\ a.data[1] \in Nat
              /\ tail.dataAt[1] = end + tail.stop + Len(subCode) /\ tail.dataAt[1] \in Nat
              /\ Pushes(a, "PushData", 1) => data = [k \in 1 .. a.data[1] |-> Code("data", 1)]
<1> DEFINE end == StartOf(a, subs)[Len(a.items) + 1]
           tail == CodeTail(a, subs, end)
           subCode == AppendedSubs(a, subs)
           data == AppendedData(a)
<1>1. end \in Nat
  <2>1. Len(a.items) + 1 \in 1 .. Len(a.items) + 1
    BY ItemsFacts
  <2> QED
    BY <2>1, StartsAreNumbers
<1> HIDE DEF end
<1>2. /\ tail.stop \in Nat /\ subCode \in Seq(CodeSet)
      /\ subs # <<>> => tail.subAt[1] = end + tail.stop
      /\ subs # <<>> /\ Pushes(a, "PushSub", 0) => subCode = subs[1].code
  BY <1>1, AppendedSubsFacts
<1>3. /\ data \in Seq(CodeSet)
      /\ tail.size = end + tail.stop + Len(subCode) + Len(data) + a.aux
      /\ a.data # <<>> =>
           /\ DOMAIN a.data = {1} /\ a.data[1] \in Nat
           /\ tail.dataAt[1] = end + tail.stop + Len(subCode)
           /\ Pushes(a, "PushData", 1) => data = [k \in 1 .. a.data[1] |-> Code("data", 1)]
  BY <1>1, AppendedDataFacts
<1>4. a.aux \in Nat
  BY DEF Assemblable, AssemblySet
<1>5. TailOf(a, subs) = tail
  BY DEF TailOf, end
<1> HIDE DEF tail, subCode, data
<1>6. Len(subCode) \in Nat /\ Len(data) \in Nat
  BY <1>2, <1>3
<1>7. tail.size \in Nat /\ (subs # <<>> => tail.subAt[1] \in Nat)
      /\ (a.data # <<>> => tail.dataAt[1] \in Nat)
  <2>1. end + tail.stop + Len(subCode) \in Nat /\ end + tail.stop \in Nat
    BY <1>1, <1>2, <1>6
  <2>2. end + tail.stop + Len(subCode) + Len(data) + a.aux \in Nat
    BY <2>1, <1>4, <1>6
  <2>3. tail.size \in Nat
    BY <2>2, <1>3
  <2>4. subs # <<>> => tail.subAt[1] \in Nat
    BY <2>1, <1>2
  <2>5. a.data # <<>> => tail.dataAt[1] \in Nat
    BY <2>1, <1>3
  <2> QED
    BY <2>3, <2>4, <2>5
<1> QED
  BY <1>1, <1>2, <1>3, <1>4, <1>5, <1>7 DEF subCode, data, end

\* What an item pushes is a number.
LEMMA ValuesAreNumbers ==
  ASSUME NEW a, NEW subs, Assemblable(a, subs), TagsArePlaced(a, subs), NEW i \in DOMAIN a.items
  PROVE  /\ ValueOf(a.items[i], a, subs) \in Nat
         /\ a.items[i].type \in {"Push", "PushSubSize"} =>
              ValueOf(a.items[i], a, subs) = KnownValue(a.items[i], subs)
<1> DEFINE item == a.items[i]
           v == ValueOf(item, a, subs)
<1>1. Resolves(item, a, subs) /\ Complete(subs)
  BY DEF Assemblable
<1>2. item \in ItemSet /\ item.type \in ItemTypes
      /\ (item.type = "PushSub" => item.data = 0 /\ subs # <<>>)
      /\ (item.type = "PushData" => item.data \in DOMAIN a.data)
  BY <1>1, ItemKinds DEF Resolves
<1>3. CASE item.type = "PushTag"
  BY <1>3, TagsResolve DEF ValueOf, Value
<1>4. CASE item.type = "PushData"
  <2>1. a.data # <<>>
    BY <1>2, <1>4
  <2>2. item.data = 1 /\ TailOf(a, subs).dataAt[1] \in Nat
    BY <2>1, <1>2, <1>4, TailOfFacts
  <2> QED
    BY <1>4, <2>2 DEF ValueOf, Value
<1>5. CASE item.type = "PushSub"
  <2>1. item.data + 1 = 1 /\ TailOf(a, subs).subAt[1] \in Nat
    BY <1>2, <1>5, TailOfFacts
  <2> QED
    BY <1>5, <2>1 DEF ValueOf, Value
<1>6. CASE item.type = "PushProgramSize"
  BY <1>6, TailOfFacts DEF ValueOf, Value
<1>7. CASE item.type \in {"Push", "PushSubSize", "Operation", "Tag"}
  BY <1>1, <1>7, KnownValues DEF ValueOf, Value
<1> QED
  BY <1>2, <1>3, <1>4, <1>5, <1>6, <1>7 DEF ItemTypes

\* The item at i is in the code where it was placed.
IsEncoded(code, i, a, subs) ==
  LET item == a.items[i]
      p == StartOf(a, subs)[i] IN
  /\ p \in Nat /\ p < StartOf(a, subs)[Len(a.items) + 1]
  /\ InstructionAt(code, i) = p
  /\ IsPush(item) => Written(code, p, ValueOf(item, a, subs), Width(item, subs, Reserved(a, subs)))
  /\ item.type = "Operation" => code[p + 1] = Code(item.instruction, 0)
  /\ item.type = "Tag"       => code[p + 1] = Code("JUMPDEST", 0)

\* The items as they are in the body, before it is known where they are read.
LEMMA BodyOfFacts ==
  ASSUME NEW a, NEW subs, Assemblable(a, subs), TagsArePlaced(a, subs),
         NEW f \in [0 .. Len(a.items) -> Nat], Sums(f, SizesOf(a, subs))
  PROVE  LET body == BodyOf(a, subs)
             encoded(i) == Encode(a.items[i], ValueOf(a.items[i], a, subs), Reserved(a, subs)) IN
         /\ body \in Seq(CodeSet) /\ Len(body) = f[Len(a.items)]
         /\ \A i \in 1 .. Len(a.items) : \A k \in 1 .. Size(a.items[i], subs, Reserved(a, subs)) :
              f[i - 1] + k \in 1 .. f[Len(a.items)] /\ body[f[i - 1] + k] = encoded(i)[k]
<1> DEFINE n == Len(a.items)
           r == Reserved(a, subs)
           encoded(i) == Encode(a.items[i], ValueOf(a.items[i], a, subs), r)
           seqs == [i \in 1 .. n |-> encoded(i)]
<1>1. n \in Nat /\ DOMAIN a.items = 1 .. n
  BY ItemsFacts
<1>2. BodyOf(a, subs) = FlattenSeq(seqs)
  BY <1>1 DEF BodyOf, Body, ValueOf
<1>3. ASSUME NEW i \in 1 .. n
      PROVE  encoded(i) \in Seq(CodeSet) /\ Len(encoded(i)) = Size(a.items[i], subs, r)
  <2>1. /\ a \in AssemblySet /\ Complete(subs) /\ Resolves(a.items[i], a, subs)
        /\ ValueOf(a.items[i], a, subs) \in Nat
        /\ a.items[i].type \in {"Push", "PushSubSize"} =>
             ValueOf(a.items[i], a, subs) = KnownValue(a.items[i], subs)
    BY <1>1, ValuesAreNumbers DEF Assemblable
  <2> QED
    BY <2>1, EncodeFacts
<1> HIDE DEF encoded
<1>4. seqs \in [1 .. n -> Seq(CodeSet)] /\ \A i \in 1 .. n : seqs[i] = encoded(i)
  BY <1>3
<1>5. [i \in 1 .. n |-> Len(seqs[i])] = SizesOf(a, subs)
  BY <1>3 DEF SizesOf
<1> HIDE DEF seqs, n
<1>6. FlattenSeq(seqs) \in Seq(CodeSet) /\ InPieces(FlattenSeq(seqs), seqs, n, f)
  BY <1>1, <1>4, <1>5, FlattenFacts
<1>7. \A i \in 1 .. n : Len(seqs[i]) = Size(a.items[i], subs, r) /\ seqs[i] = encoded(i)
  BY <1>3, <1>4
<1> QED
  BY <1>2, <1>6, <1>7 DEF n, encoded, InPieces

\* A byte repeated n times.
LEMMA RepeatedFacts ==
  ASSUME NEW op \in {"STOP", "aux"}, NEW n \in Nat
  PROVE  Repeated(op, n) \in Seq(CodeSet) /\ Len(Repeated(op, n)) = n
<1>1. Repeated(op, n) \in [1 .. n -> CodeSet]
  BY DEF Repeated, Code, CodeSet
<1> QED
  BY <1>1, FunctionSequence

\* The items as they are in a code that starts with the body.
LEMMA ItemsAreEncoded ==
  ASSUME NEW a, NEW subs, Assemblable(a, subs), TagsArePlaced(a, subs), NEW code,
         \A k \in 1 .. StartOf(a, subs)[Len(a.items) + 1] : code[k] = BodyOf(a, subs)[k]
  PROVE  \A i \in 1 .. Len(a.items) : IsEncoded(code, i, a, subs)
<1> DEFINE n == Len(a.items)
           r == Reserved(a, subs)
           body == BodyOf(a, subs)
           size(i) == Size(a.items[i], subs, r)
           width(i) == Width(a.items[i], subs, r)
           value(i) == ValueOf(a.items[i], a, subs)
           encoded(i) == Encode(a.items[i], value(i), r)
<1>1. n \in Nat /\ DOMAIN a.items = 1 .. n
  BY ItemsFacts
<1>2. PICK f \in [0 .. n -> Nat] :
             /\ Sums(f, SizesOf(a, subs)) /\ f[0] = 0
             /\ \A i \in 1 .. n : f[i] = f[i - 1] + size(i)
             /\ \A i \in 1 .. n + 1 : StartOf(a, subs)[i] = f[i - 1]
  BY StartOfFacts
<1>3. StartOf(a, subs)[n + 1] = f[n] /\ \A i \in 1 .. n : StartOf(a, subs)[i] = f[i - 1]
  <2>1. n + 1 \in 1 .. n + 1 /\ (n + 1) - 1 = n /\ \A i \in 1 .. n : i \in 1 .. n + 1
    BY <1>1
  <2> QED
    BY <2>1, <1>2
<1>4. \A i \in 1 .. n : \A k \in 1 .. size(i) :
        f[i - 1] + k \in 1 .. f[n] /\ body[f[i - 1] + k] = encoded(i)[k]
  BY <1>2, BodyOfFacts
<1>5. \A i \in 1 .. n : \A k \in 1 .. size(i) :
        f[i - 1] + k \in 1 .. f[n] /\ code[f[i - 1] + k] = encoded(i)[k]
  BY <1>3, <1>4
<1>6. ASSUME NEW i \in 1 .. n
      PROVE  /\ f[i - 1] \in Nat /\ width(i) \in Nat /\ size(i) = IF IsPush(a.items[i]) THEN width(i) + 1 ELSE 1
             /\ IsPush(a.items[i]) => Written(code, f[i - 1], value(i), width(i))
             /\ a.items[i].type = "Operation" => code[f[i - 1] + 1] = Code(a.items[i].instruction, 0)
             /\ a.items[i].type = "Tag" => code[f[i - 1] + 1] = Code("JUMPDEST", 0)
             /\ f[i - 1] < f[n]
  <2>1. Resolves(a.items[i], a, subs) /\ a \in AssemblySet /\ Complete(subs)
    BY <1>1 DEF Assemblable
  <2>2. width(i) \in Nat /\ size(i) = IF IsPush(a.items[i]) THEN width(i) + 1 ELSE 1
    BY <2>1, Widths DEF Size
  <2>3. /\ value(i) \in Nat
        /\ a.items[i].type \in {"Push", "PushSubSize"} => value(i) = KnownValue(a.items[i], subs)
    BY <1>1, ValuesAreNumbers
  <2>4. /\ IsPush(a.items[i]) => encoded(i) = PushOf(value(i), width(i))
        /\ a.items[i].type = "Operation" => encoded(i) = <<Code(a.items[i].instruction, 0)>>
        /\ a.items[i].type = "Tag" => encoded(i) = <<Code("JUMPDEST", 0)>>
    BY <2>1, <2>3, EncodeFacts
  <2>5. f[i - 1] \in Nat
    <3>1. i - 1 \in 0 .. n
      BY <1>1
    <3> QED
      BY <3>1, <1>2
  <2> HIDE DEF width, value, encoded, size, n
  <2>6. 1 \in 1 .. size(i)
    BY <2>2
  <2>7. f[i - 1] + 1 \in 1 .. f[n] /\ code[f[i - 1] + 1] = encoded(i)[1]
    BY <2>6, <1>5
  <2>8. f[n] \in Nat
    BY <1>1, <1>2
  <2>9. f[i - 1] < f[n]
    BY <2>5, <2>7, <2>8
  <2>10. ASSUME IsPush(a.items[i]) PROVE Written(code, f[i - 1], value(i), width(i))
    <3>1. /\ encoded(i)[1] = Code("PUSH", width(i))
          /\ \A k \in 1 .. width(i) : encoded(i)[1 + k] = Code("digit", Digit(value(i), width(i), k))
      BY <2>2, <2>3, <2>4, <2>10, PushOfFacts
    <3>2. ASSUME NEW k \in 1 .. width(i)
          PROVE  code[f[i - 1] + 1 + k] = Code("digit", Digit(value(i), width(i), k))
      <4>1. 1 + k \in 1 .. size(i) /\ f[i - 1] + (1 + k) = f[i - 1] + 1 + k
        BY <2>2, <2>5, <2>10
      <4>2. code[f[i - 1] + (1 + k)] = encoded(i)[1 + k]
        BY <4>1, <1>5
      <4> QED
        BY <4>1, <4>2, <3>1
    <3> QED
      BY <2>7, <3>1, <3>2 DEF Written
  <2>11. a.items[i].type = "Operation" => code[f[i - 1] + 1] = Code(a.items[i].instruction, 0)
    BY <2>4, <2>7
  <2>12. a.items[i].type = "Tag" => code[f[i - 1] + 1] = Code("JUMPDEST", 0)
    BY <2>4, <2>7
  <2> QED
    BY <2>2, <2>5, <2>9, <2>10, <2>11, <2>12
<1>7. ASSUME NEW i \in 1 .. n
      PROVE  f[i] = f[i - 1] + 1
                      + (IF code[f[i - 1] + 1].op = "PUSH" THEN code[f[i - 1] + 1].n ELSE 0)
  <2>1. /\ Resolves(a.items[i], a, subs)
        /\ a.items[i].type = "Operation" => a.items[i].instruction # "PUSH"
    BY <1>1, ItemKinds DEF Assemblable, Resolves
  <2>2. f[i] = f[i - 1] + size(i)
    BY <1>2
  <2>3. \A op, d : Code(op, d).op = op /\ Code(op, d).n = d
    BY DEF Code
  <2>4. f[i - 1] \in Nat /\ width(i) \in Nat /\ size(i) = IF IsPush(a.items[i]) THEN width(i) + 1 ELSE 1
    BY <1>6
  <2>5. CASE IsPush(a.items[i])
    <3>1. code[f[i - 1] + 1] = Code("PUSH", width(i))
      BY <1>6, <2>5 DEF Written
    <3> HIDE DEF width, size
    <3>2. code[f[i - 1] + 1].op = "PUSH" /\ code[f[i - 1] + 1].n = width(i)
      BY <3>1, <2>3
    <3> QED
      BY <3>2, <2>2, <2>4, <2>5
  <2>6. CASE ~IsPush(a.items[i])
    <3>1. code[f[i - 1] + 1].op # "PUSH"
      BY <1>6, <2>1, <2>3, <2>6 DEF IsPush
    <3> HIDE DEF width, size
    <3> QED
      BY <3>1, <2>2, <2>4, <2>6
  <2> QED
    BY <2>5, <2>6
<1>8. \A m \in 1 .. n : InstructionAt(code, m) = f[m - 1]
  BY <1>1, <1>2, <1>7, ReadInOrder
<1> QED
  BY <1>3, <1>6, <1>8 DEF IsEncoded

\* What is found at p on in a sequence is an excerpt of it.
FoundAt(s, p, y) == \A k \in 1 .. Len(y) : p + k \in 1 .. Len(s) /\ s[p + k] = y[k]

\* The excerpt is what was found.
LEMMA ExcerptFacts ==
  ASSUME NEW C, NEW s, s \in Seq(C), NEW y, y \in Seq(C), NEW p, p \in Nat, FoundAt(s, p, y)
  PROVE  Excerpt(s, p, Len(y)) = y
<1> DEFINE e == Excerpt(s, p, Len(y))
<1>1. Len(y) \in Nat /\ y = [k \in 1 .. Len(y) |-> y[k]]
  OBVIOUS
<1>2. e = [k \in 1 .. Len(y) |-> s[p + k]]
  <2>1. e = [k \in 1 .. Len(y) |-> s[p + k]]
    BY <1>1 DEF Excerpt
  <2> QED
    BY <2>1
<1> HIDE DEF e
<1> QED
  BY <1>1, <1>2 DEF e, FoundAt

\* The code that assemble returns: the items, and what they refer to where they say it is.
IsLaidOut(o, a, subs) ==
  LET tail == TailOf(a, subs) IN
  /\ o \in ObjectSet /\ o.tags = TagsOf(a, subs) /\ TagsArePlaced(a, subs)
  /\ Len(o.code) = tail.size /\ StartOf(a, subs)[Len(a.items) + 1] <= tail.size
  /\ \A i \in 1 .. Len(a.items) : IsEncoded(o.code, i, a, subs)
  /\ subs # <<>> =>
       /\ tail.subAt[1] \in Nat /\ tail.subAt[1] <= tail.size
       /\ Pushes(a, "PushSub", 0) => Excerpt(o.code, tail.subAt[1], Len(subs[1].code)) = subs[1].code
  /\ a.data # <<>> =>
       /\ DOMAIN a.data = {1} /\ a.data[1] \in Nat
       /\ tail.dataAt[1] \in Nat /\ tail.dataAt[1] <= tail.size
       /\ Pushes(a, "PushData", 1) =>
            Excerpt(o.code, tail.dataAt[1], a.data[1]) = [k \in 1 .. a.data[1] |-> Code("data", 1)]

\* What assemble returns without an error is laid out so.
LEMMA LaidOut ==
  ASSUME NEW a, NEW subs, Assemblable(a, subs), AssembleWith(a, subs, UsedTags).error = "none"
  PROVE  IsLaidOut(AssembleWith(a, subs, UsedTags), a, subs)
<1> DEFINE o == AssembleWith(a, subs, UsedTags)
           tail == TailOf(a, subs)
           body == BodyOf(a, subs)
           subCode == AppendedSubs(a, subs)
           data == AppendedData(a)
           stop == Repeated("STOP", tail.stop)
           aux == Repeated("aux", a.aux)
           c1 == body \o stop
           c2 == c1 \o subCode
           c3 == c2 \o data
           c4 == c3 \o aux
           end == StartOf(a, subs)[Len(a.items) + 1]
           e1 == end + tail.stop
           e2 == e1 + Len(subCode)
           e3 == e2 + Len(data)
           e4 == e3 + a.aux
<1>1. TagsArePlaced(a, subs)
  BY Success
<1>2. o = [error |-> "none", tags |-> TagsOf(a, subs), code |-> c4]
  BY Success
<1>3. /\ end \in Nat /\ tail.stop \in Nat /\ subCode \in Seq(CodeSet) /\ data \in Seq(CodeSet)
      /\ a.aux \in Nat
      /\ tail.size = e4 /\ tail.size \in Nat
      /\ subs # <<>> => tail.subAt[1] = e1 /\ tail.subAt[1] \in Nat
      /\ subs # <<>> /\ Pushes(a, "PushSub", 0) => subCode = subs[1].code
      /\ a.data # <<>> =>
           /\ DOMAIN a.data = {1} /\ a.data[1] \in Nat
           /\ tail.dataAt[1] = e2 /\ tail.dataAt[1] \in Nat
           /\ Pushes(a, "PushData", 1) => data = [k \in 1 .. a.data[1] |-> Code("data", 1)]
  BY TailOfFacts
<1>4. body \in Seq(CodeSet) /\ Len(body) = end
  <2>1. PICK f \in [0 .. Len(a.items) -> Nat] :
               /\ Sums(f, SizesOf(a, subs))
               /\ \A i \in 1 .. Len(a.items) + 1 : StartOf(a, subs)[i] = f[i - 1]
    BY StartOfFacts
  <2>2. body \in Seq(CodeSet) /\ Len(body) = f[Len(a.items)]
    BY <1>1, <2>1, BodyOfFacts
  <2>3. Len(a.items) + 1 \in 1 .. Len(a.items) + 1 /\ (Len(a.items) + 1) - 1 = Len(a.items)
    BY ItemsFacts
  <2> QED
    BY <2>1, <2>2, <2>3
<1>5. stop \in Seq(CodeSet) /\ Len(stop) = tail.stop /\ aux \in Seq(CodeSet) /\ Len(aux) = a.aux
  BY <1>3, RepeatedFacts
<1>6. Len(subCode) \in Nat /\ Len(data) \in Nat
  BY <1>3
<1>7. TagsOf(a, subs) \in [0 .. UsedTags -> Nat \cup {Unplaced}]
  BY TagsOfFacts
<1> HIDE DEF o, tail, body, subCode, data, stop, aux, end
<1>8. e1 = end + Len(stop) /\ e4 = e3 + Len(aux) /\ e1 \in Nat /\ e2 \in Nat /\ e3 \in Nat
  <2>1. e1 = end + Len(stop)
    BY <1>5
  <2>2. e4 = e3 + Len(aux)
    BY <1>5
  <2>3. e1 \in Nat
    BY <1>3
  <2>4. e2 \in Nat
    BY <1>3, <1>6
  <2>5. e3 \in Nat
    BY <1>3, <1>6
  <2> QED
    BY <2>1, <2>2, <2>3, <2>4, <2>5
<1>9. e1 <= e2 /\ e2 <= e3 /\ e3 <= e4 /\ end <= e1
  BY <1>3, <1>6
<1>10. JoinedAt(CodeSet, body, stop, end, e1) /\ c1 \in Seq(CodeSet) /\ Len(c1) = e1
  <2>1. JoinedAt(CodeSet, body, stop, end, e1)
    BY <1>4, <1>5, <1>8, Joined
  <2> QED
    BY <2>1 DEF JoinedAt
<1> HIDE DEF e1, c1
<1>11. JoinedAt(CodeSet, c1, subCode, e1, e2) /\ c2 \in Seq(CodeSet) /\ Len(c2) = e2
  <2>1. JoinedAt(CodeSet, c1, subCode, e1, e2)
    BY <1>3, <1>10, Joined
  <2> QED
    BY <2>1 DEF JoinedAt
<1> HIDE DEF e2, c2
<1>12. JoinedAt(CodeSet, c2, data, e2, e3) /\ c3 \in Seq(CodeSet) /\ Len(c3) = e3
  <2>1. JoinedAt(CodeSet, c2, data, e2, e3)
    BY <1>3, <1>11, Joined
  <2> QED
    BY <2>1 DEF JoinedAt
<1> HIDE DEF e3, c3
<1>13. JoinedAt(CodeSet, c3, aux, e3, e4) /\ c4 \in Seq(CodeSet) /\ Len(c4) = tail.size
  <2>1. JoinedAt(CodeSet, c3, aux, e3, e4)
    BY <1>5, <1>8, <1>12, Joined
  <2> QED
    BY <2>1, <1>3 DEF JoinedAt
<1> HIDE DEF e4, c4
<1>14. \A k \in 1 .. e2 : k \in 1 .. e4 /\ c4[k] = c2[k]
  <2>1. \A k \in 1 .. e2 : k \in 1 .. e3 /\ c3[k] = c2[k]
    BY <1>12 DEF JoinedAt, c3
  <2>2. \A k \in 1 .. e3 : k \in 1 .. e4 /\ c4[k] = c3[k]
    BY <1>13 DEF JoinedAt, c4
  <2> QED
    BY <2>1, <2>2
<1>15. \A k \in 1 .. end : c4[k] = body[k]
  <2>1. \A k \in 1 .. end : k \in 1 .. e1 /\ c1[k] = body[k]
    BY <1>10 DEF JoinedAt, c1
  <2>2. \A k \in 1 .. e1 : k \in 1 .. e2 /\ c2[k] = c1[k]
    BY <1>11 DEF JoinedAt, c2
  <2> QED
    BY <2>1, <2>2, <1>14
<1>16. FoundAt(c4, e1, subCode)
  <2>1. \A k \in 1 .. Len(subCode) : e1 + k \in 1 .. e2 /\ c2[e1 + k] = subCode[k]
    BY <1>11 DEF JoinedAt, c2
  <2> QED
    BY <2>1, <1>3, <1>13, <1>14 DEF FoundAt
<1>17. FoundAt(c4, e2, data)
  <2>1. \A k \in 1 .. Len(data) : e2 + k \in 1 .. e3 /\ c3[e2 + k] = data[k]
    BY <1>12 DEF JoinedAt, c3
  <2>2. \A k \in 1 .. e3 : k \in 1 .. e4 /\ c4[k] = c3[k]
    BY <1>13 DEF JoinedAt, c4
  <2> QED
    BY <2>1, <2>2, <1>3, <1>13 DEF FoundAt
<1>18. o \in ObjectSet /\ o.tags = TagsOf(a, subs) /\ o.code = c4
  BY <1>2, <1>7, <1>13 DEF ObjectSet
<1>19. \A i \in 1 .. Len(a.items) : IsEncoded(c4, i, a, subs)
  BY <1>1, <1>15, ItemsAreEncoded DEF end, body
<1>20. end <= tail.size /\ e1 \in Nat /\ e1 <= tail.size /\ e2 \in Nat /\ e2 <= tail.size
  BY <1>3, <1>8, <1>9
<1>21. ASSUME subs # <<>>
       PROVE  /\ tail.subAt[1] \in Nat /\ tail.subAt[1] <= tail.size
              /\ Pushes(a, "PushSub", 0) =>
                   Excerpt(c4, tail.subAt[1], Len(subs[1].code)) = subs[1].code
  <2>1. tail.subAt[1] = e1 /\ tail.subAt[1] \in Nat /\ tail.subAt[1] <= tail.size
    BY <1>3, <1>20, <1>21
  <2>2. Excerpt(c4, e1, Len(subCode)) = subCode
    BY <1>3, <1>13, <1>16, <1>20, ExcerptFacts
  <2> QED
    BY <2>1, <2>2, <1>3, <1>21
<1>22. ASSUME a.data # <<>>
       PROVE  /\ DOMAIN a.data = {1} /\ a.data[1] \in Nat
              /\ tail.dataAt[1] \in Nat /\ tail.dataAt[1] <= tail.size
              /\ Pushes(a, "PushData", 1) =>
                   Excerpt(c4, tail.dataAt[1], a.data[1]) = [k \in 1 .. a.data[1] |-> Code("data", 1)]
  <2>1. /\ DOMAIN a.data = {1} /\ a.data[1] \in Nat
        /\ tail.dataAt[1] = e2 /\ tail.dataAt[1] \in Nat /\ tail.dataAt[1] <= tail.size
    BY <1>3, <1>20, <1>22
  <2>2. Excerpt(c4, e2, Len(data)) = data
    BY <1>3, <1>13, <1>17, <1>20, ExcerptFacts
  <2>3. ASSUME Pushes(a, "PushData", 1)
        PROVE  Excerpt(c4, tail.dataAt[1], a.data[1]) = [k \in 1 .. a.data[1] |-> Code("data", 1)]
    <3>1. data = [k \in 1 .. a.data[1] |-> Code("data", 1)]
      BY <1>3, <1>22, <2>3
    <3>2. Len(data) = a.data[1]
      BY <3>1, <2>1
    <3> QED
      BY <3>1, <3>2, <2>1, <2>2
  <2> QED
    BY <2>1, <2>3
<1> QED
  BY <1>1, <1>13, <1>18, <1>19, <1>20, <1>21, <1>22 DEF IsLaidOut, o, tail, end

-----------------------------------------------------------------------------
(***************************************************************************)
(* The inductive invariant.                                                *)
(***************************************************************************)
\* The assemblies are made of items that can be assembled; the inner one is complete first.
AssembliesAreValid ==
  /\ asm \in [Assemblies -> AssemblySet] /\ finished \subseteq Assemblies
  /\ "outer" \in finished => "inner" \in finished
  /\ \A i \in DOMAIN asm["inner"].items : InnerItem(asm["inner"].items[i])
  /\ asm["inner"].data = <<>> /\ Len(asm["outer"].data) <= 1

\* A tag is defined once.
TagsAreUnique ==
  \A a \in Assemblies : \A i, j \in DOMAIN asm[a].items :
    /\ asm[a].items[i].type = "Tag" /\ asm[a].items[j].type = "Tag"
    /\ asm[a].items[i].data = asm[a].items[j].data
    => i = j

\* What the outer assembly refers to exists: data always, tags of the inner one in the end.
ReferencesExist ==
  /\ \A i \in DOMAIN asm["outer"].items : asm["outer"].items[i].type = "PushData" =>
       asm["outer"].items[i].data \in DOMAIN asm["outer"].data
  /\ "outer" \in finished => ReferencedTags(asm["outer"].items, 0) \subseteq Labels(asm["inner"].items)

\* There is an object only of complete assemblies.
ObjectIsAssembled ==
  object.error = "none" =>
    /\ "outer" \in finished /\ InnerObject.error = "none"
    /\ object = AssembleWith(asm["outer"], <<InnerObject>>, UsedTags)

LayoutInv == AssembliesAreValid /\ TagsAreUnique /\ ReferencesExist /\ ObjectIsAssembled

\* The empty assemblies satisfy the invariant.
LEMMA LayoutInit == Init => LayoutInv
<1> SUFFICES ASSUME Init PROVE LayoutInv
  OBVIOUS
<1>1. PICK d \in DataSizes, x \in AuxSizes :
        asm = [outer |-> [items |-> <<>>, data |-> IF d = 0 THEN <<>> ELSE <<d>>, aux |-> x],
               inner |-> [items |-> <<>>, data |-> <<>>, aux |-> 0]]
  BY DEF Init
<1>2. d \in Nat /\ x \in Nat
  BY AssembleAssumption
<1>3. finished = {} /\ object.error = "not assembled"
  BY DEF Init, NoObject, Failed
<1>4. <<>> \in Seq(ItemSet) /\ WellFormed(<<>>)
  BY DEF WellFormed
<1> DEFINE data == IF d = 0 THEN <<>> ELSE <<d>>
<1>5. data \in Seq(Nat) /\ Len(data) <= 1
  BY <1>2
<1> HIDE DEF data
<1>6. asm["outer"] = [items |-> <<>>, data |-> data, aux |-> x]
      /\ asm["inner"] = [items |-> <<>>, data |-> <<>>, aux |-> 0]
      /\ asm = [a \in Assemblies |-> asm[a]]
  BY <1>1 DEF Assemblies, data
<1>7. asm["outer"] \in AssemblySet /\ asm["inner"] \in AssemblySet
  BY <1>2, <1>4, <1>5, <1>6 DEF AssemblySet
<1>8. asm \in [Assemblies -> AssemblySet]
  <2>1. \A a \in Assemblies : asm[a] \in AssemblySet
    BY <1>7 DEF Assemblies
  <2> QED
    BY <2>1, <1>6
<1>9. /\ asm["outer"].items = <<>> /\ asm["inner"].items = <<>>
       /\ asm["outer"].data = data /\ asm["inner"].data = <<>>
  BY <1>6
<1>10. DOMAIN asm["outer"].items = {} /\ DOMAIN asm["inner"].items = {}
  BY <1>9
<1>11. AssembliesAreValid
  BY <1>3, <1>5, <1>8, <1>9, <1>10 DEF AssembliesAreValid
<1>12. TagsAreUnique
  BY <1>10 DEF TagsAreUnique, Assemblies
<1>13. ReferencesExist /\ ObjectIsAssembled
  BY <1>3, <1>10 DEF ReferencesExist, ObjectIsAssembled
<1> QED
  BY <1>11, <1>12, <1>13 DEF LayoutInv

\* What AppendItem makes of an assembly.
LEMMA AppendFacts ==
  ASSUME LayoutInv, NEW a \in Assemblies, NEW item \in Alphabet[a], AppendItem(a, item)
  PROVE  /\ OuterItem(item) /\ (a = "inner" => InnerItem(item))
         /\ asm'[a].items = Append(asm[a].items, item)
         /\ asm'[a].items \in Seq(ItemSet)
         /\ DOMAIN asm'[a].items = 1 .. Len(asm[a].items) + 1
         /\ DOMAIN asm[a].items = 1 .. Len(asm[a].items) /\ Len(asm[a].items) \in Nat
         /\ \A i \in 1 .. Len(asm[a].items) : asm'[a].items[i] = asm[a].items[i]
         /\ asm'[a].items[Len(asm[a].items) + 1] = item
         /\ asm'[a].data = asm[a].data /\ asm'[a].aux = asm[a].aux
         /\ \A b \in Assemblies \ {a} : asm'[b] = asm[b]
         /\ DOMAIN asm' = Assemblies
<1>1. OuterItem(item) /\ (a = "inner" => InnerItem(item))
  BY AssembleAssumption DEF Assemblies, OuterItem
<1>2. item \in ItemSet
  BY <1>1, ItemKinds
<1>3. asm \in [Assemblies -> AssemblySet]
  BY DEF LayoutInv, AssembliesAreValid
<1>4. asm' = [asm EXCEPT ![a].items = Append(@, item)]
  BY DEF AppendItem
<1>5. asm[a].items \in Seq(ItemSet) /\ asm[a] \in [items: Seq(ItemSet), data: Seq(Nat), aux: Nat]
  BY <1>3 DEF AssemblySet
<1>6. /\ asm'[a] = [asm[a] EXCEPT !.items = Append(@, item)]
      /\ \A b \in Assemblies \ {a} : asm'[b] = asm[b]
      /\ DOMAIN asm' = Assemblies
  BY <1>3, <1>4
<1>7. /\ asm'[a].items = Append(asm[a].items, item)
      /\ asm'[a].data = asm[a].data /\ asm'[a].aux = asm[a].aux
  BY <1>5, <1>6
<1> QED
  BY <1>1, <1>2, <1>5, <1>6, <1>7

\* An item that is appended can be assembled and defines a tag only if it is new.
LEMMA AppendKeepsInv ==
  ASSUME LayoutInv, NEW a \in Assemblies, NEW item \in Alphabet[a], AppendItem(a, item)
  PROVE  LayoutInv'
<1> DEFINE n == Len(asm[a].items)
<1>1. AssembliesAreValid /\ TagsAreUnique /\ ReferencesExist /\ ObjectIsAssembled
  BY DEF LayoutInv
<1>2. /\ OuterItem(item) /\ (a = "inner" => InnerItem(item))
      /\ asm'[a].items \in Seq(ItemSet)
      /\ DOMAIN asm'[a].items = 1 .. n + 1 /\ DOMAIN asm[a].items = 1 .. n /\ n \in Nat
      /\ \A i \in 1 .. n : asm'[a].items[i] = asm[a].items[i]
      /\ asm'[a].items[n + 1] = item
      /\ asm'[a].data = asm[a].data /\ asm'[a].aux = asm[a].aux
      /\ \A b \in Assemblies \ {a} : asm'[b] = asm[b]
      /\ DOMAIN asm' = Assemblies
  BY AppendFacts
<1>3. finished' = finished /\ object' = object /\ a \notin finished /\ (a = "outer" => "inner" \in finished)
      /\ (item.type = "Tag" => item.data \notin Labels(asm[a].items))
      /\ (item.type = "PushData" => item.data \in DOMAIN asm[a].data)
  BY DEF AppendItem
<1> HIDE DEF n
<1>4. \A i \in DOMAIN asm'[a].items : i = n + 1 \/ i \in 1 .. n
  BY <1>2
<1>5. AssembliesAreValid'
  <2>1. WellFormed(asm'[a].items)
    <3>1. \A i \in 1 .. n : OuterItem(asm[a].items[i])
      BY <1>1, <1>2 DEF AssembliesAreValid, AssemblySet, WellFormed
    <3> QED
      BY <3>1, <1>2, <1>4 DEF WellFormed
  <2>2. asm'[a] \in AssemblySet
    <3>1. asm[a] \in AssemblySet /\ asm' = [b \in Assemblies |-> asm'[b]]
      BY <1>1, <1>2 DEF AssembliesAreValid, AppendItem
    <3>2. asm'[a] = [items |-> asm'[a].items, data |-> asm'[a].data, aux |-> asm'[a].aux]
      BY <3>1, <1>1 DEF AppendItem, AssembliesAreValid, AssemblySet
    <3> QED
      BY <2>1, <3>1, <3>2, <1>2 DEF AssemblySet
  <2>3. asm' \in [Assemblies -> AssemblySet]
    <3>1. \A b \in Assemblies : asm'[b] \in AssemblySet
      BY <1>1, <1>2, <2>2 DEF AssembliesAreValid
    <3>2. asm' = [b \in Assemblies |-> asm'[b]]
      BY <1>1 DEF AppendItem, AssembliesAreValid
    <3> QED
      BY <3>1, <3>2
  <2>4. \A i \in DOMAIN asm'["inner"].items : InnerItem(asm'["inner"].items[i])
    <3>1. CASE a = "inner"
      BY <3>1, <1>1, <1>2, <1>4 DEF AssembliesAreValid
    <3>2. CASE a # "inner"
      <4>1. asm'["inner"] = asm["inner"]
        BY <3>2, <1>2 DEF Assemblies
      <4> QED
        BY <4>1, <1>1 DEF AssembliesAreValid
    <3> QED
      BY <3>1, <3>2
  <2>5. asm'["inner"].data = <<>> /\ Len(asm'["outer"].data) <= 1
    <3>1. \A b \in Assemblies : asm'[b].data = asm[b].data
      BY <1>2
    <3> QED
      BY <3>1, <1>1 DEF AssembliesAreValid, Assemblies
  <2> QED
    BY <2>3, <2>4, <2>5, <1>1, <1>3 DEF AssembliesAreValid
<1>6. TagsAreUnique'
  <2>1. ASSUME NEW b \in Assemblies, NEW i \in DOMAIN asm'[b].items, NEW j \in DOMAIN asm'[b].items,
               asm'[b].items[i].type = "Tag", asm'[b].items[j].type = "Tag",
               asm'[b].items[i].data = asm'[b].items[j].data
        PROVE  i = j
    <3>1. CASE b # a
      BY <3>1, <2>1, <1>1, <1>2 DEF TagsAreUnique
    <3>2. CASE b = a
      <4>1. \A k \in 1 .. n : asm[a].items[k].type = "Tag" => asm[a].items[k].data \in Labels(asm[a].items)
        BY <1>2 DEF Labels
      <4>2. CASE i \in 1 .. n /\ j \in 1 .. n
        BY <4>2, <3>2, <2>1, <1>1, <1>2 DEF TagsAreUnique
      <4>3. CASE i = n + 1 /\ j \in 1 .. n
        BY <4>1, <4>3, <3>2, <2>1, <1>2, <1>3
      <4>4. CASE i \in 1 .. n /\ j = n + 1
        BY <4>1, <4>4, <3>2, <2>1, <1>2, <1>3
      <4> QED
        BY <4>2, <4>3, <4>4, <3>2, <1>4
    <3> QED
      BY <3>1, <3>2
  <2> QED
    BY <2>1 DEF TagsAreUnique
<1>7. ReferencesExist'
  <2>1. \A i \in DOMAIN asm'["outer"].items : asm'["outer"].items[i].type = "PushData" =>
          asm'["outer"].items[i].data \in DOMAIN asm'["outer"].data
    <3>1. CASE a = "outer"
      BY <3>1, <1>1, <1>2, <1>3, <1>4 DEF ReferencesExist
    <3>2. CASE a # "outer"
      <4>1. asm'["outer"] = asm["outer"]
        BY <3>2, <1>2 DEF Assemblies
      <4> QED
        BY <4>1, <1>1 DEF ReferencesExist
    <3> QED
      BY <3>1, <3>2
  <2>2. "outer" \notin finished'
    BY <1>1, <1>3 DEF AssembliesAreValid, Assemblies
  <2> QED
    BY <2>1, <2>2 DEF ReferencesExist
<1>8. ObjectIsAssembled'
  <2>1. "outer" \notin finished
    BY <1>1, <1>3 DEF AssembliesAreValid, Assemblies
  <2> QED
    BY <2>1, <1>1, <1>3 DEF ObjectIsAssembled
<1> QED
  BY <1>5, <1>6, <1>7, <1>8 DEF LayoutInv

\* Every step keeps the invariant.
LEMMA LayoutNext == LayoutInv /\ [Next]_vars => LayoutInv'
<1> SUFFICES ASSUME LayoutInv, [Next]_vars PROVE LayoutInv'
  OBVIOUS
<1>1. AssembliesAreValid /\ TagsAreUnique /\ ReferencesExist /\ ObjectIsAssembled
  BY DEF LayoutInv
<1>2. ASSUME NEW a \in Assemblies, NEW item \in Alphabet[a], AppendItem(a, item) PROVE LayoutInv'
  BY <1>2, AppendKeepsInv
<1>3. ASSUME NEW a \in Assemblies, Finish(a) PROVE LayoutInv'
  <2>1. /\ asm' = asm /\ object' = object /\ finished' = finished \cup {a}
        /\ (a = "outer" => "inner" \in finished)
        /\ ReferencedTags(asm[a].items, 0) \subseteq Labels(asm["inner"].items)
    BY <1>3 DEF Finish
  <2>2. AssembliesAreValid'
    BY <2>1, <1>1 DEF AssembliesAreValid
  <2>3. TagsAreUnique'
    BY <2>1, <1>1 DEF TagsAreUnique
  <2>4. ReferencesExist'
    BY <2>1, <1>1 DEF ReferencesExist
  <2>5. ObjectIsAssembled'
    <3>1. InnerObject' = InnerObject
      BY <2>1 DEF InnerObject
    <3> QED
      BY <2>1, <3>1, <1>1 DEF ObjectIsAssembled
  <2> QED
    BY <2>2, <2>3, <2>4, <2>5 DEF LayoutInv
<1>4. ASSUME DoAssemble PROVE LayoutInv'
  <2>1. /\ asm' = asm /\ finished' = finished /\ finished = Assemblies
        /\ object' = IF InnerObject.error # "none" THEN InnerObject
                     ELSE AssembleWith(asm["outer"], <<InnerObject>>, UsedTags)
    BY <1>4 DEF DoAssemble
  <2>2. AssembliesAreValid'
    BY <2>1, <1>1 DEF AssembliesAreValid
  <2>3. TagsAreUnique'
    BY <2>1, <1>1 DEF TagsAreUnique
  <2>4. ReferencesExist'
    BY <2>1, <1>1 DEF ReferencesExist
  <2>5. ObjectIsAssembled'
    <3>1. InnerObject' = InnerObject
      BY <2>1 DEF InnerObject
    <3>2. "outer" \in finished'
      BY <2>1 DEF Assemblies
    <3> QED
      BY <2>1, <3>1, <3>2 DEF ObjectIsAssembled
  <2> QED
    BY <2>2, <2>3, <2>4, <2>5 DEF LayoutInv
<1>5. CASE UNCHANGED vars
  <2>1. asm' = asm /\ finished' = finished /\ object' = object
    BY <1>5 DEF vars
  <2>2. InnerObject' = InnerObject
    BY <2>1 DEF InnerObject
  <2> QED
    BY <2>1, <2>2, <1>1
       DEF LayoutInv, AssembliesAreValid, TagsAreUnique, ReferencesExist, ObjectIsAssembled
<1> QED
  BY <1>2, <1>3, <1>4, <1>5 DEF Next

\* What is assembled is complete, made of valid items, with each tag in one place.
THEOREM AssembledIsComplete == Spec => []LayoutInv
<1> QED
  BY LayoutInit, LayoutNext, PTL DEF Spec

-----------------------------------------------------------------------------
(***************************************************************************)
(* What the EVM reads from the code of an object.                          *)
(***************************************************************************)
\* An instruction pushes the value of its item if the size of the code fits its references.
LEMMA ReadBack ==
  ASSUME NEW o, NEW a, NEW subs, Assemblable(a, subs), IsLaidOut(o, a, subs),
         Len(o.code) < BytePower[Reserved(a, subs).dataRef],
         NEW n \in 1 .. Len(a.items), IsPush(a.items[n])
  PROVE  Pushed(o.code, InstructionAt(o.code, n)) = ValueOf(a.items[n], a, subs)
<1> DEFINE item == a.items[n]
           v == ValueOf(item, a, subs)
           w == Width(item, subs, Reserved(a, subs))
           tail == TailOf(a, subs)
           p == StartOf(a, subs)[n]
<1>1. /\ a \in AssemblySet /\ Complete(subs) /\ Resolves(item, a, subs) /\ OuterItem(item)
      /\ TagsArePlaced(a, subs) /\ n \in DOMAIN a.items
  BY ItemsFacts DEF Assemblable, IsLaidOut, Resolves
<1>2. v \in Nat /\ (item.type \in {"Push", "PushSubSize"} => v = KnownValue(item, subs))
  BY <1>1, ValuesAreNumbers
<1>3. w \in Nat
  BY <1>1, Widths
<1>4. p \in Nat /\ InstructionAt(o.code, n) = p /\ Written(o.code, p, v, w)
  BY DEF IsLaidOut, IsEncoded
<1>5. v < BytePower[w]
  <2>1. CASE item.type \in {"Push", "PushSubSize"}
    <3> DEFINE b == BytesOf[v]
    <3>1. w = Max({1, b})
      BY <1>2, <2>1 DEF Width
    <3>2. b \in Nat /\ v < BytePower[b]
      BY <1>2, BytesOfFacts DEF Holds
    <3> HIDE DEF b, v, w
    <3>3. b <= w
      BY <3>1, <3>2, MaxOfTwo
    <3>4. BytePower[b] <= BytePower[w]
      BY <3>2, <3>3, <1>3, PowerGrows
    <3>5. BytePower[b] \in Nat /\ BytePower[w] \in Nat
      BY <3>2, <1>3, BytePowerFacts
    <3> QED
      BY <3>2, <3>4, <3>5, <1>2
  <2>2. CASE item.type = "PushTag"
    BY <2>2, <1>1, TagsResolve DEF ValueOf, Value, Width
  <2>3. CASE item.type \in {"PushData", "PushSub", "PushProgramSize"}
    <3>1. w = Reserved(a, subs).dataRef
      BY <2>3 DEF Width
    <3>2. Len(o.code) = tail.size /\ tail.size \in Nat
      BY TailOfFacts DEF IsLaidOut
    <3>3. v <= tail.size
      <4>1. CASE item.type = "PushData"
        <5>1. item.data \in DOMAIN a.data /\ v = tail.dataAt[item.data]
          BY <4>1, <1>1 DEF Resolves, ValueOf, Value
        <5>2. a.data # <<>>
          BY <5>1
        <5>3. item.data = 1 /\ tail.dataAt[1] <= tail.size
          BY <5>1, <5>2 DEF IsLaidOut
        <5> QED
          BY <5>1, <5>3
      <4>2. CASE item.type = "PushSub"
        <5>1. item.data = 0 /\ v = tail.subAt[item.data + 1] /\ subs # <<>>
          BY <4>2, <1>1, ItemKinds DEF Resolves, ValueOf, Value
        <5> QED
          BY <5>1 DEF IsLaidOut
      <4>3. CASE item.type = "PushProgramSize"
        BY <4>3, <1>2, <3>2 DEF ValueOf, Value
      <4> QED
        BY <2>3, <4>1, <4>2, <4>3
    <3> HIDE DEF v, w, tail
    <3>4. BytePower[w] \in Nat
      BY <1>3, BytePowerFacts
    <3> QED
      BY <3>1, <3>2, <3>3, <3>4, <1>2
  <2>4. item.type \in ItemTypes
    BY <1>1, ItemKinds
  <2> QED
    BY <2>1, <2>2, <2>3, <2>4 DEF ItemTypes, IsPush
<1> HIDE DEF v, w, p
<1>6. Pushed(o.code, p) = v
  BY <1>2, <1>3, <1>4, <1>5, ReadWhatWasWritten
<1> QED
  BY <1>4, <1>6 DEF v

\* The item that defines a tag, and that there is only one.
TagItem(items, t) == CHOOSE i \in DOMAIN items : items[i] = Tag(t)

Distinct(items) ==
  \A i, j \in DOMAIN items :
    items[i].type = "Tag" /\ items[j].type = "Tag" /\ items[i].data = items[j].data => i = j

\* The position of a tag is the address of the JUMPDEST made for it.
LEMMA TagAddress ==
  ASSUME NEW o, NEW a, NEW subs, Assemblable(a, subs), IsLaidOut(o, a, subs),
         Distinct(a.items), NEW t \in 0 .. UsedTags, t # 0, TagsOf(a, subs)[t] # Unplaced
  PROVE  TagsOf(a, subs)[t] = InstructionAt(o.code, TagItem(a.items, t))
<1>1. PICK i \in DOMAIN a.items : a.items[i] = Tag(t) /\ TagsOf(a, subs)[t] = StartOf(a, subs)[i]
  BY TagsOfFacts
<1> DEFINE j == TagItem(a.items, t)
<1>2. j \in DOMAIN a.items /\ a.items[j] = Tag(t)
  BY <1>1 DEF TagItem
<1> HIDE DEF j
<1>3. Tag(t).type = "Tag"
  BY DEF Tag, Item
<1>4. i = j
  BY <1>1, <1>2, <1>3 DEF Distinct
<1>5. i \in 1 .. Len(a.items)
  BY <1>1, ItemsFacts
<1>6. InstructionAt(o.code, i) = StartOf(a, subs)[i]
  BY <1>5 DEF IsLaidOut, IsEncoded
<1> QED
  BY <1>1, <1>4, <1>6 DEF j

\* Tag 0 is the address of an instruction that is no JUMPDEST.
LEMMA InvalidTagAddress ==
  ASSUME NEW o, NEW a, NEW subs, Assemblable(a, subs), IsLaidOut(o, a, subs),
         TagsOf(a, subs)[0] # Unplaced
  PROVE  /\ \E i \in DOMAIN a.items : InstructionAt(o.code, i) = TagsOf(a, subs)[0]
         /\ o.code[TagsOf(a, subs)[0] + 1].op # "JUMPDEST"
<1>1. 0 \in 0 .. UsedTags
  BY DEF UsedTags
<1>2. PICK i \in DOMAIN a.items : a.items[i].type # "Tag" /\ TagsOf(a, subs)[0] = StartOf(a, subs)[i]
  BY <1>1, TagsOfFacts
<1>3. i \in 1 .. Len(a.items) /\ OuterItem(a.items[i])
  BY <1>2, ItemsFacts DEF Assemblable, Resolves
<1>4. IsEncoded(o.code, i, a, subs)
  BY <1>3 DEF IsLaidOut
<1>5. \A op, d : Code(op, d).op = op
  BY DEF Code
<1>6. CASE a.items[i].type = "Operation"
  <2>1. a.items[i].instruction # "JUMPDEST"
    BY <1>3, <1>6, ItemKinds
  <2>2. o.code[StartOf(a, subs)[i] + 1] = Code(a.items[i].instruction, 0)
    BY <1>4, <1>6 DEF IsEncoded
  <2> QED
    BY <2>1, <2>2, <1>2, <1>4, <1>5 DEF IsEncoded
<1>7. CASE a.items[i].type # "Operation"
  <2>1. \E w : o.code[StartOf(a, subs)[i] + 1] = Code("PUSH", w)
    BY <1>2, <1>4, <1>7 DEF IsEncoded, Written, IsPush
  <2> QED
    BY <2>1, <1>2, <1>4, <1>5 DEF IsEncoded
<1> QED
  BY <1>6, <1>7

\* The inner assembly refers to nothing but its own tags.
LEMMA InnerResolves ==
  ASSUME NEW item, InnerItem(item), NEW a, NEW subs
  PROVE  Resolves(item, a, subs)
<1>1. item.type \notin {"PushSub", "PushSubSize", "PushData"} /\ (item.type = "PushTag" => item.sub # 0)
  BY DEF InnerItem, Operation, Push, PushTag, Tag, PushOther, Item, NoSub
<1> QED
  BY <1>1 DEF Resolves, OuterItem

\* Both objects are laid out as their assemblies say.
LEMMA ObjectsAreLaidOut ==
  ASSUME LayoutInv, object.error = "none"
  PROVE  /\ Assemblable(asm["inner"], <<>>) /\ IsLaidOut(InnerObject, asm["inner"], <<>>)
         /\ Assemblable(asm["outer"], <<InnerObject>>)
         /\ IsLaidOut(object, asm["outer"], <<InnerObject>>)
<1> DEFINE inner == asm["inner"]
           outer == asm["outer"]
<1>1. AssembliesAreValid /\ ReferencesExist /\ ObjectIsAssembled
  BY DEF LayoutInv
<1>2. /\ InnerObject.error = "none" /\ object = AssembleWith(outer, <<InnerObject>>, UsedTags)
  BY <1>1 DEF ObjectIsAssembled
<1>3. inner \in AssemblySet /\ outer \in AssemblySet
  BY <1>1 DEF AssembliesAreValid, Assemblies
<1>4. Assemblable(inner, <<>>)
  <2>1. \A i \in DOMAIN inner.items : Resolves(inner.items[i], inner, <<>>)
    BY <1>1, InnerResolves DEF AssembliesAreValid
  <2>2. Len(inner.data) <= 1
    BY <1>1 DEF AssembliesAreValid
  <2> QED
    BY <2>1, <2>2, <1>3 DEF Assemblable, Complete
<1>5. IsLaidOut(InnerObject, inner, <<>>)
  BY <1>2, <1>4, LaidOut DEF InnerObject
<1> DEFINE subs == <<InnerObject>>
<1>6. Assemblable(outer, subs)
  <2>1. Complete(subs)
    BY <1>5 DEF Complete, IsLaidOut
  <2>2. \A i \in DOMAIN outer.items : Resolves(outer.items[i], outer, subs)
    <3>1. \A i \in DOMAIN outer.items : OuterItem(outer.items[i])
      BY <1>3 DEF AssemblySet, WellFormed
    <3>2. subs # <<>>
      OBVIOUS
    <3> HIDE DEF subs
    <3> QED
      BY <3>1, <3>2, <1>1 DEF Resolves, ReferencesExist
  <2> QED
    BY <2>1, <2>2, <1>1, <1>3 DEF Assemblable, AssembliesAreValid
<1>7. IsLaidOut(object, outer, subs)
  BY <1>2, <1>6, LaidOut
<1> QED
  BY <1>4, <1>5, <1>6, <1>7

\* An object of complete assemblies is right, item by item.
LEMMA InvMakesCodeRight == LayoutInv => CodeIsRight
<1> SUFFICES ASSUME LayoutInv, object.error = "none", SizesFit(InnerObject),
                    NEW n \in DOMAIN asm["outer"].items
             PROVE  IsRight(asm["outer"].items[n], n, object.code, asm["outer"].items, InnerObject)
  BY DEF CodeIsRight
<1> DEFINE inner == InnerObject
           outer == asm["outer"]
           subs == <<inner>>
           item == outer.items[n]
           code == object.code
           p == InstructionAt(code, n)
           v == Pushed(code, p)
           tail == TailOf(outer, subs)
           tags == TagsOf(outer, subs)
<1>1. /\ Assemblable(asm["inner"], <<>>) /\ IsLaidOut(inner, asm["inner"], <<>>)
      /\ Assemblable(outer, subs) /\ IsLaidOut(object, outer, subs)
  BY ObjectsAreLaidOut
<1>2. n \in 1 .. Len(outer.items) /\ Resolves(item, outer, subs) /\ OuterItem(item)
  BY <1>1, ItemsFacts DEF Assemblable, Resolves
<1>3. /\ item \in ItemSet /\ item.type \in ItemTypes
      /\ item.type = "PushTag" => item.sub \in {NoSub, 0}
      /\ item.type \in {"PushData", "PushSub"} => item = PushOther(item.type, item.data)
      /\ item.type \in {"PushSub", "PushSubSize"} => item.data = 0
  BY <1>2, ItemKinds
<1>4. IsEncoded(code, n, outer, subs)
  BY <1>1, <1>2 DEF IsLaidOut
<1>5. IsPush(item) => v = ValueOf(item, outer, subs)
  BY <1>1, <1>2, ReadBack DEF SizesFit
<1>6. /\ subs # <<>> /\ subs[1] = inner /\ Len(code) = tail.size
      /\ Pushes(outer, "PushSub", 0) => Excerpt(code, tail.subAt[1], Len(inner.code)) = inner.code
      /\ outer.data # <<>> =>
           /\ DOMAIN outer.data = {1}
           /\ Pushes(outer, "PushData", 1) =>
                Excerpt(code, tail.dataAt[1], outer.data[1]) = [k \in 1 .. outer.data[1] |-> Code("data", 1)]
  BY <1>1 DEF IsLaidOut
<1>7. Distinct(outer.items) /\ Distinct(asm["inner"].items)
  BY DEF LayoutInv, TagsAreUnique, Assemblies, Distinct
<1>8. item.type = "PushTag" =>
        LET positions == Positions(item.sub, subs, tags) IN
        item.data \in 0 .. UsedTags /\ positions[item.data] \in Nat /\ v = positions[item.data]
  BY <1>1, <1>5, TagsResolve DEF IsLaidOut, IsPush, ValueOf, Value
<1>9. \A x \in Nat : x # Unplaced
  BY DEF Unplaced
<1> HIDE DEF tail, tags, subs, v, p
<1>10. CASE item.type = "Operation"
  BY <1>4, <1>10 DEF IsRight, IsEncoded, p
<1>11. CASE item.type = "Tag"
  BY <1>4, <1>11 DEF IsRight, IsEncoded, p
<1>12. CASE item.type = "Push"
  <2>1. v = item.data
    BY <1>5, <1>12 DEF IsPush, ValueOf, Value, KnownValue
  <2> QED
    BY <2>1, <1>12 DEF IsRight, v, p
<1>13. CASE item.type = "PushSubSize"
  <2>1. v = Len(subs[item.data + 1].code)
    BY <1>5, <1>13 DEF IsPush, ValueOf, Value, KnownValue
  <2>2. v = Len(inner.code)
    BY <2>1, <1>3, <1>6, <1>13
  <2> QED
    BY <2>2, <1>13 DEF IsRight, v, p
<1>14. CASE item.type = "PushProgramSize"
  <2>1. v = Len(code)
    BY <1>5, <1>6, <1>14 DEF IsPush, ValueOf, Value, tail
  <2> QED
    BY <2>1, <1>14 DEF IsRight, v, p
<1>15. CASE item.type = "PushSub"
  <2>1. v = tail.subAt[item.data + 1]
    BY <1>5, <1>15 DEF IsPush, ValueOf, Value, tail
  <2>2. v = tail.subAt[1] /\ Pushes(outer, "PushSub", 0)
    BY <2>1, <1>3, <1>15 DEF Pushes
  <2>3. Excerpt(code, v, Len(inner.code)) = inner.code
    BY <2>2, <1>6
  <2> QED
    BY <2>3, <1>15 DEF IsRight, v, p
<1>16. CASE item.type = "PushData"
  <2>1. v = tail.dataAt[item.data] /\ item.data \in DOMAIN outer.data
    BY <1>2, <1>5, <1>16 DEF IsPush, ValueOf, Value, tail, Resolves
  <2>2. outer.data # <<>>
    BY <2>1
  <2>3. item.data = 1 /\ Pushes(outer, "PushData", 1)
    BY <2>1, <2>2, <1>3, <1>6, <1>16 DEF Pushes
  <2>4. Excerpt(code, v, outer.data[item.data]) = [k \in 1 .. outer.data[item.data] |-> Code("data", item.data)]
    BY <2>1, <2>2, <2>3, <1>6
  <2> QED
    BY <2>4, <1>16 DEF IsRight, v, p
<1>17. CASE item.type = "PushTag" /\ item.sub = NoSub
  <2>1. item.data \in 0 .. UsedTags /\ tags[item.data] # Unplaced /\ v = tags[item.data]
    BY <1>8, <1>9, <1>17 DEF Positions
  <2>2. CASE item.data = 0
    <3>1. /\ \E i \in DOMAIN outer.items : InstructionAt(code, i) = v
          /\ code[v + 1].op # "JUMPDEST"
      BY <2>1, <2>2, <1>1, InvalidTagAddress DEF tags
    <3> QED
      BY <3>1, <2>2, <1>17 DEF IsRight, v, p, NoSub
  <2>3. CASE item.data # 0
    <3>1. v = InstructionAt(code, TagItem(outer.items, item.data))
      BY <2>1, <2>3, <1>1, <1>7, TagAddress DEF tags
    <3> QED
      BY <3>1, <2>3, <1>17 DEF IsRight, TagItem, v, p, NoSub
  <2> QED
    BY <2>2, <2>3
<1>18. CASE item.type = "PushTag" /\ item.sub = 0
  <2>1. item.data \in 0 .. UsedTags /\ inner.tags[item.data] # Unplaced /\ v = inner.tags[item.data]
    BY <1>6, <1>8, <1>9, <1>18 DEF Positions, NoSub
  <2>2. item.data # 0
    <3>1. item.data \in Labels(asm["inner"].items)
      <4>1. "outer" \in finished
        BY DEF LayoutInv, ObjectIsAssembled
      <4>2. item.data \in ReferencedTags(outer.items, 0)
        BY <1>18 DEF ReferencedTags
      <4> QED
        BY <4>1, <4>2 DEF LayoutInv, ReferencesExist
    <3>2. PICK i \in DOMAIN asm["inner"].items :
            asm["inner"].items[i].type = "Tag" /\ asm["inner"].items[i].data = item.data
      BY <3>1 DEF Labels
    <3>3. OuterItem(asm["inner"].items[i])
      BY <1>1, <3>2 DEF Assemblable, Resolves
    <3> QED
      BY <3>2, <3>3, ItemKinds
  <2>3. inner.tags = TagsOf(asm["inner"], <<>>)
    BY <1>1 DEF IsLaidOut
  <2>4. v = InstructionAt(inner.code, TagItem(asm["inner"].items, item.data))
    BY <2>1, <2>2, <2>3, <1>1, <1>7, TagAddress
  <2> QED
    BY <2>4, <1>18 DEF IsRight, TagItem, v, p, NoSub
<1> QED
  BY <1>3, <1>10, <1>11, <1>12, <1>13, <1>14, <1>15, <1>16, <1>17, <1>18 DEF ItemTypes

(***************************************************************************)
(* Assembly::assemble puts every item where the references to it say: for  *)
(* any items, sizes of data and of bytes, every instruction of the         *)
(* assembled code is right for its item.                                   *)
(***************************************************************************)
THEOREM AssembledCodeIsRight == Spec => []CodeIsRight
<1> QED
  BY AssembledIsComplete, InvMakesCodeRight, PTL
=============================================================================
