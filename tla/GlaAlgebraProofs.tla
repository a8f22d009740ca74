--------------------------- MODULE GlaAlgebraProofs ---------------------------
(***************************************************************************)
(* Facts about the arithmetic of GlaAlgebra for every field and shape: the *)
(* recurrences its sums, products and scans are defined by have a          *)
(* solution, so they are what their recurrence says, and gates, decays and *)
(* the products of them are numbers.                                       *)
(***************************************************************************)
EXTENDS GlaAlgebra, WellFoundedInduction, TLAPS

\* Induction over the numbers, for a set of them.
LEMMA SetInduction ==
  ASSUME NEW S, 0 \in S, \A n \in Nat : n \in S => n + 1 \in S
  PROVE  Nat \subseteq S
<1> DEFINE R == {ss \in Nat \X Nat : ss[1] < ss[2]}
<1>1. IsWellFoundedOn(R, Nat)
  BY NatLessThanWellFounded DEF OpToRel
<1>2. SUFFICES ASSUME Nat \ S # {} PROVE FALSE
  OBVIOUS
<1>3. PICK x \in Nat \ S : \A y \in Nat \ S : ~ (<<y, x>> \in R)
  <2>1. Nat \ S \subseteq Nat
    OBVIOUS
  <2> HIDE DEF R
  <2> QED
    BY <1>1, <1>2, <2>1, WFMin
<1>4. \A y \in Nat \ S : ~ (y < x)
  BY <1>3
<1>5. x # 0 /\ x - 1 \in Nat
  OBVIOUS
<1>6. x - 1 \in S
  BY <1>4, <1>5
<1> QED
  BY <1>5, <1>6

IsFunction(h, n) == h = [i \in 0..n |-> h[i]]

\* h runs the steps of s from x.
IsRun(h, n, x, s) ==
  /\ IsFunction(h, n) /\ h[0] = x
  /\ \A i \in 0..(n - 1) : h[i + 1] = s[i][h[i]]

LEMMA RunExists ==
  ASSUME NEW x, NEW s
  PROVE  \A n \in Nat : \E h : IsRun(h, n, x, s)
<1> DEFINE S == {n \in Nat : \E h : IsRun(h, n, x, s)}
<1>1. 0 \in S
  <2>1. IsRun([i \in 0..0 |-> x], 0, x, s)
    BY DEF IsRun, IsFunction
  <2> QED
    BY <2>1
<1>2. ASSUME NEW n \in Nat, n \in S PROVE n + 1 \in S
  <2>1. PICK h : IsRun(h, n, x, s)
    BY <1>2
  <2> DEFINE k == [i \in 0..(n + 1) |-> IF i = n + 1 THEN s[n][h[n]] ELSE h[i]]
  <2>2. IsFunction(k, n + 1) /\ k[0] = x /\ k[n] = h[n] /\ k[n + 1] = s[n][h[n]]
    BY <2>1 DEF IsRun, IsFunction
  <2>3. \A i \in 0..n : k[i + 1] = s[i][k[i]]
    <3> TAKE i \in 0..n
    <3>1. CASE i = n
      BY <2>2, <3>1
    <3>2. CASE i # n
      BY <2>1, <3>2 DEF IsRun
    <3> QED
      BY <3>1, <3>2
  <2> HIDE DEF k
  <2>4. IsRun(k, n + 1, x, s)
    BY <2>2, <2>3 DEF IsRun
  <2> QED
    BY <2>4
<1> HIDE DEF S
<1>3. Nat \subseteq S
  BY <1>1, <1>2, SetInduction
<1> QED
  BY <1>3 DEF S

\* A run of integer steps stays among the integers.
LEMMA RunTyped ==
  ASSUME NEW m \in Nat, NEW h, NEW x \in Int, NEW s, IsRun(h, m, x, s),
         \A i \in 0..(m - 1) : \A y \in Int : s[i][y] \in Int
  PROVE  \A i \in 0..m : h[i] \in Int
<1> DEFINE S == {i \in Nat : i <= m => h[i] \in Int}
<1>1. 0 \in S
  BY DEF IsRun
<1>2. ASSUME NEW n \in Nat, n \in S PROVE n + 1 \in S
  BY <1>2 DEF IsRun
<1> HIDE DEF S
<1>3. Nat \subseteq S
  BY <1>1, <1>2, SetInduction
<1> QED
  BY <1>3 DEF S

LEMMA Field == Prime \in Nat /\ Prime > 1 /\ \A x \in Int : x % Prime \in 0..(Prime - 1)
<1>1. Prime \in Nat /\ Prime > 1
  BY FieldAssumption
<1> QED
  BY <1>1

LEMMA ProductTyped ==
  ASSUME NEW n \in Nat, NEW f, \A i \in 0..(n - 1) : f[i] \in Int
  PROVE  ProductOf(n, f) \in Int
<1> DEFINE s == [i \in 0..(n - 1) |-> [y \in Int |-> (y * f[i]) % Prime]]
           body(g) == [i \in 0..n |-> IF i = 0 THEN 1 ELSE (g[i - 1] * f[i - 1]) % Prime]
           prod == CHOOSE g : g = body(g)
<1>1. \A i \in 0..(n - 1) : \A y \in Int : s[i][y] \in Int /\ s[i][y] = (y * f[i]) % Prime
  <2> TAKE i \in 0..(n - 1)
  <2> TAKE y \in Int
  <2>1. y * f[i] \in Int
    OBVIOUS
  <2> QED
    BY <2>1, Field
<1> HIDE DEF s
<1>2. PICK h : IsRun(h, n, 1, s)
  BY RunExists
<1>3. \A i \in 0..n : h[i] \in Int
  BY <1>1, <1>2, RunTyped
<1>4. h = body(h)
  <2>1. \A i \in 0..n : h[i] = IF i = 0 THEN 1 ELSE (h[i - 1] * f[i - 1]) % Prime
    <3> TAKE i \in 0..n
    <3>1. CASE i = 0
      BY <1>2, <3>1 DEF IsRun
    <3>2. CASE i # 0
      <4>1. PICK k \in 0..(n - 1) : i = k + 1
        BY <3>2
      <4>2. h[k + 1] = s[k][h[k]]
        BY <1>2 DEF IsRun
      <4>3. h[k] \in Int
        BY <1>3
      <4>4. s[k][h[k]] = (h[k] * f[k]) % Prime
        BY <1>1, <4>3
      <4>5. i - 1 = k
        BY <4>1
      <4> QED
        BY <3>2, <4>1, <4>2, <4>4, <4>5
    <3> QED
      BY <3>1, <3>2
  <2>2. h = [i \in 0..n |-> h[i]]
    BY <1>2 DEF IsRun, IsFunction
  <2> QED
    BY <2>1, <2>2
<1>5. prod = body(prod)
  <2> HIDE DEF body
  <2> QED
    BY <1>4, Zenon
<1>6. \A i \in 0..n : prod[i] = IF i = 0 THEN 1 ELSE (prod[i - 1] * f[i - 1]) % Prime
  <2> HIDE DEF prod
  <2> QED
    BY <1>5
<1>7. ProductOf(n, f) = prod[n]
  BY Zenon DEF ProductOf
<1> HIDE DEF prod, body
<1> DEFINE S == {i \in Nat : i <= n => prod[i] \in Int}
<1>8. Nat \subseteq S
  <2>1. 0 \in S
    BY <1>6
  <2>2. ASSUME NEW i \in Nat, i \in S PROVE i + 1 \in S
    <3>1. CASE i + 1 <= n
      <4>1. prod[i + 1] = (prod[i] * f[i]) % Prime /\ prod[i] \in Int /\ f[i] \in Int
        <5>1. i + 1 \in 0..n /\ i + 1 # 0 /\ (i + 1) - 1 = i /\ i \in 0..(n - 1)
          BY <3>1
        <5> QED
          BY <1>6, <2>2, <5>1
      <4>2. prod[i] * f[i] \in Int
        BY <4>1
      <4> QED
        BY <4>1, <4>2, Field
    <3>2. CASE ~(i + 1 <= n)
      BY <3>2
    <3> QED
      BY <3>1, <3>2
  <2> HIDE DEF S
  <2> QED
    BY <2>1, <2>2, SetInduction
<1> QED
  BY <1>7, <1>8

\* What is over: the new tensors, and the old ones with other keys.
LEMMA OverIs ==
  ASSUME NEW t, NEW h
  PROVE  Over(t, h) = [key \in DOMAIN t \cup DOMAIN h |-> IF key \in DOMAIN t THEN t[key] ELSE h[key]]
<1> DEFINE m == [key \in DOMAIN t \cup DOMAIN h |-> IF key \in DOMAIN t THEN t[key] ELSE h[key]]
<1>1. Merged(<<t, h>>) = m
  BY DEF Merged
<1>2. {Merged(pair) : pair \in {<<t, h>>}} = {m}
  BY <1>1
<1> HIDE DEF m
<1>3. Over(t, h) = m
  BY <1>2 DEF Over
<1> QED
  BY <1>3 DEF m

LEMMA OverAt ==
  ASSUME NEW t, NEW h
  PROVE  /\ DOMAIN Over(t, h) = DOMAIN t \cup DOMAIN h
         /\ \A key \in DOMAIN t : Over(t, h)[key] = t[key]
         /\ \A key \in DOMAIN h \ DOMAIN t : Over(t, h)[key] = h[key]
  BY OverIs

-----------------------------------------------------------------------------
(* Functions defined by a recurrence over 0..n *)

\* If every step keeps to the integers, every value is one.
LEMMA StepsTyped ==
  ASSUME NEW n \in Nat, NEW h, h[0] \in Int,
         \A i \in 0..(n - 1) : h[i] \in Int => h[i + 1] \in Int
  PROVE  \A i \in 0..n : h[i] \in Int
<1> DEFINE S == {i \in Nat : i <= n => h[i] \in Int}
<1>1. 0 \in S
  OBVIOUS
<1>2. ASSUME NEW i \in Nat, i \in S PROVE i + 1 \in S
  BY <1>2
<1> HIDE DEF S
<1>3. Nat \subseteq S
  BY <1>1, <1>2, SetInduction
<1> QED
  BY <1>3 DEF S

\* h[i + 1] = a[i] * h[i] + b[i] from h[0] = x, modulo m or (m = 0) without one.
IsAffine(h, n, m, x, a, b) ==
  /\ IsFunction(h, n) /\ h[0] = x
  /\ \A i \in 0..(n - 1) :
       h[i + 1] = IF m = 0 THEN a[i] * h[i] + b[i] ELSE (a[i] * h[i] + b[i]) % m
  /\ \A i \in 0..n : h[i] \in Int

IntsBelow(n, a) == \A i \in 0..(n - 1) : a[i] \in Int

LEMMA AffineExists ==
  ASSUME NEW n \in Nat, NEW m \in Nat, NEW x \in Int, NEW a, NEW b,
         IntsBelow(n, a), IntsBelow(n, b)
  PROVE  \E h : IsAffine(h, n, m, x, a, b)
<1> DEFINE s == [i \in 0..(n - 1) |->
                   [y \in Int |-> IF m = 0 THEN a[i] * y + b[i] ELSE (a[i] * y + b[i]) % m]]
<1>1. \A i \in 0..(n - 1) : \A y \in Int :
        /\ s[i][y] \in Int
        /\ s[i][y] = IF m = 0 THEN a[i] * y + b[i] ELSE (a[i] * y + b[i]) % m
  <2> TAKE i \in 0..(n - 1)
  <2> TAKE y \in Int
  <2>1. PICK z \in Int : z = a[i] * y + b[i]
    BY DEF IntsBelow
  <2>2. m # 0 => z % m \in Int
    OBVIOUS
  <2> QED
    BY <2>1, <2>2
<1> HIDE DEF s
<1>2. PICK h : IsRun(h, n, x, s)
  BY RunExists
<1>3. \A i \in 0..n : h[i] \in Int
  BY <1>1, <1>2, RunTyped
<1>4. \A i \in 0..(n - 1) :
        h[i + 1] = IF m = 0 THEN a[i] * h[i] + b[i] ELSE (a[i] * h[i] + b[i]) % m
  <2> TAKE i \in 0..(n - 1)
  <2>1. h[i + 1] = s[i][h[i]] /\ h[i] \in Int
    BY <1>2, <1>3 DEF IsRun
  <2> QED
    BY <1>1, <2>1
<1> QED
  BY <1>2, <1>3, <1>4 DEF IsRun, IsAffine

-----------------------------------------------------------------------------
(* The field *)

LEMMA PowersIs ==
  /\ Powers[0] = 1
  /\ \A x \in 0..(Prime - 2) : Powers[x] \in Int
  /\ \A x \in 0..(Prime - 3) : Powers[x + 1] = (Powers[x] * Gen) % Prime
<1> DEFINE body(f, n) == [x \in 0..n |-> IF x = 0 THEN 1 ELSE (f[x - 1] * Gen) % Prime]
<1>1. Prime \in Nat \ {0} /\ Gen \in Int
  BY Field, FieldAssumption
<1>2. PICK n \in Nat : n = Prime - 2
  BY Field
<1>3. PICK h : IsAffine(h, n, Prime, 1, [i \in 0..(n - 1) |-> Gen], [i \in 0..(n - 1) |-> 0])
  <2>1. IntsBelow(n, [y \in 0..(n - 1) |-> Gen]) /\ IntsBelow(n, [y \in 0..(n - 1) |-> 0])
    BY <1>1 DEF IntsBelow
  <2> QED
    BY <1>1, <1>2, <2>1, AffineExists
<1>4. h = body(h, n)
  <2>1. \A x \in 0..n : h[x] = IF x = 0 THEN 1 ELSE (h[x - 1] * Gen) % Prime
    <3> TAKE x \in 0..n
    <3>1. CASE x = 0
      BY <1>3, <3>1 DEF IsAffine
    <3>2. CASE x # 0
      <4>1. x - 1 \in 0..(n - 1) /\ (x - 1) + 1 = x
        BY <1>2, <3>2
      <4>2. h[x] = (Gen * h[x - 1] + 0) % Prime /\ h[x - 1] \in Int
        BY <1>1, <1>3, <4>1 DEF IsAffine
      <4>3. Gen * h[x - 1] + 0 = h[x - 1] * Gen
        BY <1>1, <4>2
      <4> QED
        BY <3>2, <4>2, <4>3
    <3> QED
      BY <3>1, <3>2
  <2>2. h = [x \in 0..n |-> h[x]]
    BY <1>3 DEF IsFunction, IsAffine
  <2> QED
    BY <2>1, <2>2
<1>5. Powers = body(Powers, n)
  <2>1. Powers = CHOOSE f : f = body(f, n)
    BY <1>2, Zenon DEF Powers
  <2> HIDE DEF body
  <2> QED
    BY <1>4, <2>1
<1>6. \A x \in 0..n : Powers[x] = IF x = 0 THEN 1 ELSE (Powers[x - 1] * Gen) % Prime
  <2>1. \A x \in 0..n : body(Powers, n)[x] = IF x = 0 THEN 1 ELSE (Powers[x - 1] * Gen) % Prime
    OBVIOUS
  <2> HIDE DEF body
  <2> QED
    BY <1>5, <2>1
<1>7. Powers[0] = 1
  BY <1>6
<1>8. \A x \in 0..(n - 1) : Powers[x + 1] = (Powers[x] * Gen) % Prime
  <2> TAKE x \in 0..(n - 1)
  <2>1. x + 1 \in 0..n /\ x + 1 # 0 /\ (x + 1) - 1 = x
    OBVIOUS
  <2> QED
    BY <1>6, <2>1
<1>9. \A x \in 0..n : Powers[x] \in Int
  <2>1. \A x \in 0..(n - 1) : Powers[x] \in Int => Powers[x + 1] \in Int
    <3> TAKE x \in 0..(n - 1)
    <3>1. HAVE Powers[x] \in Int
    <3>2. Powers[x] * Gen \in Int
      BY <1>1, <3>1
    <3> QED
      BY <1>8, <3>2, Field
  <2> QED
    BY <1>7, <2>1, StepsTyped
<1>10. Prime - 2 = n /\ Prime - 3 = n - 1
  BY <1>1, <1>2
<1> QED
  BY <1>7, <1>8, <1>9, <1>10

-----------------------------------------------------------------------------
(* Residues, by operators the provers need not look into *)

Residue(m, x) == x % m
Apart(m, x, y) == \E z \in Int : x = y + m * z

LEMMA Quotients ==
  ASSUME NEW m \in Nat \ {0}, NEW x \in Int
  PROVE  Apart(m, x, Residue(m, x)) /\ Residue(m, x) \in Int
<1>1. x = (x % m) + m * (x \div m) /\ x \div m \in Int /\ x % m \in Int
  OBVIOUS
<1> QED
  BY <1>1 DEF Apart, Residue

LEMMA SameResidue ==
  ASSUME NEW m \in Nat \ {0}, NEW x \in Int, NEW y \in Int, Apart(m, x, y)
  PROVE  Residue(m, x) = Residue(m, y)
<1>1. y = m * (y \div m) + (y % m) /\ y \div m \in Int /\ y % m \in 0..(m - 1)
  OBVIOUS
<1>2. PICK a \in Int, b \in 0..(m - 1) : a = y \div m /\ b = y % m
  BY <1>1
<1>0. PICK z \in Int : x = y + m * z
  BY DEF Apart
<1>3. x = m * (a + z) + b
  BY <1>0, <1>1, <1>2
<1>4. ASSUME NEW c \in Int PROVE (m * c + b) % m = b
  OBVIOUS
<1>5. PICK c \in Int : c = a + z
  BY <1>2
<1>6. (m * c + b) % m = b
  BY <1>4
<1>7. x = m * c + b
  BY <1>3, <1>5
<1> QED
  BY <1>2, <1>6, <1>7 DEF Residue

LEMMA ResidueSplit ==
  ASSUME NEW m \in Nat \ {0}, NEW x \in Int, NEW y \in Int, Residue(m, x) = Residue(m, y)
  PROVE  Apart(m, x, y)
<1>1. PICK r \in Int : r = Residue(m, x)
  BY Quotients
<1>5. Apart(m, x, r) /\ Apart(m, y, r)
  BY <1>1, Quotients
<1>2. PICK a \in Int, b \in Int : x = r + m * a /\ y = r + m * b
  BY <1>5 DEF Apart
<1>3. PICK c \in Int : c = a - b
  OBVIOUS
<1>4. x = y + m * c
  BY <1>2, <1>3
<1> QED
  BY <1>4 DEF Apart

LEMMA ResidueAdd ==
  ASSUME NEW m \in Nat \ {0}, NEW x \in Int, NEW y \in Int, NEW u \in Int, NEW w \in Int,
         Residue(m, x) = Residue(m, y), Residue(m, u) = Residue(m, w)
  PROVE  Residue(m, x + u) = Residue(m, y + w)
<1>1. Apart(m, x, y) /\ Apart(m, u, w)
  BY ResidueSplit
<1>2. PICK a \in Int, c \in Int : x = y + m * a /\ u = w + m * c
  BY <1>1 DEF Apart
<1>3. PICK z \in Int : z = a + c
  OBVIOUS
<1>4. x + u = (y + w) + m * z
  BY <1>2, <1>3
<1>5. PICK p \in Int, q \in Int : p = x + u /\ q = y + w
  OBVIOUS
<1>6. Apart(m, p, q)
  BY <1>4, <1>5 DEF Apart
<1> QED
  BY <1>5, <1>6, SameResidue

LEMMA ResidueMul ==
  ASSUME NEW m \in Nat \ {0}, NEW x \in Int, NEW y \in Int, NEW u \in Int, NEW w \in Int,
         Residue(m, x) = Residue(m, y), Residue(m, u) = Residue(m, w)
  PROVE  Residue(m, x * u) = Residue(m, y * w)
<1>1. Apart(m, x, y) /\ Apart(m, u, w)
  BY ResidueSplit
<1>2. PICK e \in Int, f \in Int : x = y + m * e /\ u = w + m * f
  BY <1>1 DEF Apart
<1>3. PICK z \in Int : z = y * f + e * w + m * e * f
  OBVIOUS
<1>4. x * u = y * w + m * z
  <2>1. x * u = (y + m * e) * (w + m * f)
    BY <1>2
  <2> QED
    BY <2>1, <1>3
<1>5. PICK p \in Int, q \in Int : p = x * u /\ q = y * w
  OBVIOUS
<1>6. Apart(m, p, q)
  BY <1>4, <1>5 DEF Apart
<1> QED
  BY <1>5, <1>6, SameResidue

LEMMA ResidueOfResidue ==
  ASSUME NEW m \in Nat \ {0}, NEW x \in Int
  PROVE  Residue(m, Residue(m, x)) = Residue(m, x) /\ Residue(m, x) \in Int
  BY Quotients, SameResidue

\* Residues modulo Prime.
Res(x) == Residue(Prime, x)

LEMMA ResAdd ==
  ASSUME NEW x \in Int, NEW y \in Int, NEW u \in Int, NEW w \in Int,
         Res(x) = Res(y), Res(u) = Res(w)
  PROVE  Res(x + u) = Res(y + w)
<1>1. Prime \in Nat \ {0}
  BY Field
<1> QED
  BY <1>1, ResidueAdd DEF Res

Plus(x, y) == x + y

LEMMA ResPlus ==
  ASSUME NEW x \in Int, NEW y \in Int, NEW u \in Int, NEW w \in Int,
         Res(x) = Res(y), Res(u) = Res(w)
  PROVE  Res(Plus(x, u)) = Res(Plus(y, w))
BY ResAdd DEF Plus

LEMMA ResMul ==
  ASSUME NEW x \in Int, NEW y \in Int, NEW u \in Int, NEW w \in Int,
         Res(x) = Res(y), Res(u) = Res(w)
  PROVE  Res(x * u) = Res(y * w)
<1>1. Prime \in Nat \ {0}
  BY Field
<1> QED
  BY <1>1, ResidueMul DEF Res

LEMMA ResRes ==
  ASSUME NEW x \in Int
  PROVE  Res(Res(x)) = Res(x) /\ Res(x) \in 0..(Prime - 1) /\ Res(x) \in Int
<1>1. Prime \in Nat \ {0}
  BY Field
<1>2. Res(x) \in 0..(Prime - 1)
  BY Field DEF Res, Residue
<1> QED
  BY <1>1, <1>2, ResidueOfResidue DEF Res

Times(x, y) == x * y

LEMMA ResTimes ==
  ASSUME NEW x \in Int, NEW y \in Int, NEW u \in Int, NEW w \in Int,
         Res(x) = Res(y), Res(u) = Res(w)
  PROVE  Res(Times(x, u)) = Res(Times(y, w))
  BY ResMul DEF Times

\* a x + b, up to residues.
Affine(a, x, b) == a * x + b

LEMMA ResAffine ==
  ASSUME NEW a \in Int, NEW x \in Int, NEW b \in Int, NEW c \in Int, NEW y \in Int, NEW d \in Int,
         Res(a) = Res(c), Res(x) = Res(y), Res(b) = Res(d)
  PROVE  Res(Affine(a, x, b)) = Res(Affine(c, y, d))
<1>1. PICK u \in Int, w \in Int : u = a * x /\ w = c * y
  OBVIOUS
<1>2. Res(u) = Res(w)
  BY <1>1, ResMul
<1>3. Res(u + b) = Res(w + d)
  BY <1>2, ResAdd
<1> QED
  BY <1>1, <1>3 DEF Affine

\* A power of the generator is a nonzero element.
LEMMA ExpTyped ==
  ASSUME NEW x \in Int
  PROVE  Exp(x) \in 1..(Prime - 1)
<1>1. Prime - 1 \in Nat \ {0}
  BY Field
<1>2. PICK k : k = x % (Prime - 1)
  OBVIOUS
<1>3. k \in 0..(Prime - 2)
  <2>1. PICK m \in Nat \ {0} : m = Prime - 1
    BY <1>1
  <2>2. k \in 0..(m - 1) /\ Prime \in Nat
    BY <1>2, <2>1, Field
  <2> QED
    BY <2>1, <2>2
<1>4. Powers[k] \in {Powers[i] : i \in 0..(Prime - 2)}
  BY <1>3
<1> QED
  BY <1>2, <1>4, FieldAssumption DEF Exp

\* The gate of a sum of logarithms is the product of the gates: powers of Gen
\* add up, and come round after Prime - 1.
LEMMA PowersAdd ==
  ASSUME NEW x \in 0..(Prime - 2)
  PROVE  \A y \in 0..(Prime - 2) : Res(Powers[x] * Powers[y]) = Exp(x + y)
<1>1. PICK m \in Nat \ {0} : m = Prime - 1
  BY Field
<1> DEFINE S == {y \in Nat : y <= m - 1 => Res(Powers[x] * Powers[y]) = Exp(x + y)}
<1>2. Prime \in Nat /\ Prime > 1 /\ Prime - 2 = m - 1 /\ Prime - 3 = m - 2 /\ Prime - 1 = m
  BY <1>1, Field
<1>3. \A y \in 0..(m - 1) : Powers[y] \in 1..(Prime - 1) /\ Exp(y) = Powers[y]
  <2> TAKE y \in 0..(m - 1)
  <2>1. y % m = y
    OBVIOUS
  <2>2. Exp(y) = Powers[y]
    BY <1>2, <2>1 DEF Exp
  <2> QED
    BY <2>2, ExpTyped
<1>4. ASSUME NEW z \in 0..(2 * m - 2)
      PROVE  Res(Exp(z) * Gen) = Exp(z + 1)
  <2>1. PICK k \in 0..(m - 1) : k = z % m
    OBVIOUS
  <2>2. Exp(z) = Powers[k]
    BY <1>2, <2>1 DEF Exp
  <2>3. CASE k = m - 1
    <3>1. z = m - 1 \/ z = 2 * m - 1
      BY <2>1, <2>3
    <3>2. (z + 1) % m = 0
      BY <3>1
    <3>3. Exp(z + 1) = 1
      BY <1>2, <3>2, PowersIs DEF Exp
    <3> QED
      BY <1>2, <2>2, <2>3, <3>3, FieldAssumption DEF Res, Residue
  <2>4. CASE k # m - 1
    <3>1. (z + 1) % m = k + 1
      BY <2>1, <2>4
    <3>2. Exp(z + 1) = Powers[k + 1]
      BY <1>2, <3>1 DEF Exp
    <3>3. k \in 0..(Prime - 3)
      BY <1>2, <2>4
    <3> QED
      BY <2>2, <3>2, <3>3, PowersIs DEF Res, Residue
  <2> QED
    BY <2>3, <2>4
<1>5. 0 \in S
  <2>1. x \in 0..(m - 1)
    BY <1>2
  <2>2. Powers[x] * Powers[0] = Powers[x] /\ x + 0 = x
    BY <1>3, <2>1, PowersIs
  <2>3. Res(Powers[x]) = Powers[x]
    BY <1>2, <1>3, <2>1 DEF Res, Residue
  <2> QED
    BY <1>3, <2>1, <2>2, <2>3
<1>6. ASSUME NEW y \in Nat, y \in S PROVE y + 1 \in S
  <2>1. SUFFICES ASSUME y + 1 <= m - 1 PROVE Res(Powers[x] * Powers[y + 1]) = Exp(x + (y + 1))
    OBVIOUS
  <2>2. Res(Powers[x] * Powers[y]) = Exp(x + y)
    BY <1>6, <2>1
  <2>3. Powers[y + 1] = Res(Powers[y] * Gen)
    <3>1. y \in 0..(Prime - 3)
      BY <1>2, <2>1
    <3> QED
      BY <3>1, PowersIs DEF Res, Residue
  <2>4. PICK a \in Int, b \in Int, g \in Int : a = Powers[x] /\ b = Powers[y] /\ g = Gen
    <3>1. x \in 0..(m - 1) /\ y \in 0..(m - 1)
      BY <1>2, <2>1
    <3> QED
      BY <1>3, <3>1, FieldAssumption
  <2>5. PICK c \in Int, d \in Int : c = b * g /\ d = a * b
    BY <2>4
  <2>6. Res(a * Res(c)) = Res(a * c)
    <3>1. Res(c) \in Int /\ Res(Res(c)) = Res(c)
      BY ResRes
    <3> QED
      BY <3>1, ResMul
  <2>7. a * c = d * g
    BY <2>4, <2>5
  <2>8. Res(Res(d) * g) = Res(d * g)
    BY <2>4, <2>5, ResRes, ResMul
  <2>9. Res(Exp(x + y) * Gen) = Exp((x + y) + 1)
    <3>1. x + y \in 0..(2 * m - 2)
      BY <1>2, <2>1
    <3> QED
      BY <1>4, <3>1
  <2>10. (x + y) + 1 = x + (y + 1)
    BY <1>2
  <2> QED
    BY <2>2, <2>3, <2>4, <2>5, <2>6, <2>7, <2>8, <2>9, <2>10
<1> HIDE DEF S
<1>7. Nat \subseteq S
  BY <1>5, <1>6, SetInduction
<1> QED
  BY <1>2, <1>7 DEF S

LEMMA ExpAdd ==
  ASSUME NEW x \in Int, NEW y \in Int
  PROVE  Exp(x + y) = Res(Exp(x) * Exp(y))
<1>1. PICK m \in Nat \ {0} : m = Prime - 1
  BY Field
<1>2. Prime - 2 = m - 1
  BY <1>1, Field
<1>3. PICK a \in 0..(m - 1), b \in 0..(m - 1) : a = x % m /\ b = y % m
  OBVIOUS
<1>4. Exp(x) = Powers[a] /\ Exp(y) = Powers[b]
  BY <1>1, <1>3 DEF Exp
<1>5. Res(Powers[a] * Powers[b]) = Exp(a + b)
  BY <1>2, PowersAdd
<1>6. (a + b) % m = (x + y) % m
  <2>1. a = Residue(m, x) /\ b = Residue(m, y)
    BY <1>3 DEF Residue
  <2>2. Residue(m, a) = Residue(m, x) /\ Residue(m, b) = Residue(m, y)
    BY <2>1, ResidueOfResidue
  <2>3. Residue(m, a + b) = Residue(m, x + y)
    BY <2>2, ResidueAdd
  <2> QED
    BY <2>3 DEF Residue
<1> QED
  BY <1>1, <1>4, <1>5, <1>6 DEF Exp

\* A gate depends on its logarithm up to Prime - 1 only.
LEMMA ExpSame ==
  ASSUME NEW x, NEW y, x % (Prime - 1) = y % (Prime - 1)
  PROVE  Exp(x) = Exp(y)
  BY DEF Exp

LEMMA ExpZero == Exp(0) = 1
<1>1. PICK m \in Nat \ {0} : m = Prime - 1
  BY Field
<1>2. 0 % m = 0
  OBVIOUS
<1> QED
  BY <1>1, <1>2, PowersIs DEF Exp

\* Token(p, n, c) is a token of the sequence.
LEMMA TokenTyped ==
  ASSUME NEW p \in Ranks, NEW n \in Chunks, NEW c \in Rows
  PROVE  Token(p, n, c) \in Tokens
<1>1. P \in Nat /\ N \in Nat /\ C \in Nat /\ p \in Nat /\ n \in Nat /\ c \in Nat
      /\ p + 1 <= P /\ n + 1 <= N /\ c + 1 <= C
  BY ShapeAssumption DEF Ranks, Chunks, Rows
<1>2. (n + 1) * C <= N * C
  BY <1>1
<1>3. (p + 1) * (N * C) <= P * (N * C)
  <2>1. PICK l \in Nat : l = N * C
    BY <1>1
  <2>2. (p + 1) * l <= P * l
    BY <1>1, <2>1
  <2> QED
    BY <2>1, <2>2
<1>4. (n + 1) * C = n * C + C /\ n * C \in Nat /\ N * C \in Nat
  BY <1>1
<1>5. (p + 1) * (N * C) = p * (N * C) + N * C /\ p * (N * C) \in Nat /\ P * (N * C) \in Nat
  <2>1. PICK l \in Nat : l = N * C
    BY <1>1
  <2>2. (p + 1) * l = p * l + l /\ p * l \in Nat /\ P * l \in Nat
    BY <1>1, <2>1
  <2> QED
    BY <2>1, <2>2
<1>6. PICK a, b, d, e : a = n * C /\ b = N * C /\ d = p * (N * C) /\ e = P * (N * C)
  OBVIOUS
<1>7. a \in Nat /\ b \in Nat /\ d \in Nat /\ e \in Nat /\ a + C <= b /\ d + b <= e
  BY <1>2, <1>3, <1>4, <1>5, <1>6
<1>8. d + a + c \in 0..(e - 1)
  BY <1>1, <1>7
<1> QED
  BY <1>6, <1>8 DEF Token, Tokens, T, L

-----------------------------------------------------------------------------
(* Scans: h[m] = a[m] + b[m] * h[m - 1], h[0] = a[0], for untyped a and b *)

IsScan(h, n, a, b) ==
  /\ IsFunction(h, n)
  /\ \A m \in 0..n : h[m] = (a[m] + (IF m = 0 THEN 0 ELSE b[m] * h[m - 1])) % Prime

LEMMA ScanExists ==
  ASSUME NEW a, NEW b
  PROVE  \A n \in Nat : \E h : IsScan(h, n, a, b)
<1> DEFINE S == {n \in Nat : \E h : IsScan(h, n, a, b)}
<1>1. 0 \in S
  <2>1. IsScan([m \in 0..0 |-> (a[0] + 0) % Prime], 0, a, b)
    BY DEF IsScan, IsFunction
  <2> QED
    BY <2>1
<1>2. ASSUME NEW n \in Nat, n \in S PROVE n + 1 \in S
  <2>1. PICK h : IsScan(h, n, a, b)
    BY <1>2
  <2>0. PICK x : x = (a[n + 1] + b[n + 1] * h[n]) % Prime
    OBVIOUS
  <2> DEFINE k == [m \in 0..(n + 1) |-> IF m = n + 1 THEN x ELSE h[m]]
  <2>2. IsFunction(k, n + 1) /\ k[n + 1] = x /\ \A m \in 0..n : k[m] = h[m]
    BY DEF IsFunction
  <2>3. \A m \in 0..(n + 1) : k[m] = (a[m] + (IF m = 0 THEN 0 ELSE b[m] * k[m - 1])) % Prime
    <3> HIDE DEF k
    <3> TAKE m \in 0..(n + 1)
    <3>1. CASE m = n + 1
      BY <2>0, <2>2, <3>1
    <3>2. CASE m \in 0..n
      BY <2>1, <2>2, <3>2 DEF IsScan
    <3> QED
      BY <3>1, <3>2
  <2> HIDE DEF k
  <2>4. IsScan(k, n + 1, a, b)
    BY <2>2, <2>3 DEF IsScan
  <2> QED
    BY <2>4
<1> HIDE DEF S
<1>3. Nat \subseteq S
  BY <1>1, <1>2, SetInduction
<1> QED
  BY <1>3 DEF S

\* Reducing a summand changes nothing.
LEMMA ModAdd ==
  ASSUME NEW x \in Int, NEW y \in Int
  PROVE  (x + (y % Prime)) % Prime = (x + y) % Prime
<1>1. PICK m \in Nat \ {0} : m = Prime
  BY Field
<1>2. y = m * (y \div m) + (y % m) /\ y \div m \in Int /\ y % m \in Int
  OBVIOUS
<1>3. PICK q \in Int, r \in Int : q = y \div m /\ r = y % m
  BY <1>2
<1>4. ASSUME NEW z \in Int PROVE (z + m * q) % m = z % m
  <2>1. z = m * (z \div m) + (z % m) /\ z \div m \in Int /\ z % m \in 0..(m - 1)
    OBVIOUS
  <2>2. PICK a \in Int, b \in 0..(m - 1) : a = z \div m /\ b = z % m
    BY <2>1
  <2>3. z + m * q = m * (a + q) + b
    BY <2>1, <2>2
  <2>4. ASSUME NEW c \in Int PROVE (m * c + b) % m = b
    OBVIOUS
  <2>5. PICK c \in Int : c = a + q
    BY <2>2
  <2>6. (m * c + b) % m = b
    BY <2>4
  <2>7. z + m * q = m * c + b
    BY <2>3, <2>5
  <2> QED
    BY <2>2, <2>6, <2>7
<1>5. PICK z \in Int : z = x + r
  OBVIOUS
<1>6. x + y = z + m * q
  <2>1. y = m * q + r
    BY <1>2, <1>3
  <2>2. PICK k \in Int : k = m * q
    OBVIOUS
  <2> QED
    BY <1>5, <2>1, <2>2
<1>7. (z + m * q) % m = z % m
  BY <1>4
<1> QED
  BY <1>1, <1>3, <1>5, <1>6, <1>7

-----------------------------------------------------------------------------
(* Sums and products *)

ModSum(s, n, f) ==
  /\ s[0] = 0 /\ \A i \in 0..(n - 1) : s[i + 1] = Res(s[i] + f[i])
  /\ \A i \in 0..n : s[i] \in Int

LEMMA SumIs ==
  ASSUME NEW n \in Nat, NEW f, IntsBelow(n, f)
  PROVE  \E s : ModSum(s, n, f) /\ s[n] = SumOf(n, f)
<1> DEFINE body(g) == [i \in 0..n |-> IF i = 0 THEN 0 ELSE (g[i - 1] + f[i - 1]) % Prime]
           sum == CHOOSE g : g = body(g)
           one == [i \in 0..(n - 1) |-> 1]
<1>0. Prime \in Nat \ {0} /\ \A i \in 0..(n - 1) : f[i] \in Int
  BY Field DEF IntsBelow
<1>1. PICK h : IsAffine(h, n, Prime, 0, one, f)
  <2>1. IntsBelow(n, one) /\ IntsBelow(n, f)
    BY DEF IntsBelow
  <2> HIDE DEF one
  <2> QED
    BY <1>0, <2>1, AffineExists
<1>2. h = body(h)
  <2>1. \A i \in 0..n : h[i] = IF i = 0 THEN 0 ELSE (h[i - 1] + f[i - 1]) % Prime
    <3> TAKE i \in 0..n
    <3>1. CASE i = 0
      BY <1>1, <3>1 DEF IsAffine
    <3>2. CASE i # 0
      <4>1. i - 1 \in 0..(n - 1) /\ (i - 1) + 1 = i
        BY <3>2
      <4>2. h[i] = (1 * h[i - 1] + f[i - 1]) % Prime /\ h[i - 1] \in Int
        BY <1>0, <1>1, <4>1 DEF IsAffine
      <4>3. 1 * h[i - 1] + f[i - 1] = h[i - 1] + f[i - 1]
        BY <4>1, <4>2
      <4> QED
        BY <3>2, <4>2, <4>3
    <3> QED
      BY <3>1, <3>2
  <2>2. h = [i \in 0..n |-> h[i]]
    BY <1>1 DEF IsAffine, IsFunction
  <2> QED
    BY <2>1, <2>2
<1>3. sum = body(sum)
  <2> HIDE DEF body
  <2> QED
    BY <1>2, Zenon
<1>4. \A i \in 0..n : sum[i] = IF i = 0 THEN 0 ELSE (sum[i - 1] + f[i - 1]) % Prime
  <2> HIDE DEF sum
  <2> QED
    BY <1>3
<1>5. SumOf(n, f) = sum[n]
  BY Zenon DEF SumOf
<1> HIDE DEF sum, body
<1>6. \A i \in 0..(n - 1) : sum[i + 1] = Res(sum[i] + f[i])
  <2> TAKE i \in 0..(n - 1)
  <2>1. i + 1 \in 0..n /\ i + 1 # 0 /\ (i + 1) - 1 = i
    OBVIOUS
  <2> QED
    BY <1>4, <2>1 DEF Res, Residue
<1>7. \A i \in 0..n : sum[i] \in Int
  <2>1. \A i \in 0..(n - 1) : sum[i] \in Int => sum[i + 1] \in Int
    <3> TAKE i \in 0..(n - 1)
    <3>1. HAVE sum[i] \in Int
    <3>2. PICK x \in Int : x = sum[i] + f[i]
      BY <1>0, <3>1
    <3> QED
      BY <1>6, <3>2, ResRes
  <2>2. sum[0] = 0
    BY <1>4
  <2> QED
    BY <2>1, <2>2, StepsTyped
<1> QED
  BY <1>4, <1>5, <1>6, <1>7 DEF ModSum

ModProduct(s, n, f) ==
  /\ s[0] = 1 /\ \A i \in 0..(n - 1) : s[i + 1] = Res(s[i] * f[i])
  /\ \A i \in 0..n : s[i] \in Int

LEMMA ProductIs ==
  ASSUME NEW n \in Nat, NEW f, IntsBelow(n, f)
  PROVE  \E s : ModProduct(s, n, f) /\ s[n] = ProductOf(n, f)
<1> DEFINE body(g) == [i \in 0..n |-> IF i = 0 THEN 1 ELSE (g[i - 1] * f[i - 1]) % Prime]
           prod == CHOOSE g : g = body(g)
           nil == [i \in 0..(n - 1) |-> 0]
<1>0. Prime \in Nat \ {0} /\ \A i \in 0..(n - 1) : f[i] \in Int
  BY Field DEF IntsBelow
<1>1. PICK h : IsAffine(h, n, Prime, 1, f, nil)
  <2>1. IntsBelow(n, nil) /\ IntsBelow(n, f)
    BY DEF IntsBelow
  <2> HIDE DEF nil
  <2> QED
    BY <1>0, <2>1, AffineExists
<1>2. h = body(h)
  <2>1. \A i \in 0..n : h[i] = IF i = 0 THEN 1 ELSE (h[i - 1] * f[i - 1]) % Prime
    <3> TAKE i \in 0..n
    <3>1. CASE i = 0
      BY <1>1, <3>1 DEF IsAffine
    <3>2. CASE i # 0
      <4>1. i - 1 \in 0..(n - 1) /\ (i - 1) + 1 = i
        BY <3>2
      <4>2. h[i] = (f[i - 1] * h[i - 1] + 0) % Prime /\ h[i - 1] \in Int
        BY <1>0, <1>1, <4>1 DEF IsAffine
      <4>3. f[i - 1] * h[i - 1] + 0 = h[i - 1] * f[i - 1]
        BY <1>0, <4>1, <4>2
      <4> QED
        BY <3>2, <4>2, <4>3
    <3> QED
      BY <3>1, <3>2
  <2>2. h = [i \in 0..n |-> h[i]]
    BY <1>1 DEF IsAffine, IsFunction
  <2> QED
    BY <2>1, <2>2
<1>3. prod = body(prod)
  <2> HIDE DEF body
  <2> QED
    BY <1>2, Zenon
<1>4. \A i \in 0..n : prod[i] = IF i = 0 THEN 1 ELSE (prod[i - 1] * f[i - 1]) % Prime
  <2> HIDE DEF prod
  <2> QED
    BY <1>3
<1>5. ProductOf(n, f) = prod[n]
  BY Zenon DEF ProductOf
<1> HIDE DEF prod, body
<1>6. \A i \in 0..(n - 1) : prod[i + 1] = Res(prod[i] * f[i])
  <2> TAKE i \in 0..(n - 1)
  <2>1. i + 1 \in 0..n /\ i + 1 # 0 /\ (i + 1) - 1 = i
    OBVIOUS
  <2> QED
    BY <1>4, <2>1 DEF Res, Residue
<1>7. \A i \in 0..n : prod[i] \in Int
  <2>1. \A i \in 0..(n - 1) : prod[i] \in Int => prod[i + 1] \in Int
    <3> TAKE i \in 0..(n - 1)
    <3>1. HAVE prod[i] \in Int
    <3>2. PICK x \in Int : x = prod[i] * f[i]
      BY <1>0, <3>1
    <3> QED
      BY <1>6, <3>2, ResRes
  <2>2. prod[0] = 1
    BY <1>4
  <2> QED
    BY <2>1, <2>2, StepsTyped
<1> QED
  BY <1>4, <1>5, <1>6, <1>7 DEF ModProduct

-----------------------------------------------------------------------------
(* The two scans of the reference *)

IsInput(in) ==
  /\ {in.q, in.k, in.g} \subseteq [Tokens -> [Keys -> Int]]
  /\ {in.v, in.dO} \subseteq [Tokens -> [Values -> Int]]

LEMMA TIs == T \in Nat \ {0} /\ L \in Nat \ {0} /\ Tokens = 0..(T - 1)
<1>1. PICK l \in Nat \ {0} : l = N * C
  BY ShapeAssumption
<1>2. P * l \in Nat \ {0}
  BY ShapeAssumption
<1> QED
  BY <1>1, <1>2 DEF T, L, Tokens

LEMMA RunningIs ==
  ASSUME NEW in, IsInput(in), NEW i \in Keys, NEW j \in Values
  PROVE  /\ RunningState(in, i, j)[-1] = 0
         /\ \A t \in Tokens :
              RunningState(in, i, j)[t]
                = Res(Gate(in, t, i) * RunningState(in, i, j)[t - 1] + in.k[t][i] * in.v[t][j])
         /\ \A t \in -1..(T - 1) : RunningState(in, i, j)[t] \in Int
<1> DEFINE body(S) == [t \in -1..(T - 1) |->
                         IF t = -1 THEN 0
                         ELSE (Gate(in, t, i) * S[t - 1] + in.k[t][i] * in.v[t][j]) % Prime]
           a == [t \in 0..(T - 1) |-> Gate(in, t, i)]
           b == [t \in 0..(T - 1) |-> in.k[t][i] * in.v[t][j]]
           R == RunningState(in, i, j)
<1>0. Prime \in Nat \ {0} /\ T \in Nat \ {0} /\ Tokens = 0..(T - 1)
  BY Field, TIs
<1>1. \A t \in 0..(T - 1) : a[t] = Gate(in, t, i) /\ b[t] = in.k[t][i] * in.v[t][j]
  OBVIOUS
<1>2. \A t \in 0..(T - 1) : a[t] \in Int /\ b[t] \in Int
  <2> TAKE t \in 0..(T - 1)
  <2>1. in.k[t][i] \in Int /\ in.v[t][j] \in Int /\ in.g[t][i] \in Int
    BY <1>0 DEF IsInput
  <2>2. Gate(in, t, i) \in Int
    BY <2>1, ExpTyped DEF Gate
  <2> QED
    BY <1>1, <2>1, <2>2
<1> HIDE DEF a, b
<1>3. PICK h : IsAffine(h, T, Prime, 0, a, b)
  <2>1. IntsBelow(T, a) /\ IntsBelow(T, b)
    BY <1>2 DEF IntsBelow
  <2> QED
    BY <1>0, <2>1, AffineExists
<1> DEFINE k == [t \in -1..(T - 1) |-> h[t + 1]]
<1>4. k = body(k)
  <2>1. \A t \in -1..(T - 1) :
          k[t] = IF t = -1 THEN 0 ELSE (Gate(in, t, i) * k[t - 1] + in.k[t][i] * in.v[t][j]) % Prime
    <3> TAKE t \in -1..(T - 1)
    <3>0. k[t] = h[t + 1]
      OBVIOUS
    <3>1. CASE t = -1
      BY <1>3, <3>0, <3>1 DEF IsAffine
    <3>2. CASE t # -1
      <4>1. t \in 0..(T - 1) /\ t - 1 \in -1..(T - 1) /\ (t - 1) + 1 = t
        BY <1>0, <3>2
      <4>2. k[t - 1] = h[t]
        BY <4>1
      <4>3. h[t + 1] = (a[t] * h[t] + b[t]) % Prime
        BY <1>0, <1>3, <4>1 DEF IsAffine
      <4> HIDE DEF k
      <4> QED
        BY <1>1, <3>0, <3>2, <4>1, <4>2, <4>3
    <3> HIDE DEF k
    <3> QED
      BY <3>1, <3>2
  <2>2. k = [t \in -1..(T - 1) |-> k[t]]
    OBVIOUS
  <2> HIDE DEF k
  <2> QED
    BY <2>1, <2>2
<1> HIDE DEF k
<1>5. R = body(R)
  <2>1. R = CHOOSE S : S = body(S)
    BY Zenon DEF RunningState
  <2> HIDE DEF body, R
  <2> QED
    BY <1>4, <2>1
<1>6. \A t \in -1..(T - 1) :
        R[t] = IF t = -1 THEN 0 ELSE (Gate(in, t, i) * R[t - 1] + in.k[t][i] * in.v[t][j]) % Prime
  <2> HIDE DEF R
  <2> QED
    BY <1>5
<1> HIDE DEF R
<1>7. \A t \in 0..(T - 1) :
        R[t] = Res(Gate(in, t, i) * R[t - 1] + in.k[t][i] * in.v[t][j])
  BY <1>0, <1>6 DEF Res, Residue
<1>8. R[-1] = 0
  BY <1>0, <1>6
<1>9. \A t \in -1..(T - 1) : R[t] \in Int
  <2> DEFINE g == [x \in 0..T |-> R[x - 1]]
  <2>1. g[0] \in Int
    <3>1. 0 \in 0..T /\ 0 - 1 = -1
      BY <1>0
    <3>2. g[0] = R[0 - 1]
      BY <3>1
    <3> QED
      BY <1>8, <3>1, <3>2
  <2>2. \A x \in 0..(T - 1) : g[x] = R[x - 1] /\ g[x + 1] = R[x]
    BY <1>0
  <2>3. \A x \in 0..(T - 1) : g[x] \in Int => g[x + 1] \in Int
    <3> TAKE x \in 0..(T - 1)
    <3>1. HAVE g[x] \in Int
    <3>2. R[x - 1] \in Int /\ Gate(in, x, i) \in Int /\ in.k[x][i] * in.v[x][j] \in Int
      BY <1>1, <1>2, <2>2, <3>1
    <3>3. PICK y \in Int : y = Gate(in, x, i) * R[x - 1] + in.k[x][i] * in.v[x][j]
      BY <3>2
    <3> QED
      BY <1>7, <2>2, <3>3, ResRes
  <2>4. \A x \in 0..T : g[x] = R[x - 1]
    OBVIOUS
  <2> HIDE DEF g
  <2>5. \A x \in 0..T : g[x] \in Int
    BY <1>0, <2>1, <2>3, StepsTyped
  <2> TAKE t \in -1..(T - 1)
  <2>6. t + 1 \in 0..T /\ (t + 1) - 1 = t
    BY <1>0
  <2> QED
    BY <2>4, <2>5, <2>6
<1> QED
  BY <1>0, <1>7, <1>8, <1>9 DEF R

LEMMA AdjointStateIs ==
  ASSUME NEW in, IsInput(in), NEW i \in Keys, NEW j \in Values
  PROVE  /\ AdjointState(in, i, j)[T] = 0
         /\ \A t \in Tokens :
              AdjointState(in, i, j)[t]
                = Res(in.q[t][i] * in.dO[t][j]
                        + (IF t = T - 1 THEN 0 ELSE Gate(in, t + 1, i) * AdjointState(in, i, j)[t + 1]))
         /\ \A t \in 0..T : AdjointState(in, i, j)[t] \in Int
<1> DEFINE after(t, x) == IF t = T - 1 THEN 0 ELSE Gate(in, t + 1, i) * x
           body(S) == [t \in 0..T |->
                         IF t = T THEN 0
                         ELSE (in.q[t][i] * in.dO[t][j]
                                 + (IF t = T - 1 THEN 0 ELSE Gate(in, t + 1, i) * S[t + 1])) % Prime]
           a == [x \in 0..(T - 1) |-> IF x = 0 THEN 0 ELSE Gate(in, T - x, i)]
           b == [x \in 0..(T - 1) |-> in.q[T - x - 1][i] * in.dO[T - x - 1][j]]
           D == AdjointState(in, i, j)
<1>0. Prime \in Nat \ {0} /\ T \in Nat \ {0} /\ Tokens = 0..(T - 1)
  BY Field, TIs
<1>g. \A t \in 0..(T - 1) : Gate(in, t, i) \in Int /\ in.q[t][i] * in.dO[t][j] \in Int
  <2> TAKE t \in 0..(T - 1)
  <2>1. in.q[t][i] \in Int /\ in.dO[t][j] \in Int /\ in.g[t][i] \in Int
    BY <1>0 DEF IsInput
  <2>2. Gate(in, t, i) \in Int
    BY <2>1, ExpTyped DEF Gate
  <2> QED
    BY <2>1, <2>2
<1>1. \A x \in 0..(T - 1) : /\ a[x] = IF x = 0 THEN 0 ELSE Gate(in, T - x, i)
                            /\ b[x] = in.q[T - x - 1][i] * in.dO[T - x - 1][j]
  OBVIOUS
<1>2. \A x \in 0..(T - 1) : a[x] \in Int /\ b[x] \in Int
  <2> TAKE x \in 0..(T - 1)
  <2>1. T - x - 1 \in 0..(T - 1) /\ (x # 0 => T - x \in 0..(T - 1))
    BY <1>0
  <2> QED
    BY <1>g, <1>1, <2>1
<1> HIDE DEF a, b
<1>3. PICK h : IsAffine(h, T, Prime, 0, a, b)
  <2>1. IntsBelow(T, a) /\ IntsBelow(T, b)
    BY <1>2 DEF IntsBelow
  <2> QED
    BY <1>0, <2>1, AffineExists
<1> DEFINE k == [t \in 0..T |-> h[T - t]]
<1>4. k = body(k)
  <2>1. \A t \in 0..T :
          k[t] = IF t = T THEN 0
                 ELSE (in.q[t][i] * in.dO[t][j]
                         + (IF t = T - 1 THEN 0 ELSE Gate(in, t + 1, i) * k[t + 1])) % Prime
    <3> TAKE t \in 0..T
    <3>0. k[t] = h[T - t]
      OBVIOUS
    <3>1. CASE t = T
      BY <1>0, <1>3, <3>0, <3>1 DEF IsAffine
    <3>2. CASE t # T
      <4>1. PICK x \in 0..(T - 1) : x = T - t - 1
        BY <1>0, <3>2
      <4>2. t \in 0..(T - 1) /\ t + 1 \in 0..T /\ T - (t + 1) = x /\ T - t = x + 1
            /\ T - x - 1 = t /\ T - x = t + 1 /\ (x = 0 <=> t = T - 1)
        BY <1>0, <3>2, <4>1
      <4>3. k[t + 1] = h[x]
        BY <4>2
      <4>4. h[x + 1] = (a[x] * h[x] + b[x]) % Prime /\ h[x] \in Int
        BY <1>0, <1>3, <4>1 DEF IsAffine
      <4>5. PICK y \in Int, z \in Int : y = h[x] /\ z = in.q[t][i] * in.dO[t][j]
        BY <1>g, <4>2, <4>4
      <4>6. b[x] = z
        BY <1>1, <4>2, <4>5
      <4> HIDE DEF k
      <4>7. CASE x = 0
        <5>1. a[x] * y + z = z + 0
          BY <1>1, <4>7
        <5> QED
          BY <3>0, <3>2, <4>2, <4>4, <4>5, <4>6, <4>7, <5>1
      <4>8. CASE x # 0
        <5>0. t + 1 \in 0..(T - 1)
          BY <1>0, <4>1, <4>2, <4>8
        <5>1. PICK w \in Int : w = Gate(in, t + 1, i)
          BY <1>g, <5>0
        <5>2. a[x] = w
          BY <1>1, <4>2, <4>8, <5>1
        <5>3. a[x] * y + z = z + w * y
          BY <5>2
        <5> QED
          BY <3>0, <3>2, <4>2, <4>3, <4>4, <4>5, <4>6, <4>8, <5>1, <5>3
      <4> QED
        BY <4>7, <4>8
    <3> HIDE DEF k
    <3> QED
      BY <3>1, <3>2
  <2>2. k = [t \in 0..T |-> k[t]]
    OBVIOUS
  <2> HIDE DEF k
  <2> QED
    BY <2>1, <2>2
<1> HIDE DEF k
<1>5. D = body(D)
  <2>1. D = CHOOSE S : S = body(S)
    BY Zenon DEF AdjointState
  <2> HIDE DEF body, D
  <2> QED
    BY <1>4, <2>1
<1>6. \A t \in 0..T :
        D[t] = IF t = T THEN 0
               ELSE (in.q[t][i] * in.dO[t][j]
                       + (IF t = T - 1 THEN 0 ELSE Gate(in, t + 1, i) * D[t + 1])) % Prime
  <2> HIDE DEF D
  <2> QED
    BY <1>5
<1> HIDE DEF D
<1>7. \A t \in 0..(T - 1) :
        D[t] = Res(in.q[t][i] * in.dO[t][j]
                     + (IF t = T - 1 THEN 0 ELSE Gate(in, t + 1, i) * D[t + 1]))
  BY <1>0, <1>6 DEF Res, Residue
<1>8. D[T] = 0
  BY <1>0, <1>6
<1>9. \A t \in 0..T : D[t] \in Int
  <2> DEFINE g == [x \in 0..T |-> D[T - x]]
  <2>1. \A x \in 0..T : g[x] = D[T - x]
    OBVIOUS
  <2> HIDE DEF g
  <2>2. g[0] \in Int
    BY <1>0, <1>8, <2>1
  <2>3. \A x \in 0..(T - 1) : g[x] \in Int => g[x + 1] \in Int
    <3> TAKE x \in 0..(T - 1)
    <3>1. HAVE g[x] \in Int
    <3>2. PICK t \in 0..(T - 1) : t = T - x - 1
      BY <1>0
    <3>3. T - x = t + 1 /\ T - (x + 1) = t /\ x \in 0..T /\ x + 1 \in 0..T
      BY <1>0, <3>2
    <3>4. D[t + 1] \in Int /\ g[x + 1] = D[t]
      BY <2>1, <3>1, <3>3
    <3>5. t # T - 1 => Gate(in, t + 1, i) * D[t + 1] \in Int
      <4>1. t # T - 1 => t + 1 \in 0..(T - 1)
        BY <1>0
      <4> QED
        BY <1>g, <3>4, <4>1
    <3>6. PICK y \in Int : y = IF t = T - 1 THEN 0 ELSE Gate(in, t + 1, i) * D[t + 1]
      BY <3>5
    <3>7. PICK z \in Int : z = in.q[t][i] * in.dO[t][j] + y
      BY <1>g
    <3> QED
      BY <1>7, <3>4, <3>6, <3>7, ResRes
  <2>5. \A x \in 0..T : g[x] \in Int
    BY <1>0, <2>2, <2>3, StepsTyped
  <2> TAKE t \in 0..T
  <2>6. T - t \in 0..T /\ T - (T - t) = t
    BY <1>0
  <2> QED
    BY <2>1, <2>5, <2>6
<1> QED
  BY <1>0, <1>7, <1>8, <1>9 DEF D

-----------------------------------------------------------------------------
(* Composing recurrences *)

IntsUpTo(n, h)       == \A m \in 0..n : h[m] \in Int
Advances(n, h, a, b) == \A m \in 0..(n - 1) : Res(h[m + 1]) = Res(a[m] * h[m] + b[m])
Retreats(n, h, a, b) == \A m \in 0..(n - 1) : Res(h[m]) = Res(a[m] * h[m + 1] + b[m])
Shrinks(n, d, a)     == \A m \in 0..(n - 1) : Res(d[m + 1]) = Res(a[m] * d[m])
Gathers(n, w, d, b)  == \A m \in 0..(n - 1) : Res(w[m + 1]) = Res(d[m] * b[m] + w[m])

\* What starts from h[0] is what starts from zero and the decayed h[0].
LEMMA Compose ==
  ASSUME NEW n \in Nat, NEW h, NEW l, NEW d, NEW a, NEW b,
         IntsUpTo(n, h), IntsUpTo(n, l), IntsUpTo(n, d), IntsBelow(n, a), IntsBelow(n, b),
         Advances(n, h, a, b), Advances(n, l, a, b), Shrinks(n, d, a),
         l[0] = 0, d[0] = 1
  PROVE  \A m \in 0..n : Res(h[m]) = Res(d[m] * h[0] + l[m])
<1> DEFINE S == {m \in Nat : m <= n => Res(h[m]) = Res(d[m] * h[0] + l[m])}
<1>1. 0 \in S
  <2>1. d[0] * h[0] + l[0] = h[0]
    BY DEF IntsUpTo
  <2> QED
    BY <2>1
<1>2. ASSUME NEW m \in Nat, m \in S PROVE m + 1 \in S
  <2>1. SUFFICES ASSUME m + 1 <= n PROVE Res(h[m + 1]) = Res(d[m + 1] * h[0] + l[m + 1])
    OBVIOUS
  <2>2. m \in 0..n /\ m \in 0..(n - 1) /\ m + 1 \in 0..n /\ 0 \in 0..n
    BY <2>1
  <2>3. Res(h[m]) = Res(d[m] * h[0] + l[m])
    BY <1>2, <2>1
  <2>4. PICK x \in Int, y \in Int, z \in Int, A \in Int, B \in Int, x1 \in Int, y1 \in Int, z0 \in Int :
          /\ x = d[m] /\ y = l[m] /\ z = h[m] /\ A = a[m] /\ B = b[m] /\ z0 = h[0]
          /\ x1 = d[m + 1] /\ y1 = l[m + 1]
    BY <2>2 DEF IntsUpTo, IntsBelow
  <2>5. PICK w \in Int : w = x * z0 + y
    OBVIOUS
  <2>6. Res(A * z + B) = Res(A * w + B)
    <3>1. Res(z) = Res(w)
      BY <2>3, <2>4, <2>5
    <3>2. Res(Affine(A, z, B)) = Res(Affine(A, w, B))
      BY <3>1, ResAffine
    <3> QED
      BY <3>2 DEF Affine
  <2>7. PICK p \in Int, q \in Int : p = A * x /\ q = A * y + B
    OBVIOUS
  <2>8. A * w + B = p * z0 + q
    BY <2>5, <2>7
  <2>9. Res(p) = Res(x1) /\ Res(q) = Res(y1)
    BY <2>2, <2>4, <2>7 DEF Advances, Shrinks
  <2>10. Res(p * z0 + q) = Res(x1 * z0 + y1)
    <3>1. Res(Affine(p, z0, q)) = Res(Affine(x1, z0, y1))
      BY <2>9, ResAffine
    <3> QED
      BY <3>1 DEF Affine
  <2>11. Res(h[m + 1]) = Res(A * z + B)
    BY <2>2, <2>4 DEF Advances
  <2> QED
    BY <2>4, <2>6, <2>8, <2>10, <2>11
<1> HIDE DEF S
<1>3. Nat \subseteq S
  BY <1>1, <1>2, SetInduction
<1> QED
  BY <1>3 DEF S

\* The same for a recurrence that runs downwards.
LEMMA ComposeBack ==
  ASSUME NEW n \in Nat, NEW h, NEW w, NEW d, NEW a, NEW b,
         IntsUpTo(n, h), IntsUpTo(n, w), IntsUpTo(n, d), IntsBelow(n, a), IntsBelow(n, b),
         Retreats(n, h, a, b), Gathers(n, w, d, b), Shrinks(n, d, a),
         w[0] = 0, d[0] = 1
  PROVE  \A m \in 0..n : Res(h[0]) = Res(d[m] * h[m] + w[m])
<1> DEFINE S == {m \in Nat : m <= n => Res(h[0]) = Res(d[m] * h[m] + w[m])}
<1>1. 0 \in S
  <2>1. d[0] * h[0] + w[0] = h[0]
    BY DEF IntsUpTo
  <2> QED
    BY <2>1
<1>2. ASSUME NEW m \in Nat, m \in S PROVE m + 1 \in S
  <2>1. SUFFICES ASSUME m + 1 <= n PROVE Res(h[0]) = Res(d[m + 1] * h[m + 1] + w[m + 1])
    OBVIOUS
  <2>2. m \in 0..n /\ m \in 0..(n - 1) /\ m + 1 \in 0..n /\ 0 \in 0..n
    BY <2>1
  <2>3. Res(h[0]) = Res(d[m] * h[m] + w[m])
    BY <1>2, <2>1
  <2>4. PICK x \in Int, y \in Int, z \in Int, A \in Int, B \in Int, x1 \in Int, y1 \in Int, z1 \in Int :
          /\ x = d[m] /\ y = w[m] /\ z = h[m] /\ A = a[m] /\ B = b[m] /\ z1 = h[m + 1]
          /\ x1 = d[m + 1] /\ y1 = w[m + 1]
    BY <2>2 DEF IntsUpTo, IntsBelow
  <2>5. PICK v \in Int : v = A * z1 + B
    OBVIOUS
  <2>6. Res(z) = Res(v)
    BY <2>2, <2>4, <2>5 DEF Retreats
  <2>7. Res(x * z + y) = Res(x * v + y)
    <3>1. Res(Affine(x, z, y)) = Res(Affine(x, v, y))
      BY <2>6, ResAffine
    <3> QED
      BY <3>1 DEF Affine
  <2>8. PICK p \in Int, q \in Int : p = A * x /\ q = x * B + y
    OBVIOUS
  <2>9. x * v + y = p * z1 + q
    BY <2>5, <2>8
  <2>10. Res(p) = Res(x1) /\ Res(q) = Res(y1)
    BY <2>2, <2>4, <2>8 DEF Gathers, Shrinks
  <2>11. Res(p * z1 + q) = Res(x1 * z1 + y1)
    <3>1. Res(Affine(p, z1, q)) = Res(Affine(x1, z1, y1))
      BY <2>10, ResAffine
    <3> QED
      BY <3>1 DEF Affine
  <2> QED
    BY <2>3, <2>4, <2>7, <2>9, <2>11
<1> HIDE DEF S
<1>3. Nat \subseteq S
  BY <1>1, <1>2, SetInduction
<1> QED
  BY <1>3 DEF S

-----------------------------------------------------------------------------
(* A chunk: chunk u of the sequence is tokens u * C .. u * C + C - 1 *)

LEMMA TokenOf ==
  ASSUME NEW u \in 0..(P * N - 1), NEW c \in Rows
  PROVE  u * C + c \in Tokens /\ u * C \in Nat /\ u * C + C <= T
<1>1. P \in Nat \ {0} /\ N \in Nat \ {0} /\ C \in Nat \ {0}
  BY ShapeAssumption
<1>2. PICK m \in Nat \ {0} : m = P * N
  BY <1>1
<1>3. (u + 1) * C <= m * C
  BY <1>1, <1>2
<1>4. m * C = T
  BY <1>1, <1>2 DEF T, L
<1>5. PICK x \in Nat : x = u * C
  BY <1>1, <1>2
<1>6. (u + 1) * C = x + C
  BY <1>1, <1>2, <1>5
<1>7. c \in 0..(C - 1)
  BY DEF Rows
<1>8. x + c \in 0..(T - 1) /\ x + C <= T
  BY <1>1, <1>3, <1>4, <1>5, <1>6, <1>7, TIs
<1> QED
  BY <1>5, <1>8, TIs

\* The cumulative sums of the logarithms of the gates of a chunk.
LogSums(in, u, i) ==
  LET sum[c \in 0..C] == IF c = 0 THEN 0 ELSE sum[c - 1] + in.g[u * C + (c - 1)][i] IN sum

LEMMA LogSumsIs ==
  ASSUME NEW in, IsInput(in), NEW u \in 0..(P * N - 1), NEW i \in Keys
  PROVE  /\ LogSums(in, u, i)[0] = 0
         /\ \A c \in Rows : LogSums(in, u, i)[c + 1] = LogSums(in, u, i)[c] + in.g[u * C + c][i]
         /\ \A c \in 0..C : LogSums(in, u, i)[c] \in Int
         /\ \A c \in Rows : in.g[u * C + c][i] \in Int
<1> DEFINE g(c) == in.g[u * C + c][i]
           body(f) == [c \in 0..C |-> IF c = 0 THEN 0 ELSE f[c - 1] + g(c - 1)]
           one == [c \in 0..(C - 1) |-> 1]
           b == [c \in 0..(C - 1) |-> g(c)]
           R == LogSums(in, u, i)
<1>0. C \in Nat \ {0} /\ Rows = 0..(C - 1)
  BY ShapeAssumption DEF Rows
<1>1. \A c \in 0..(C - 1) : g(c) \in Int
  <2> TAKE c \in 0..(C - 1)
  <2>1. u * C + c \in Tokens
    BY <1>0, TokenOf
  <2>2. PICK t \in Tokens : t = u * C + c
    BY <2>1
  <2>3. in.g[t][i] \in Int
    BY DEF IsInput
  <2> QED
    BY <2>2, <2>3
<1>2. \A c \in 0..(C - 1) : b[c] = g(c) /\ one[c] = 1
  OBVIOUS
<1> HIDE DEF b, one, g
<1>3. PICK h : IsAffine(h, C, 0, 0, one, b)
  <2>1. IntsBelow(C, one) /\ IntsBelow(C, b)
    BY <1>0, <1>1, <1>2 DEF IntsBelow
  <2> QED
    BY <1>0, <2>1, AffineExists
<1>4. h = body(h)
  <2>1. \A c \in 0..C : h[c] = IF c = 0 THEN 0 ELSE h[c - 1] + g(c - 1)
    <3> TAKE c \in 0..C
    <3>1. CASE c = 0
      BY <1>3, <3>1 DEF IsAffine
    <3>2. CASE c # 0
      <4>1. c - 1 \in 0..(C - 1) /\ (c - 1) + 1 = c
        BY <1>0, <3>2
      <4>2. h[c] = one[c - 1] * h[c - 1] + b[c - 1] /\ h[c - 1] \in Int
        BY <1>0, <1>3, <4>1 DEF IsAffine
      <4>3. h[c] = 1 * h[c - 1] + g(c - 1)
        BY <1>2, <4>1, <4>2
      <4>4. 1 * h[c - 1] = h[c - 1]
        BY <4>2
      <4> QED
        BY <3>2, <4>3, <4>4
    <3> QED
      BY <3>1, <3>2
  <2>2. h = [c \in 0..C |-> h[c]]
    BY <1>3 DEF IsAffine, IsFunction
  <2> QED
    BY <2>1, <2>2
<1>5. R = body(R)
  <2>1. R = CHOOSE f : f = body(f)
    BY Zenon DEF LogSums, g
  <2> HIDE DEF body, R
  <2> QED
    BY <1>4, <2>1
<1>6. \A c \in 0..C : R[c] = IF c = 0 THEN 0 ELSE R[c - 1] + g(c - 1)
  <2> HIDE DEF R
  <2> QED
    BY <1>5
<1> HIDE DEF R
<1>7. R[0] = 0
  BY <1>0, <1>6
<1>8. \A c \in 0..(C - 1) : R[c + 1] = R[c] + g(c)
  <2> TAKE c \in 0..(C - 1)
  <2>1. c + 1 \in 0..C /\ c + 1 # 0 /\ (c + 1) - 1 = c
    BY <1>0
  <2> QED
    BY <1>6, <2>1
<1>9. \A c \in 0..C : R[c] \in Int
  <2>1. \A c \in 0..(C - 1) : R[c] \in Int => R[c + 1] \in Int
    BY <1>1, <1>8
  <2>2. R[0] \in Int /\ C \in Nat
    BY <1>0, <1>7
  <2> QED
    BY <2>1, <2>2, StepsTyped
<1> HIDE DEF R
<1>10. /\ R[0] = 0
       /\ \A c \in Rows : R[c + 1] = R[c] + g(c)
       /\ \A c \in 0..C : R[c] \in Int
       /\ \A c \in Rows : g(c) \in Int
  BY <1>0, <1>1, <1>7, <1>8, <1>9
<1> QED
  BY <1>10 DEF R, g

\* A chunk decays the state it starts from and adds its keys and values, each
\* decayed to its end: S' = gamma S + gamma (K / b)^T V.
LEMMA ChunkState ==
  ASSUME NEW in, IsInput(in), NEW u \in 0..(P * N - 1), NEW i \in Keys, NEW j \in Values,
         NEW kv, kv[0] = 0, \A c \in 0..C : kv[c] \in Int,
         \A c \in Rows :
           Res(kv[c + 1]) = Res(kv[c] + in.k[u * C + c][i] * Exp(-LogSums(in, u, i)[c + 1])
                                          * in.v[u * C + c][j])
  PROVE  Res(RunningState(in, i, j)[u * C + C - 1])
           = Res(Exp(LogSums(in, u, i)[C]) * RunningState(in, i, j)[u * C - 1]
                   + Exp(LogSums(in, u, i)[C]) * kv[C])
<1> DEFINE R == RunningState(in, i, j)
           e == LogSums(in, u, i)
           h == [m \in 0..C |-> R[u * C + m - 1]]
           d == [m \in 0..C |-> Exp(e[m])]
           l == [m \in 0..C |-> Exp(e[m]) * kv[m]]
           a == [m \in 0..(C - 1) |-> Gate(in, u * C + m, i)]
           b == [m \in 0..(C - 1) |-> in.k[u * C + m][i] * in.v[u * C + m][j]]
<1>0. C \in Nat \ {0} /\ Rows = 0..(C - 1)
  BY ShapeAssumption DEF Rows
<1>1. ASSUME NEW m \in 0..(C - 1)
      PROVE  /\ u * C + m \in Tokens
             /\ in.k[u * C + m][i] \in Int /\ in.v[u * C + m][j] \in Int
             /\ Gate(in, u * C + m, i) = Exp(in.g[u * C + m][i])
             /\ Gate(in, u * C + m, i) \in Int
  <2>1. PICK t \in Tokens : t = u * C + m
    BY <1>0, TokenOf
  <2>2. in.k[t][i] \in Int /\ in.v[t][j] \in Int /\ in.g[t][i] \in Int
    BY DEF IsInput
  <2>3. Gate(in, t, i) \in Int
    BY <2>2, ExpTyped DEF Gate
  <2> QED
    BY <2>1, <2>2, <2>3 DEF Gate
<1>2. \A m \in 0..C : e[m] \in Int /\ Exp(e[m]) \in Int /\ Exp(-e[m]) \in Int
  <2> TAKE m \in 0..C
  <2>1. e[m] \in Int
    BY LogSumsIs
  <2>2. -e[m] \in Int
    BY <2>1
  <2> HIDE DEF e
  <2> QED
    BY <2>1, <2>2, ExpTyped
<1>3. \A m \in 0..C : h[m] \in Int /\ l[m] \in Int /\ d[m] \in Int
  <2> TAKE m \in 0..C
  <2>1. u * C + m - 1 \in -1..(T - 1)
    <3>1. PICK x \in Nat : x = u * C
      BY <1>0, TokenOf
    <3>2. x + C <= T
      BY <1>0, <3>1, TokenOf
    <3>3. x + m - 1 \in -1..(T - 1)
      BY <1>0, <3>2, TIs
    <3> QED
      BY <3>1, <3>3
  <2>2. R[u * C + m - 1] \in Int
    BY <2>1, RunningIs
  <2>3. PICK x \in Int, y \in Int : x = Exp(e[m]) /\ y = kv[m]
    BY <1>2
  <2>4. x * y \in Int
    OBVIOUS
  <2> HIDE DEF e, R
  <2> QED
    BY <2>2, <2>3, <2>4
<1>4. \A m \in 0..(C - 1) : a[m] \in Int /\ b[m] \in Int
  <2> TAKE m \in 0..(C - 1)
  <2>1. in.k[u * C + m][i] * in.v[u * C + m][j] \in Int
    BY <1>1
  <2> QED
    BY <1>1, <2>1
<1>5. \A m \in 0..(C - 1) : Res(h[m + 1]) = Res(a[m] * h[m] + b[m])
  <2> TAKE m \in 0..(C - 1)
  <2>1. PICK t \in Tokens : t = u * C + m
    BY <1>1
  <2>2. m + 1 \in 0..C /\ m \in 0..C /\ u * C + (m + 1) - 1 = t /\ u * C + m - 1 = t - 1
    <3>1. PICK x \in Nat : x = u * C
      BY <1>0, TokenOf
    <3> QED
      BY <1>0, <2>1, <3>1
  <2>3. R[t] = Res(Gate(in, t, i) * R[t - 1] + in.k[t][i] * in.v[t][j])
    BY RunningIs
  <2>4. h[m + 1] = R[t] /\ h[m] = R[t - 1]
    BY <2>2
  <2>5. a[m] = Gate(in, t, i) /\ b[m] = in.k[t][i] * in.v[t][j]
    BY <2>1
  <2>6. a[m] * h[m] + b[m] \in Int
    <3>1. PICK x \in Int, y \in Int, z \in Int : x = a[m] /\ y = h[m] /\ z = b[m]
      BY <1>3, <1>4, <2>2
    <3> HIDE DEF a, h, b
    <3> QED
      BY <3>1
  <2> HIDE DEF a, h, b, R
  <2> QED
    BY <2>3, <2>4, <2>5, <2>6, ResRes
<1>6. ASSUME NEW m \in 0..(C - 1)
      PROVE  e[m + 1] = e[m] + in.g[u * C + m][i] /\ Exp(e[m + 1]) = Res(a[m] * d[m])
             /\ in.g[u * C + m][i] \in Int
  <2>1. e[m + 1] = e[m] + in.g[u * C + m][i] /\ in.g[u * C + m][i] \in Int
    BY <1>0, LogSumsIs
  <2>2. m \in 0..C
    BY <1>0
  <2>3. d[m] = Exp(e[m]) /\ a[m] = Exp(in.g[u * C + m][i])
    BY <1>1, <2>2
  <2>4. e[m] \in Int
    BY <1>2, <2>2
  <2> HIDE DEF e, d, a
  <2>5. PICK x \in Int, y \in Int : x = e[m] /\ y = in.g[u * C + m][i]
    BY <2>1, <2>4
  <2>6. Exp(y + x) = Res(Exp(y) * Exp(x)) /\ y + x = x + y
    BY ExpAdd
  <2> QED
    BY <2>1, <2>3, <2>5, <2>6
<1>7. \A m \in 0..(C - 1) : Res(d[m + 1]) = Res(a[m] * d[m])
  <2> TAKE m \in 0..(C - 1)
  <2>1. m + 1 \in 0..C /\ m \in 0..C
    BY <1>0
  <2>2. d[m + 1] = Res(a[m] * d[m])
    BY <1>6, <2>1
  <2>3. PICK x \in Int : x = a[m] * d[m]
    BY <1>3, <1>4, <2>1
  <2> HIDE DEF a, d
  <2> QED
    BY <2>2, <2>3, ResRes
<1>8. \A m \in 0..(C - 1) : Res(l[m + 1]) = Res(a[m] * l[m] + b[m])
  <2> TAKE m \in 0..(C - 1)
  <2>1. m + 1 \in 0..C /\ m \in 0..C
    BY <1>0
  <2>2. PICK A \in Int, D \in Int, D1 \in Int, F \in Int, x \in Int, x1 \in Int, K \in Int, V \in Int :
          /\ A = a[m] /\ D = Exp(e[m]) /\ D1 = Exp(e[m + 1]) /\ F = Exp(-e[m + 1])
          /\ x = kv[m] /\ x1 = kv[m + 1]
          /\ K = in.k[u * C + m][i] /\ V = in.v[u * C + m][j]
    BY <1>1, <1>2, <1>4, <2>1
  <2>3. D1 = Res(A * D)
    BY <1>6, <2>1, <2>2
  <2>4. Res(x1) = Res(x + K * F * V)
    BY <1>0, <2>2
  <2>5. Res(D1 * F) = 1
    <3>1. PICK z \in Int : z = e[m + 1]
      BY <1>2, <2>1
    <3>2. -z \in Int /\ z + (-z) = 0
      OBVIOUS
    <3>3. Exp(0) = Res(Exp(z) * Exp(-z))
      BY <3>2, ExpAdd
    <3> QED
      BY <2>2, <3>1, <3>3, ExpZero
  <2>6. l[m + 1] = D1 * x1 /\ l[m] = D * x /\ b[m] = K * V
    BY <2>1, <2>2
  <2> HIDE DEF a, b, d, l, e, h, R
  <2>0. PICK AD \in Int, KV \in Int, DF \in Int : AD = A * D /\ KV = K * V /\ DF = D1 * F
    OBVIOUS
  <2>7. PICK y \in Int : y = x + K * F * V
    OBVIOUS
  <2>8. Res(D1 * x1) = Res(D1 * y)
    <3>1. Res(Times(D1, x1)) = Res(Times(D1, y))
      BY <2>4, <2>7, ResTimes
    <3> QED
      BY <3>1 DEF Times
  <2>9. PICK Dx \in Int, z \in Int : Dx = D1 * x /\ z = DF * KV
    OBVIOUS
  <2>10. D1 * y = Dx + z
    BY <2>0, <2>7, <2>9
  <2>11. Res(Dx) = Res(AD * x)
    <3>1. Res(D1) = Res(AD)
      BY <2>0, <2>3, ResRes
    <3>2. Res(Times(D1, x)) = Res(Times(AD, x))
      BY <3>1, ResTimes
    <3> QED
      BY <2>9, <3>2 DEF Times
  <2>12. Res(z) = Res(KV)
    <3>1. Res(DF) = Res(1)
      <4>1. 1 = Exp(0)
        BY ExpZero
      <4>2. Res(DF) = 1
        BY <2>0, <2>5
      <4> QED
        BY <4>2, ResRes
    <3>2. Res(DF * KV) = Res(1 * KV)
      BY <3>1, ResMul
    <3> QED
      BY <2>9, <3>2
  <2>13. PICK w \in Int : w = AD * x
    OBVIOUS
  <2>14. Res(Dx + z) = Res(w + KV)
    BY <2>11, <2>12, <2>13, ResAdd
  <2>15. w + KV = a[m] * l[m] + b[m]
    BY <2>0, <2>2, <2>6, <2>13
  <2> QED
    BY <2>6, <2>8, <2>10, <2>14, <2>15
<1>9. l[0] = 0 /\ d[0] = 1
  <2>1. 0 \in 0..C
    BY <1>0
  <2>2. e[0] = 0
    BY LogSumsIs
  <2>3. l[0] = Exp(e[0]) * kv[0] /\ d[0] = Exp(e[0])
    BY <2>1
  <2> HIDE DEF l, d, e
  <2> QED
    BY <2>2, <2>3, ExpZero
<1>10. h[0] = R[u * C - 1] /\ h[C] = R[u * C + C - 1] /\ d[C] = Exp(e[C]) /\ l[C] = Exp(e[C]) * kv[C]
  <2>1. PICK x \in Nat : x = u * C
    BY <1>0, TokenOf
  <2>2. x + 0 - 1 = x - 1
    BY <2>1
  <2> QED
    BY <1>0, <2>1, <2>2
<1> HIDE DEF a, b, d, l, h
<1>11. Res(h[C]) = Res(d[C] * h[0] + l[C])
  <2>1. C \in Nat /\ C \in 0..C
    BY <1>0
  <2>2. \A m \in 0..C : Res(h[m]) = Res(d[m] * h[0] + l[m])
    <3>1. IntsUpTo(C, h) /\ IntsUpTo(C, l) /\ IntsUpTo(C, d) /\ IntsBelow(C, a) /\ IntsBelow(C, b)
      BY <1>3, <1>4 DEF IntsUpTo, IntsBelow
    <3>2. Advances(C, h, a, b) /\ Advances(C, l, a, b) /\ Shrinks(C, d, a)
      BY <1>5, <1>7, <1>8 DEF Advances, Shrinks
    <3> QED
      BY <1>9, <2>1, <3>1, <3>2, Compose
  <2> QED
    BY <2>1, <2>2
<1> QED
  BY <1>10, <1>11

LEMMA ChunkGates ==
  ASSUME NEW in, IsInput(in), NEW u \in 0..(P * N - 1), NEW i \in Keys
  PROVE  /\ \A m \in 0..C : /\ LogSums(in, u, i)[m] \in Int /\ -LogSums(in, u, i)[m] \in Int
                            /\ Exp(LogSums(in, u, i)[m]) \in 1..(Prime - 1)
                            /\ Exp(-LogSums(in, u, i)[m]) \in 1..(Prime - 1)
                            /\ Exp(LogSums(in, u, i)[m]) \in Int
                            /\ Exp(-LogSums(in, u, i)[m]) \in Int
                            /\ Res(Exp(LogSums(in, u, i)[m]) * Exp(-LogSums(in, u, i)[m])) = 1
         /\ \A m \in Rows : /\ Gate(in, u * C + m, i) \in Int
                            /\ Exp(LogSums(in, u, i)[m + 1])
                                 = Res(Gate(in, u * C + m, i) * Exp(LogSums(in, u, i)[m]))
<1> DEFINE e == LogSums(in, u, i)
<1>0. C \in Nat \ {0} /\ Rows = 0..(C - 1)
  BY ShapeAssumption DEF Rows
<1>1. ASSUME NEW m \in 0..C
      PROVE  /\ e[m] \in Int /\ -e[m] \in Int
             /\ Exp(e[m]) \in 1..(Prime - 1) /\ Exp(-e[m]) \in 1..(Prime - 1)
             /\ Res(Exp(e[m]) * Exp(-e[m])) = 1
  <2>1. e[m] \in Int
    BY LogSumsIs
  <2> HIDE DEF e
  <2>2. PICK x \in Int : x = e[m]
    BY <2>1
  <2>3. -x \in Int /\ x + (-x) = 0
    OBVIOUS
  <2>4. Exp(0) = Res(Exp(x) * Exp(-x))
    BY <2>3, ExpAdd
  <2> QED
    BY <2>2, <2>3, <2>4, ExpTyped, ExpZero
<1>2. ASSUME NEW m \in Rows
      PROVE  /\ Gate(in, u * C + m, i) \in Int
             /\ Exp(e[m + 1]) = Res(Gate(in, u * C + m, i) * Exp(e[m]))
  <2>1. e[m + 1] = e[m] + in.g[u * C + m][i] /\ in.g[u * C + m][i] \in Int
    BY LogSumsIs
  <2>2. m \in 0..C
    BY <1>0
  <2> HIDE DEF e
  <2>3. PICK x \in Int, y \in Int : x = e[m] /\ y = in.g[u * C + m][i]
    BY <1>1, <2>1, <2>2
  <2>4. Exp(y + x) = Res(Exp(y) * Exp(x)) /\ y + x = x + y
    BY ExpAdd
  <2>5. Gate(in, u * C + m, i) = Exp(y)
    BY <2>3 DEF Gate
  <2> QED
    BY <2>1, <2>3, <2>4, <2>5, ExpTyped
<1>3. \A x \in 1..(Prime - 1) : x \in Int
  OBVIOUS
<1> QED
  BY <1>1, <1>2, <1>3

\* The gradient with respect to the state before token t, which token t gates.
AdjointInto(in, i, j, t) ==
  IF t = T THEN 0 ELSE Res(Gate(in, t, i) * AdjointState(in, i, j)[t])

LEMMA AdjointIntoIs ==
  ASSUME NEW in, IsInput(in), NEW i \in Keys, NEW j \in Values
  PROVE  /\ AdjointInto(in, i, j, T) = 0
         /\ \A t \in 0..T : AdjointInto(in, i, j, t) \in 0..(Prime - 1)
         /\ \A t \in Tokens :
              Res(AdjointInto(in, i, j, t))
                = Res(Gate(in, t, i) * (in.q[t][i] * in.dO[t][j] + AdjointInto(in, i, j, t + 1)))
<1> DEFINE D == AdjointState(in, i, j)
           X(t) == AdjointInto(in, i, j, t)
<1>0. T \in Nat \ {0} /\ Tokens = 0..(T - 1) /\ Prime \in Nat /\ Prime > 1
  BY TIs, Field
<1>1. \A t \in Tokens : /\ Gate(in, t, i) \in Int /\ in.q[t][i] \in Int /\ in.dO[t][j] \in Int
                        /\ D[t] \in Int
  <2> TAKE t \in Tokens
  <2>1. in.q[t][i] \in Int /\ in.dO[t][j] \in Int /\ in.g[t][i] \in Int
    BY DEF IsInput
  <2>2. t \in 0..T
    BY <1>0
  <2> QED
    BY <2>1, <2>2, ExpTyped, AdjointStateIs DEF Gate
<1>2. \A t \in 0..T : X(t) \in 0..(Prime - 1)
  <2> TAKE t \in 0..T
  <2>1. CASE t = T
    BY <1>0, <2>1 DEF AdjointInto
  <2>2. CASE t # T
    <3>1. t \in Tokens
      BY <1>0, <2>2
    <3>2. PICK x \in Int : x = Gate(in, t, i) * D[t]
      BY <1>1, <3>1
    <3> QED
      BY <2>2, <3>2, ResRes DEF AdjointInto
  <2> QED
    BY <2>1, <2>2
<1>3. ASSUME NEW t \in Tokens
      PROVE  Res(X(t)) = Res(Gate(in, t, i) * (in.q[t][i] * in.dO[t][j] + X(t + 1)))
  <2>1. D[t] = Res(in.q[t][i] * in.dO[t][j]
                     + (IF t = T - 1 THEN 0 ELSE Gate(in, t + 1, i) * D[t + 1]))
    BY AdjointStateIs
  <2>2. PICK A \in Int, qd \in Int, d \in Int :
          A = Gate(in, t, i) /\ qd = in.q[t][i] * in.dO[t][j] /\ d = D[t]
    BY <1>1
  <2>3. PICK y : y = IF t = T - 1 THEN 0 ELSE Gate(in, t + 1, i) * D[t + 1]
    OBVIOUS
  <2>4. y \in Int /\ X(t + 1) = Res(y) /\ t # T
    <3>1. CASE t = T - 1
      <4>1. Res(0) = 0
        BY <1>0 DEF Res, Residue
      <4> QED
        BY <1>0, <2>3, <3>1, <4>1 DEF AdjointInto
    <3>2. CASE t # T - 1
      <4>1. t + 1 \in Tokens /\ t + 1 # T /\ t # T
        BY <1>0, <3>2
      <4>2. y = Gate(in, t + 1, i) * D[t + 1]
        BY <2>3, <3>2
      <4>3. y \in Int
        BY <1>1, <4>1, <4>2
      <4> QED
        BY <4>1, <4>2, <4>3 DEF AdjointInto
    <3> QED
      BY <3>1, <3>2
  <2>5. PICK z \in Int, x \in Int : z = X(t + 1) /\ x = A * d
    BY <2>4, ResRes
  <2>6. Res(z) = Res(y)
    BY <2>4, <2>5, ResRes
  <2>7. Res(qd + z) = Res(qd + y)
    <3>1. PICK q1 \in Int, y1 \in Int, z1 \in Int : q1 = qd /\ y1 = y /\ z1 = z
      BY <2>4
    <3>2. Res(Plus(q1, z1)) = Res(Plus(q1, y1))
      BY <2>6, <3>1, ResPlus
    <3> QED
      BY <3>1, <3>2 DEF Plus
  <2>8. PICK v \in Int : v = qd + z
    OBVIOUS
  <2>9. d = Res(qd + y)
    BY <2>1, <2>2, <2>3
  <2>10. PICK w \in Int : w = qd + y
    BY <2>4
  <2>11. Res(d) = Res(v)
    BY <2>7, <2>8, <2>9, <2>10, ResRes
  <2>12. Res(Times(A, d)) = Res(Times(A, v))
    BY <2>11, ResTimes
  <2>13. X(t) = Res(x)
    BY <2>2, <2>4, <2>5 DEF AdjointInto
  <2>14. Res(X(t)) = Res(x)
    BY <2>13, ResRes
  <2> QED
    BY <2>2, <2>5, <2>8, <2>12, <2>14 DEF Times
<1>4. X(T) = 0
  BY DEF AdjointInto
<1> QED
  BY <1>2, <1>3, <1>4

\* A chunk decays the gradient of the state it ends with and adds that of its
\* queries and output gradients: dH = (Q b)^T dO.
LEMMA ChunkAdjoint ==
  ASSUME NEW in, IsInput(in), NEW u \in 0..(P * N - 1), NEW i \in Keys, NEW j \in Values,
         NEW w, w[0] = 0, \A c \in 0..C : w[c] \in Int,
         \A c \in Rows :
           Res(w[c + 1]) = Res(w[c] + in.q[u * C + c][i] * Exp(LogSums(in, u, i)[c + 1])
                                        * in.dO[u * C + c][j])
  PROVE  Res(AdjointInto(in, i, j, u * C))
           = Res(Exp(LogSums(in, u, i)[C]) * AdjointInto(in, i, j, u * C + C) + w[C])
<1> DEFINE e == LogSums(in, u, i)
           h == [m \in 0..C |-> AdjointInto(in, i, j, u * C + m)]
           d == [m \in 0..C |-> Exp(e[m])]
           a == [m \in 0..(C - 1) |-> Gate(in, u * C + m, i)]
           b == [m \in 0..(C - 1) |-> Gate(in, u * C + m, i)
                                        * (in.q[u * C + m][i] * in.dO[u * C + m][j])]
<1>0. C \in Nat \ {0} /\ Rows = 0..(C - 1)
  BY ShapeAssumption DEF Rows
<1>1. ASSUME NEW m \in 0..(C - 1)
      PROVE  /\ u * C + m \in Tokens
             /\ in.q[u * C + m][i] \in Int /\ in.dO[u * C + m][j] \in Int
             /\ Gate(in, u * C + m, i) \in Int
  <2>1. PICK t \in Tokens : t = u * C + m
    BY <1>0, TokenOf
  <2>2. in.q[t][i] \in Int /\ in.dO[t][j] \in Int
    BY DEF IsInput
  <2> QED
    BY <1>0, <2>1, <2>2, ChunkGates
<1>2. IntsUpTo(C, h)
  <2> SUFFICES ASSUME NEW m \in 0..C PROVE h[m] \in Int
    BY DEF IntsUpTo
  <2>1. u * C + m \in 0..T
    <3>1. PICK x \in Nat : x = u * C
      BY <1>0, TokenOf
    <3>2. x + C <= T
      BY <1>0, <3>1, TokenOf
    <3>3. x + m \in 0..T
      BY <1>0, <3>2, TIs
    <3> QED
      BY <3>1, <3>3
  <2>2. AdjointInto(in, i, j, u * C + m) \in 0..(Prime - 1)
    BY <2>1, AdjointIntoIs
  <2> QED
    BY <2>2
<1>3. IntsUpTo(C, d) /\ IntsUpTo(C, w)
  <2>1. \A m \in 0..C : Exp(e[m]) \in Int
    BY ChunkGates
  <2> QED
    BY <2>1 DEF IntsUpTo
<1>4. IntsBelow(C, a) /\ IntsBelow(C, b)
  <2>1. \A m \in 0..(C - 1) : /\ Gate(in, u * C + m, i) \in Int
          /\ Gate(in, u * C + m, i) * (in.q[u * C + m][i] * in.dO[u * C + m][j]) \in Int
    <3> TAKE m \in 0..(C - 1)
    <3>1. PICK x \in Int, y \in Int, z \in Int :
            x = Gate(in, u * C + m, i) /\ y = in.q[u * C + m][i] /\ z = in.dO[u * C + m][j]
      BY <1>1
    <3>2. x * (y * z) \in Int
      OBVIOUS
    <3> QED
      BY <3>1, <3>2
  <2> QED
    BY <2>1 DEF IntsBelow
<1>5. Retreats(C, h, a, b)
  <2> SUFFICES ASSUME NEW m \in 0..(C - 1) PROVE Res(h[m]) = Res(a[m] * h[m + 1] + b[m])
    BY DEF Retreats
  <2>1. PICK t \in Tokens : t = u * C + m
    BY <1>1
  <2>2. m + 1 \in 0..C /\ m \in 0..C /\ u * C + (m + 1) = t + 1
    <3>1. PICK x \in Nat : x = u * C
      BY <1>0, TokenOf
    <3> QED
      BY <1>0, <2>1, <3>1
  <2>3. h[m] = AdjointInto(in, i, j, t) /\ h[m + 1] = AdjointInto(in, i, j, t + 1)
    BY <2>1, <2>2
  <2>4. a[m] = Gate(in, t, i) /\ b[m] = Gate(in, t, i) * (in.q[t][i] * in.dO[t][j])
    BY <2>1
  <2>5. PICK A \in Int, q \in Int, o \in Int, y \in Int :
          A = Gate(in, t, i) /\ q = in.q[t][i] /\ o = in.dO[t][j] /\ y = h[m + 1]
    BY <1>1, <1>2, <2>1, <2>2 DEF IntsUpTo
  <2>6. A * (q * o + y) = A * y + A * (q * o)
    OBVIOUS
  <2> HIDE DEF h, a, b
  <2>7. Res(h[m]) = Res(A * (q * o + y))
    BY <2>3, <2>5, AdjointIntoIs
  <2> QED
    BY <2>4, <2>5, <2>6, <2>7
<1>6. Shrinks(C, d, a)
  <2> SUFFICES ASSUME NEW m \in 0..(C - 1) PROVE Res(d[m + 1]) = Res(a[m] * d[m])
    BY DEF Shrinks
  <2>1. m + 1 \in 0..C /\ m \in 0..C /\ m \in Rows
    BY <1>0
  <2>2. d[m + 1] = Exp(e[m + 1]) /\ d[m] = Exp(e[m]) /\ a[m] = Gate(in, u * C + m, i)
    BY <2>1
  <2>3. Exp(e[m + 1]) = Res(Gate(in, u * C + m, i) * Exp(e[m])) /\ Exp(e[m]) \in Int
    BY <2>1, ChunkGates
  <2> HIDE DEF d, a, e
  <2>4. PICK x \in Int : x = a[m] * d[m]
    BY <1>1, <2>2, <2>3
  <2> QED
    BY <2>2, <2>3, <2>4, ResRes
<1>7. Gathers(C, w, d, b)
  <2> SUFFICES ASSUME NEW m \in 0..(C - 1) PROVE Res(w[m + 1]) = Res(d[m] * b[m] + w[m])
    BY DEF Gathers
  <2>1. m + 1 \in 0..C /\ m \in 0..C /\ m \in Rows
    BY <1>0
  <2>2. PICK A \in Int, E \in Int, E1 \in Int, q \in Int, o \in Int, y \in Int :
          /\ A = Gate(in, u * C + m, i) /\ E = Exp(e[m]) /\ E1 = Exp(e[m + 1])
          /\ q = in.q[u * C + m][i] /\ o = in.dO[u * C + m][j] /\ y = w[m]
    <3>1. Exp(e[m]) \in Int /\ Exp(e[m + 1]) \in Int
      BY <2>1, ChunkGates
    <3> HIDE DEF e
    <3> QED
      BY <1>1, <2>1, <3>1
  <2>3. E1 = Res(A * E)
    BY <2>1, <2>2, ChunkGates
  <2>4. Res(w[m + 1]) = Res(y + q * E1 * o)
    BY <2>1, <2>2
  <2>5. d[m] = E /\ b[m] = A * (q * o)
    BY <2>1, <2>2
  <2> HIDE DEF d, b, e, a, h
  <2>6. PICK AE \in Int, qo \in Int : AE = A * E /\ qo = q * o
    OBVIOUS
  <2>7. Res(E1) = Res(AE)
    BY <2>3, <2>6, ResRes
  <2>8. Res(Affine(E1, qo, y)) = Res(Affine(AE, qo, y))
    BY <2>7, ResAffine
  <2>9. Affine(E1, qo, y) = y + q * E1 * o
    BY <2>6 DEF Affine
  <2>10. Affine(AE, qo, y) = d[m] * b[m] + y
    BY <2>5, <2>6 DEF Affine
  <2> QED
    BY <2>2, <2>4, <2>8, <2>9, <2>10
<1>8. d[0] = 1
  <2>1. 0 \in 0..C
    BY <1>0
  <2>2. e[0] = 0
    BY LogSumsIs
  <2>3. d[0] = Exp(e[0])
    BY <2>1
  <2> HIDE DEF d, e
  <2> QED
    BY <2>2, <2>3, ExpZero
<1>9. h[0] = AdjointInto(in, i, j, u * C) /\ h[C] = AdjointInto(in, i, j, u * C + C)
      /\ d[C] = Exp(e[C])
  <2>1. PICK x \in Nat : x = u * C
    BY <1>0, TokenOf
  <2>2. x + 0 = x
    BY <2>1
  <2> QED
    BY <1>0, <2>1, <2>2
<1> HIDE DEF a, b, d, h
<1>10. Res(h[0]) = Res(d[C] * h[C] + w[C])
  <2>1. C \in Nat /\ C \in 0..C
    BY <1>0
  <2>2. \A m \in 0..C : Res(h[0]) = Res(d[m] * h[m] + w[m])
    BY <1>2, <1>3, <1>4, <1>5, <1>6, <1>7, <1>8, <2>1, ComposeBack
  <2> QED
    BY <2>1, <2>2
<1> QED
  BY <1>9, <1>10

=============================================================================
