-------------------------- MODULE GlaBackendsProofs --------------------------
(***************************************************************************)
(* Proofs about the calls of GlaBackends, for every field, number of       *)
(* ranks, chunks and tokens, key and value dimension, blocking and integer *)
(* input.                                                                  *)
(*                                                                         *)
(* The token recurrence of the reference is cut into chunks (StateAt,      *)
(* IntoAt), what the kernels compute of a chunk is related to it, and the  *)
(* invariant follows the programs.                                         *)
(***************************************************************************)
EXTENDS GlaBackends, GlaAlgebraProofs

-----------------------------------------------------------------------------
(* Chunks of the sequence: chunk u is tokens u * C .. u * C + C - 1 *)

\* The decay of a chunk, the state before it, and the gradient of that state.
ChunkDecayAt(in, u, i) == Exp(LogSums(in, u, i)[C])
StateAt(in, u, i, j)   == RunningState(in, i, j)[u * C - 1]
IntoAt(in, u, i, j)    == AdjointInto(in, i, j, u * C)

PlainSum(s, d, F) ==
  /\ s[0] = 0 /\ \A x \in 0..(d - 1) : s[x + 1] = s[x] + F[x]
  /\ \A x \in 0..d : s[x] \in Int

Divides(a, b) == a \in Nat \ {0} /\ b % a = 0

\* A reduction in blocks is the running sum of its terms.
LEMMA BlockedRun ==
  ASSUME NEW d \in Nat \ {0}, NEW pieces, Divides(pieces, d), NEW F, IntsBelow(d, F)
  PROVE  \E s : PlainSum(s, d, F) /\ s[d] = Blocked(d, pieces, F)
<1>0. pieces \in Nat \ {0} /\ d % pieces = 0 /\ \A x \in 0..(d - 1) : F[x] \in Int
  BY DEF Divides, IntsBelow
<1> DEFINE size == d \div pieces
           at_(x) == F[((x - 1) \div size) * size + ((x - 1) % size)]
           body(f) == [x \in 0..d |-> IF x = 0 THEN 0 ELSE f[x - 1] + at_(x)]
           acc == CHOOSE f : f = body(f)
           one == [x \in 0..(d - 1) |-> 1]
<1>1. size \in Nat \ {0}
  <2>1. d = pieces * (d \div pieces) + (d % pieces) /\ d \div pieces \in Int
    BY <1>0
  <2>2. PICK z \in Int : z = d \div pieces
    BY <2>1
  <2>3. d = pieces * z
    BY <1>0, <2>1, <2>2
  <2>4. z > 0
    BY <1>0, <2>3
  <2> QED
    BY <2>2, <2>4
<1>2. \A x \in 1..d : at_(x) = F[x - 1]
  <2> HIDE DEF size
  <2> TAKE x \in 1..d
  <2>1. PICK y \in Int : y = x - 1
    OBVIOUS
  <2>2. y = size * (y \div size) + (y % size) /\ y \div size \in Int /\ y % size \in Int
    BY <1>1
  <2>3. PICK a \in Int, b \in Int : a = y \div size /\ b = y % size
    BY <2>2
  <2>4. a * size + b = y
    BY <1>1, <2>2, <2>3
  <2> QED
    BY <2>1, <2>3, <2>4
<1> HIDE DEF at_, size
<1>3. \A x \in 0..(d - 1) : one[x] = 1
  OBVIOUS
<1>4. PICK h : IsAffine(h, d, 0, 0, one, F)
  <2>1. IntsBelow(d, one) /\ IntsBelow(d, F)
    BY <1>0, <1>3 DEF IntsBelow
  <2> HIDE DEF one
  <2> QED
    BY <2>1, AffineExists
<1> HIDE DEF one
<1>5. \A x \in 0..(d - 1) : h[x + 1] = h[x] + F[x] /\ h[x] \in Int
  <2> TAKE x \in 0..(d - 1)
  <2>1. h[x + 1] = one[x] * h[x] + F[x] /\ h[x] \in Int
    BY <1>4 DEF IsAffine
  <2> QED
    BY <1>0, <1>3, <2>1
<1>6. h = body(h)
  <2>1. \A x \in 0..d : h[x] = IF x = 0 THEN 0 ELSE h[x - 1] + at_(x)
    <3> TAKE x \in 0..d
    <3>1. CASE x = 0
      BY <1>4, <3>1 DEF IsAffine
    <3>2. CASE x # 0
      <4>1. x - 1 \in 0..(d - 1) /\ (x - 1) + 1 = x /\ x \in 1..d
        BY <3>2
      <4> QED
        BY <1>2, <1>5, <3>2, <4>1
    <3> QED
      BY <3>1, <3>2
  <2>2. h = [x \in 0..d |-> h[x]]
    BY <1>4 DEF IsAffine, IsFunction
  <2> QED
    BY <2>1, <2>2
<1>7. acc = body(acc)
  <2> HIDE DEF body
  <2> QED
    BY <1>6, Zenon
<1>8. \A x \in 0..d : acc[x] = IF x = 0 THEN 0 ELSE acc[x - 1] + at_(x)
  <2> HIDE DEF acc
  <2> QED
    BY <1>7
<1>9. Blocked(d, pieces, F) = acc[d]
  BY Zenon DEF Blocked, at_, size
<1> HIDE DEF acc, body
<1>10. \A x \in 0..(d - 1) : acc[x + 1] = acc[x] + F[x]
  <2> TAKE x \in 0..(d - 1)
  <2>1. x + 1 \in 0..d /\ x + 1 # 0 /\ (x + 1) - 1 = x /\ x + 1 \in 1..d
    OBVIOUS
  <2> QED
    BY <1>2, <1>8, <2>1
<1>11. \A x \in 0..d : acc[x] \in Int
  <2>1. acc[0] = 0
    BY <1>8
  <2>2. \A x \in 0..(d - 1) : acc[x] \in Int => acc[x + 1] \in Int
    BY <1>0, <1>10
  <2> QED
    BY <2>1, <2>2, StepsTyped
<1> QED
  BY <1>8, <1>9, <1>10, <1>11 DEF PlainSum

\* What undoes a gate: the gate of the opposite logarithm.
LEMMA InverseIs ==
  ASSUME NEW x \in Int
  PROVE  Inverse(Exp(x)) = Exp(-x)
<1>1. PICK a \in Int, b \in Int :
        a = Exp(x) /\ b = Exp(-x) /\ a \in 1..(Prime - 1) /\ b \in 1..(Prime - 1)
  BY ExpTyped
<1>2. Res(a * b) = 1
  <2>1. x + (-x) = 0 /\ -x \in Int
    OBVIOUS
  <2>2. Exp(x + (-x)) = Res(Exp(x) * Exp(-x))
    BY <2>1, ExpAdd
  <2> QED
    BY <1>1, <2>1, <2>2, ExpZero
<1>3. (a * b) % Prime = 1
  BY <1>2 DEF Res, Residue
<1>4. ASSUME NEW y \in 1..(Prime - 1), (a * y) % Prime = 1
      PROVE  y = b
  <2>0. Prime \in Nat /\ Prime > 1 /\ y \in Int
    BY Field
  <2>1. PICK ab \in Int, ay \in Int : ab = a * b /\ ay = a * y
    BY <2>0
  <2>2. Res(ab) = 1 /\ Res(ay) = 1 /\ Res(ab) = Res(ay)
    BY <1>2, <1>4, <2>1 DEF Res, Residue
  <2>3. Res(Times(b, ay)) = Res(Times(b, ab)) /\ Res(Times(y, ab)) = Res(Times(y, ay))
    BY <2>0, <2>2, ResTimes
  <2>4. Res(1) = 1
    BY <2>0 DEF Res, Residue
  <2>5. Res(Times(b, ab)) = Res(Times(b, 1)) /\ Res(Times(y, ab)) = Res(Times(y, 1))
    BY <2>0, <2>2, <2>4, ResTimes
  <2>6. Times(b, ay) = Times(y, ab)
    BY <2>0, <2>1 DEF Times
  <2>7. Res(b) = Res(y)
    <3>1. Times(b, 1) = b /\ Times(y, 1) = y
      BY <2>0 DEF Times
    <3> QED
      BY <2>3, <2>5, <2>6, <3>1
  <2>8. Res(b) = b /\ Res(y) = y
    BY <1>1, <2>0 DEF Res, Residue
  <2> QED
    BY <2>7, <2>8
<1> QED
  BY <1>1, <1>3, <1>4 DEF Inverse

-----------------------------------------------------------------------------
(* The chunks of a device of the fused programs *)

Chosen == input \in Inputs /\ program \in Programs /\ plan \in Plans

IsBlocking(p) ==
  Divides(p.nb, DK) /\ Divides(p.nv, DV) /\ Divides(p.nc, C)

LEMMA ChosenIs ==
  ASSUME Chosen
  PROVE  /\ IsInput(input) /\ IsBlocking(plan) /\ IsBlocking(Whole)
         /\ plan.k \in Nat \ {0} /\ DK % plan.k = 0
         /\ program.op \in {"forward", "backward", "carried"} /\ program.ranks \in {1, P}
         /\ {P, N, C, DK, DV} \subseteq Nat \ {0}
<1>1. {P, N, C, DK, DV} \subseteq Nat \ {0}
  BY ShapeAssumption
<1>2. IsInput(input)
  <2>1. input \in Inputs
    BY DEF Chosen
  <2>2. /\ {input.q, input.k, input.g} \subseteq [Tokens -> [Keys -> Int]]
        /\ {input.v, input.dO} \subseteq [Tokens -> [Values -> Int]]
    BY <2>1, CallAssumption
  <2> QED
    BY <2>2 DEF IsInput
<1>3. IsBlocking(plan) /\ plan.k \in Nat \ {0} /\ DK % plan.k = 0
  <2>1. plan \in Plans
    BY DEF Chosen
  <2>2. /\ {plan.nb, plan.nv, plan.nc, plan.k} \subseteq Nat \ {0}
        /\ DK % plan.nb = 0 /\ DV % plan.nv = 0 /\ C % plan.nc = 0 /\ DK % plan.k = 0
    BY <2>1, PlanAssumption
  <2> QED
    BY <2>2 DEF IsBlocking, Divides
<1>4. IsBlocking(Whole)
  <2>1. DK % 1 = 0 /\ DV % 1 = 0 /\ C % 1 = 0
    BY <1>1
  <2> QED
    BY <2>1 DEF IsBlocking, Divides, Whole
<1>5. program.op \in {"forward", "backward", "carried"} /\ program.ranks \in {1, P}
  BY PlanAssumption DEF Chosen
<1> QED
  BY <1>1, <1>2, <1>3, <1>4, <1>5

\* The first chunk of a device.
FirstChunk(r) == r * PerRank

LEMMA DevicesAre ==
  ASSUME Chosen
  PROVE  /\ PerRank \in Nat \ {0} /\ Slice = 0..(PerRank - 1)
         /\ PerRank = IF program.ranks = 1 THEN P * N ELSE N
         /\ \A r \in Devices :
              /\ r \in Nat /\ FirstChunk(r) \in Nat
              /\ FirstChunk(r) + PerRank = FirstChunk(r + 1)
              /\ FirstChunk(r) + PerRank <= P * N
              /\ \A n \in Slice : FirstChunk(r) + n \in 0..(P * N - 1)
<1>0. P \in Nat \ {0} /\ N \in Nat \ {0} /\ program.ranks \in {1, P}
  BY ChosenIs
<1>1. PerRank = IF program.ranks = 1 THEN P * N ELSE N
  <2>1. CASE program.ranks = 1
    <3>1. PICK x \in Nat : x = P * N
      BY <1>0
    <3>2. x \div 1 = x
      OBVIOUS
    <3> QED
      BY <2>1, <3>1, <3>2 DEF PerRank
  <2>2. CASE program.ranks # 1
    <3>1. (P * N) \div P = N
      <4>1. PICK z \in Int : z = (P * N) \div P
        BY <1>0
      <4>2. P * N = P * z + ((P * N) % P) /\ (P * N) % P \in 0..(P - 1)
        <5>1. PICK x \in Nat : x = P * N
          BY <1>0
        <5>2. x = P * (x \div P) + (x % P) /\ x % P \in 0..(P - 1)
          BY <1>0
        <5> QED
          BY <4>1, <5>1, <5>2
      <4>3. PICK w \in 0..(P - 1) : P * (N - z) = w
        <5>1. PICK w \in 0..(P - 1) : w = (P * N) % P
          BY <4>2
        <5>2. P * N - P * z = w
          BY <1>0, <4>2, <5>1
        <5> QED
          BY <1>0, <5>1, <5>2
      <4>4. PICK y \in Int : y = N - z
        BY <1>0
      <4>5. P * y = w
        BY <4>3, <4>4
      <4>6. y = 0
        <5>1. y > 0 => P * y >= P
          BY <1>0
        <5>2. y < 0 => P * y < 0
          BY <1>0
        <5> QED
          BY <1>0, <4>3, <4>5, <5>1, <5>2
      <4> QED
        BY <1>0, <4>1, <4>4, <4>6
    <3> QED
      BY <1>0, <2>2, <3>1 DEF PerRank
  <2> QED
    BY <2>1, <2>2
<1>2. PICK m \in Nat \ {0} : m = PerRank
  <2>1. P * N \in Nat \ {0}
    BY <1>0
  <2> QED
    BY <1>0, <1>1, <2>1
<1>3. PICK d \in Nat \ {0} : d = program.ranks /\ d * m = P * N
  BY <1>0, <1>1, <1>2
<1>4. ASSUME NEW r \in Devices
      PROVE  /\ r \in Nat /\ FirstChunk(r) \in Nat
             /\ FirstChunk(r) + PerRank = FirstChunk(r + 1)
             /\ FirstChunk(r) + PerRank <= P * N
             /\ \A n \in Slice : FirstChunk(r) + n \in 0..(P * N - 1)
  <2>1. r \in Nat /\ r + 1 <= d
    BY <1>3 DEF Devices
  <2>2. r * m \in Nat /\ r * m + m = (r + 1) * m
    BY <2>1
  <2>3. (r + 1) * m <= d * m
    <3>1. PICK z \in Nat : d = r + 1 + z
      <4>1. d - (r + 1) \in Nat
        BY <2>1
      <4> QED
        BY <2>1, <4>1
    <3>2. d * m = (r + 1) * m + z * m /\ z * m \in Nat
      BY <2>1, <3>1
    <3>3. (r + 1) * m \in Nat
      BY <2>1
    <3> QED
      BY <3>2, <3>3
  <2>4. r * m + m <= P * N /\ P * N \in Nat
    BY <1>0, <1>3, <2>2, <2>3
  <2>5. ASSUME NEW n \in 0..(m - 1) PROVE r * m + n \in 0..(P * N - 1)
    BY <2>2, <2>4
  <2> QED
    BY <1>2, <2>1, <2>2, <2>4, <2>5 DEF FirstChunk, Slice
<1> QED
  BY <1>1, <1>2, <1>4 DEF Slice

\* What a kernel loads of its inputs.
LEMMA ArgIs ==
  ASSUME Chosen, NEW r \in Devices, NEW n \in Slice, NEW c \in Rows
  PROVE  /\ \A name \in {"q", "k", "g"}, i \in Keys :
              /\ Arg(name, r, n, c, i) = input[name][(FirstChunk(r) + n) * C + c][i]
              /\ Arg(name, r, n, c, i) \in Int
         /\ \A name \in {"v", "dO"}, j \in Values :
              /\ Arg(name, r, n, c, j) = input[name][(FirstChunk(r) + n) * C + c][j]
              /\ Arg(name, r, n, c, j) \in Int
<1>1. TokenAt(r, n, c) = (FirstChunk(r) + n) * C + c
  BY DEF TokenAt, FirstChunk
<1>2. FirstChunk(r) + n \in 0..(P * N - 1)
  BY DevicesAre
<1>3. TokenAt(r, n, c) \in Tokens
  BY <1>1, <1>2, TokenOf
<1>4. /\ \A name \in {"q", "k", "g"} : input[name] \in [Tokens -> [Keys -> Int]]
      /\ \A name \in {"v", "dO"} : input[name] \in [Tokens -> [Values -> Int]]
  BY ChosenIs DEF IsInput
<1>5. PICK t \in Tokens : t = TokenAt(r, n, c)
  BY <1>3
<1>6. \A name \in {"q", "k", "g"}, i \in Keys : input[name][t][i] \in Int
  BY <1>4
<1>7. \A name \in {"v", "dO"}, j \in Values : input[name][t][j] \in Int
  BY <1>4
<1> QED
  BY <1>1, <1>5, <1>6, <1>7 DEF Arg

\* b of a row of a chunk: the gates of the chunk up to it, and of the last row
\* the decay of the chunk.
LEMMA WithinDecayIs ==
  ASSUME Chosen, NEW r \in Devices, NEW p, IsBlocking(p), NEW n \in Slice, NEW c \in Rows,
         NEW i \in Keys
  PROVE  WithinDecay(r, p, n, c, i) = Exp(LogSums(input, FirstChunk(r) + n, i)[c + 1])
<1> DEFINE La == [x \in Rows |-> IF x <= c THEN Arg("g", r, n, x, i) ELSE 0]
           u == FirstChunk(r) + n
           e == LogSums(input, u, i)
<1>0. C \in Nat \ {0} /\ Rows = 0..(C - 1)
  BY ShapeAssumption DEF Rows
<1>1. \A x \in 0..(C - 1) : /\ La[x] \in Int
                            /\ La[x] = IF x <= c THEN input.g[u * C + x][i] ELSE 0
  <2> TAKE x \in 0..(C - 1)
  <2>1. /\ Arg("g", r, n, x, i) = input.g[u * C + x][i]
        /\ Arg("g", r, n, x, i) \in Int
    BY <1>0, ArgIs
  <2> QED
    BY <1>0, <2>1
<1>2. WithinDecay(r, p, n, c, i) = Exp(Blocked(C, p.nc, La))
  BY DEF WithinDecay
<1> HIDE DEF La
<1>3. PICK s : /\ s[0] = 0 /\ s[C] = Blocked(C, p.nc, La)
               /\ \A x \in 0..(C - 1) : s[x + 1] = s[x] + La[x]
               /\ \A x \in 0..C : s[x] \in Int
  <2>1. Divides(p.nc, C)
    BY DEF IsBlocking
  <2>2. IntsBelow(C, La)
    BY <1>1 DEF IntsBelow
  <2>3. \E s : PlainSum(s, C, La) /\ s[C] = Blocked(C, p.nc, La)
    BY <1>0, <2>1, <2>2, BlockedRun
  <2> QED
    BY <2>3 DEF PlainSum
<1>4. u \in 0..(P * N - 1) /\ IsInput(input)
  BY ChosenIs, DevicesAre
<1>5. /\ e[0] = 0 /\ \A x \in 0..(C - 1) : e[x + 1] = e[x] + input.g[u * C + x][i]
      /\ \A x \in 0..C : e[x] \in Int
  BY <1>0, <1>4, LogSumsIs
<1> HIDE DEF e, u
<1>6. \A m \in Nat : m <= C => s[m] = IF m <= c + 1 THEN e[m] ELSE e[c + 1]
  <2> DEFINE S == {m \in Nat : m <= C => s[m] = IF m <= c + 1 THEN e[m] ELSE e[c + 1]}
  <2>1. 0 \in S
    BY <1>0, <1>3, <1>5
  <2>2. ASSUME NEW m \in Nat, m \in S PROVE m + 1 \in S
    <3> SUFFICES ASSUME m + 1 <= C
                 PROVE  s[m + 1] = IF m + 1 <= c + 1 THEN e[m + 1] ELSE e[c + 1]
      OBVIOUS
    <3>1. m \in 0..(C - 1) /\ s[m] = IF m <= c + 1 THEN e[m] ELSE e[c + 1]
      BY <1>0, <2>2
    <3>2. /\ s[m + 1] = s[m] + La[m] /\ e[m + 1] = e[m] + input.g[u * C + m][i]
          /\ e[m] \in Int /\ e[c + 1] \in Int
      BY <1>0, <1>3, <1>5, <3>1
    <3>3. CASE m <= c
      BY <1>0, <1>1, <3>1, <3>2, <3>3
    <3>4. CASE m > c
      <4>1. La[m] = 0
        BY <1>0, <1>1, <3>1, <3>4
      <4>2. s[m] = e[c + 1]
        <5>1. CASE m = c + 1
          BY <3>1, <5>1
        <5>2. CASE m # c + 1
          BY <1>0, <3>1, <3>4, <5>2
        <5> QED
          BY <5>1, <5>2
      <4>3. m + 1 > c + 1
        BY <1>0, <3>4
      <4> QED
        BY <1>0, <3>2, <4>1, <4>2, <4>3
    <3> QED
      BY <1>0, <3>3, <3>4
  <2> HIDE DEF S
  <2>3. Nat \subseteq S
    BY <2>1, <2>2, SetInduction
  <2> QED
    BY <2>3 DEF S
<1>7. s[C] = e[c + 1]
  <2>1. CASE C = c + 1
    BY <1>0, <1>6, <2>1
  <2>2. CASE C # c + 1
    BY <1>0, <1>6, <2>2
  <2> QED
    BY <2>1, <2>2
<1> QED
  BY <1>2, <1>3, <1>7 DEF e, u

LEMMA ChunkDecayIs ==
  ASSUME Chosen, NEW r \in Devices, NEW n \in Slice, NEW i \in Keys
  PROVE  ChunkDecay(r, n, i) = ChunkDecayAt(input, FirstChunk(r) + n, i)
<1> DEFINE La == [x \in Rows |-> Arg("g", r, n, x, i)]
           Lb == [x \in Rows |-> IF x <= C - 1 THEN Arg("g", r, n, x, i) ELSE 0]
<1>0. C \in Nat \ {0} /\ Rows = 0..(C - 1) /\ C - 1 \in Rows /\ (C - 1) + 1 = C
  BY ShapeAssumption DEF Rows
<1>1. La = Lb
  <2>1. \A x \in Rows : x <= C - 1
    BY <1>0
  <2> QED
    BY <2>1
<1>2. ChunkDecay(r, n, i) = Exp(Blocked(C, 1, La))
  BY DEF ChunkDecay
<1>3. WithinDecay(r, Whole, n, C - 1, i) = Exp(Blocked(C, Whole.nc, Lb))
  BY DEF WithinDecay
<1>4. Whole.nc = 1 /\ IsBlocking(Whole)
  BY ChosenIs DEF Whole
<1>5. WithinDecay(r, Whole, n, C - 1, i) = Exp(LogSums(input, FirstChunk(r) + n, i)[C])
  BY <1>0, <1>4, WithinDecayIs
<1> HIDE DEF La, Lb
<1> QED
  BY <1>1, <1>2, <1>3, <1>4, <1>5 DEF ChunkDecayAt

-----------------------------------------------------------------------------
(* The decay of n chunks from chunk u *)

DecayOf(in, u, n, i) == ProductOf(n, [m \in 0..(n - 1) |-> ChunkDecayAt(in, u + m, i)])

LEMMA ProductStep ==
  ASSUME NEW n \in Nat, NEW f, NEW g, \A i \in 0..n : f[i] \in Int,
         \A i \in 0..(n - 1) : g[i] = f[i]
  PROVE  ProductOf(n + 1, f) = Res(ProductOf(n, g) * f[n]) /\ ProductOf(n, g) \in Int
<1>1. PICK s : /\ s[0] = 1 /\ s[n + 1] = ProductOf(n + 1, f)
               /\ \A i \in 0..n : s[i + 1] = Res(s[i] * f[i])
               /\ \A i \in 0..(n + 1) : s[i] \in Int
  <2>1. (n + 1) - 1 = n /\ n + 1 \in Nat
    OBVIOUS
  <2>2. PICK k \in Nat : k = n + 1
    OBVIOUS
  <2>3. IntsBelow(k, f)
    BY <2>2 DEF IntsBelow
  <2>4. \E s : ModProduct(s, k, f) /\ s[k] = ProductOf(k, f)
    BY <2>3, ProductIs
  <2> QED
    BY <2>1, <2>2, <2>4 DEF ModProduct
<1>2. PICK t : /\ t[0] = 1 /\ t[n] = ProductOf(n, g)
               /\ \A i \in 0..(n - 1) : t[i + 1] = Res(t[i] * g[i])
               /\ \A i \in 0..n : t[i] \in Int
  <2>1. IntsBelow(n, g)
    BY DEF IntsBelow
  <2>2. \E t : ModProduct(t, n, g) /\ t[n] = ProductOf(n, g)
    BY <2>1, ProductIs
  <2> QED
    BY <2>2 DEF ModProduct
<1>3. \A m \in Nat : m <= n => s[m] = t[m]
  <2> DEFINE S == {m \in Nat : m <= n => s[m] = t[m]}
  <2>1. 0 \in S
    BY <1>1, <1>2
  <2>2. ASSUME NEW m \in Nat, m \in S PROVE m + 1 \in S
    <3> SUFFICES ASSUME m + 1 <= n PROVE s[m + 1] = t[m + 1]
      OBVIOUS
    <3>1. m \in 0..(n - 1) /\ m \in 0..n /\ s[m] = t[m]
      BY <2>2
    <3> QED
      BY <1>1, <1>2, <3>1
  <2> HIDE DEF S
  <2>3. Nat \subseteq S
    BY <2>1, <2>2, SetInduction
  <2> QED
    BY <2>3 DEF S
<1>4. s[n] = t[n] /\ n \in 0..n
  BY <1>3
<1> QED
  BY <1>1, <1>2, <1>4

LEMMA ChunkDecayTyped ==
  ASSUME NEW in, IsInput(in), NEW u \in 0..(P * N - 1), NEW i \in Keys
  PROVE  ChunkDecayAt(in, u, i) \in Int
<1>1. C \in 0..C
  BY ShapeAssumption
<1> QED
  BY <1>1, ChunkGates DEF ChunkDecayAt

LEMMA DecayOfIs ==
  ASSUME NEW in, IsInput(in), NEW u \in Nat, NEW n \in Nat, u + n <= P * N, NEW i \in Keys
  PROVE  /\ DecayOf(in, u, 0, i) = 1
         /\ \A m \in 0..n : DecayOf(in, u, m, i) \in 0..(Prime - 1)
         /\ \A m \in 0..(n - 1) :
              /\ ChunkDecayAt(in, u + m, i) \in Int
              /\ DecayOf(in, u, m + 1, i) = Res(DecayOf(in, u, m, i) * ChunkDecayAt(in, u + m, i))
<1>0. P * N \in Nat
  BY ShapeAssumption
<1>1. \A m \in 0..(n - 1) : ChunkDecayAt(in, u + m, i) \in Int
  <2> TAKE m \in 0..(n - 1)
  <2>1. u + m \in 0..(P * N - 1)
    BY <1>0
  <2> QED
    BY <2>1, ChunkDecayTyped
<1>2. DecayOf(in, u, 0, i) = 1
  <2>1. PICK g : g = [m \in 0..(0 - 1) |-> ChunkDecayAt(in, u + m, i)]
    OBVIOUS
  <2>2. IntsBelow(0, g)
    BY DEF IntsBelow
  <2>3. \E s : ModProduct(s, 0, g) /\ s[0] = ProductOf(0, g)
    BY <2>2, ProductIs
  <2> QED
    BY <2>1, <2>3 DEF DecayOf, ModProduct
<1>3. ASSUME NEW m \in 0..(n - 1)
      PROVE  /\ DecayOf(in, u, m + 1, i) = Res(DecayOf(in, u, m, i) * ChunkDecayAt(in, u + m, i))
             /\ DecayOf(in, u, m, i) \in Int
  <2>0. (m + 1) - 1 = m /\ m \in Nat
    OBVIOUS
  <2>1. PICK f : f = [x \in 0..((m + 1) - 1) |-> ChunkDecayAt(in, u + x, i)]
    OBVIOUS
  <2>2. PICK g : g = [x \in 0..(m - 1) |-> ChunkDecayAt(in, u + x, i)]
    OBVIOUS
  <2>3. \A x \in 0..m : f[x] \in Int /\ f[x] = ChunkDecayAt(in, u + x, i)
    BY <1>1, <2>0, <2>1
  <2>4. \A x \in 0..(m - 1) : g[x] = f[x]
    BY <2>0, <2>1, <2>2
  <2>5. ProductOf(m + 1, f) = Res(ProductOf(m, g) * f[m]) /\ ProductOf(m, g) \in Int
    BY <2>0, <2>3, <2>4, ProductStep
  <2> QED
    BY <2>0, <2>1, <2>2, <2>3, <2>5 DEF DecayOf
<1>4. ASSUME NEW m \in 0..n PROVE DecayOf(in, u, m, i) \in 0..(Prime - 1)
  <2>1. CASE m = 0
    BY <1>2, <2>1, Field
  <2>2. CASE m # 0
    <3>1. m - 1 \in 0..(n - 1) /\ (m - 1) + 1 = m
      BY <2>2
    <3>4. PICK y \in Int, z \in Int :
            y = DecayOf(in, u, m - 1, i) /\ z = ChunkDecayAt(in, u + (m - 1), i)
      BY <1>1, <1>3, <3>1
    <3>2. PICK x \in Int : x = DecayOf(in, u, m - 1, i) * ChunkDecayAt(in, u + (m - 1), i)
      BY <3>4
    <3>3. DecayOf(in, u, m, i) = Res(x)
      BY <1>3, <3>1, <3>2
    <3> QED
      BY <3>3, ResRes
  <2> QED
    BY <2>1, <2>2
<1> QED
  BY <1>1, <1>2, <1>3, <1>4

LEMMA DecayBeforeIs ==
  ASSUME Chosen, NEW r \in Devices, NEW i \in Keys
  PROVE  \A n \in 0..PerRank : DecayBefore(r, i)[n] = DecayOf(input, FirstChunk(r), n, i)
<1> DEFINE u == FirstChunk(r)
           body(g) == [n \in 0..PerRank |->
                         IF n = 0 THEN 1 ELSE (g[n - 1] * ChunkDecay(r, n - 1, i)) % Prime]
           G == DecayBefore(r, i)
           h == [n \in 0..PerRank |-> DecayOf(input, u, n, i)]
<1>0. PerRank \in Nat /\ u \in Nat /\ u + PerRank <= P * N /\ IsInput(input)
  BY ChosenIs, DevicesAre
<1>1. /\ DecayOf(input, u, 0, i) = 1
      /\ \A m \in 0..(PerRank - 1) :
           DecayOf(input, u, m + 1, i) = Res(DecayOf(input, u, m, i) * ChunkDecayAt(input, u + m, i))
  BY <1>0, DecayOfIs
<1>2. \A m \in 0..(PerRank - 1) : ChunkDecay(r, m, i) = ChunkDecayAt(input, u + m, i)
  BY ChunkDecayIs DEF Slice
<1> HIDE DEF u
<1>3. \A m \in 1..PerRank :
        DecayOf(input, u, m, i) = (DecayOf(input, u, m - 1, i) * ChunkDecay(r, m - 1, i)) % Prime
  <2> TAKE m \in 1..PerRank
  <2>1. m - 1 \in 0..(PerRank - 1) /\ (m - 1) + 1 = m
    BY <1>0
  <2> QED
    BY <1>1, <1>2, <2>1 DEF Res, Residue
<1>4. h = body(h)
  <2>1. \A n \in 0..PerRank :
          h[n] = IF n = 0 THEN 1 ELSE (h[n - 1] * ChunkDecay(r, n - 1, i)) % Prime
    <3> TAKE n \in 0..PerRank
    <3>1. CASE n = 0
      BY <1>0, <1>1, <3>1
    <3>2. CASE n # 0
      <4>1. n \in 1..PerRank /\ n - 1 \in 0..PerRank
        BY <1>0, <3>2
      <4> QED
        BY <1>3, <3>2, <4>1
    <3> QED
      BY <3>1, <3>2
  <2> QED
    BY <2>1
<1>5. G = body(G)
  <2>1. G = CHOOSE g : g = body(g)
    BY Zenon DEF DecayBefore
  <2> HIDE DEF body, G, h
  <2> QED
    BY <1>4, <2>1
<1>6. \A n \in 0..PerRank :
        G[n] = IF n = 0 THEN 1 ELSE (G[n - 1] * ChunkDecay(r, n - 1, i)) % Prime
  <2> HIDE DEF G
  <2> QED
    BY <1>5
<1> HIDE DEF G, body, h
<1>7. \A n \in Nat : n <= PerRank => G[n] = DecayOf(input, u, n, i)
  <2> DEFINE S == {n \in Nat : n <= PerRank => G[n] = DecayOf(input, u, n, i)}
  <2>1. 0 \in S
    BY <1>0, <1>1, <1>6
  <2>2. ASSUME NEW n \in Nat, n \in S PROVE n + 1 \in S
    <3> SUFFICES ASSUME n + 1 <= PerRank PROVE G[n + 1] = DecayOf(input, u, n + 1, i)
      OBVIOUS
    <3>1. n + 1 \in 1..PerRank /\ n + 1 \in 0..PerRank /\ (n + 1) - 1 = n /\ n + 1 # 0
      BY <1>0
    <3>2. G[n] = DecayOf(input, u, n, i)
      BY <1>0, <2>2
    <3> QED
      BY <1>3, <1>6, <3>1, <3>2
  <2> HIDE DEF S
  <2>3. Nat \subseteq S
    BY <2>1, <2>2, SetInduction
  <2> QED
    BY <2>3 DEF S
<1> QED
  BY <1>0, <1>7 DEF G, u

LEMMA GammaIs ==
  ASSUME Chosen, NEW r \in Devices, NEW i \in Keys
  PROVE  Gamma(r, i) = DecayOf(input, FirstChunk(r), PerRank, i)
<1>1. \A n \in 0..(PerRank - 1) : ChunkDecay(r, n, i) = ChunkDecayAt(input, FirstChunk(r) + n, i)
  BY ChunkDecayIs DEF Slice
<1>2. [n \in 0..(PerRank - 1) |-> ChunkDecay(r, n, i)]
        = [n \in 0..(PerRank - 1) |-> ChunkDecayAt(input, FirstChunk(r) + n, i)]
  BY <1>1
<1>3. Gamma(r, i) = ProductOf(PerRank, [n \in 0..(PerRank - 1) |-> ChunkDecay(r, n, i)])
  BY DEF Gamma, Product
<1> QED
  BY <1>2, <1>3 DEF DecayOf

-----------------------------------------------------------------------------
(* The walk over the slice from a zero state *)

\* (K / b)^T V of a chunk, element (i, j).
KeyValues(r, p, n, i, j) ==
  Blocked(C, p.nc,
          [x \in Rows |-> Quotient(Arg("k", r, n, x, i), WithinDecay(r, p, n, x, i))
                            * Arg("v", r, n, x, j)])

LEMMA KeyValuesIs ==
  ASSUME Chosen, NEW r \in Devices, NEW p, IsBlocking(p), NEW n \in Slice,
         NEW i \in Keys, NEW j \in Values
  PROVE  /\ KeyValues(r, p, n, i, j) \in Int
         /\ LET u == FirstChunk(r) + n
            IN Res(StateAt(input, u + 1, i, j))
                 = Res(ChunkDecayAt(input, u, i) * StateAt(input, u, i, j)
                         + ChunkDecayAt(input, u, i) * KeyValues(r, p, n, i, j))
<1> DEFINE u == FirstChunk(r) + n
           e == LogSums(input, u, i)
           Term == [x \in Rows |-> Quotient(Arg("k", r, n, x, i), WithinDecay(r, p, n, x, i))
                                     * Arg("v", r, n, x, j)]
<1>0. C \in Nat \ {0} /\ Rows = 0..(C - 1)
  BY ShapeAssumption DEF Rows
<1>1. u \in 0..(P * N - 1) /\ IsInput(input)
  BY ChosenIs, DevicesAre
<1>2. \A x \in 0..(C - 1) :
        /\ Term[x] = input.k[u * C + x][i] * Exp(-e[x + 1]) * input.v[u * C + x][j]
        /\ Term[x] \in Int
  <2> TAKE x \in 0..(C - 1)
  <2>1. x \in Rows /\ x + 1 \in 0..C
    BY <1>0
  <2>2. WithinDecay(r, p, n, x, i) = Exp(e[x + 1])
    BY <2>1, WithinDecayIs
  <2>3. e[x + 1] \in Int /\ Exp(-e[x + 1]) \in Int
    BY <1>1, <2>1, ChunkGates
  <2>4. Inverse(WithinDecay(r, p, n, x, i)) = Exp(-e[x + 1])
    BY <2>2, <2>3, InverseIs
  <2>5. /\ Arg("k", r, n, x, i) = input.k[u * C + x][i] /\ Arg("k", r, n, x, i) \in Int
        /\ Arg("v", r, n, x, j) = input.v[u * C + x][j] /\ Arg("v", r, n, x, j) \in Int
    BY <2>1, ArgIs
  <2>6. Term[x] = Arg("k", r, n, x, i) * Exp(-e[x + 1]) * Arg("v", r, n, x, j)
    BY <2>1, <2>4 DEF Quotient
  <2>7. PICK a \in Int, b \in Int, d \in Int :
          a = Arg("k", r, n, x, i) /\ b = Exp(-e[x + 1]) /\ d = Arg("v", r, n, x, j)
    BY <2>3, <2>5
  <2>8. a * b * d \in Int
    OBVIOUS
  <2> HIDE DEF Term, e, u
  <2> QED
    BY <2>5, <2>6, <2>7, <2>8
<1>3. KeyValues(r, p, n, i, j) = Blocked(C, p.nc, Term)
  BY DEF KeyValues
<1> HIDE DEF Term
<1>4. PICK s : PlainSum(s, C, Term) /\ s[C] = Blocked(C, p.nc, Term)
  <2>1. IntsBelow(C, Term) /\ Divides(p.nc, C)
    BY <1>2 DEF IntsBelow, IsBlocking
  <2> QED
    BY <1>0, <2>1, BlockedRun
<1>5. /\ s[0] = 0 /\ \A c \in 0..C : s[c] \in Int
      /\ \A c \in Rows :
           Res(s[c + 1]) = Res(s[c] + input.k[u * C + c][i] * Exp(-LogSums(input, u, i)[c + 1])
                                        * input.v[u * C + c][j])
  BY <1>0, <1>2, <1>4 DEF PlainSum
<1>6. Res(RunningState(input, i, j)[u * C + C - 1])
        = Res(Exp(LogSums(input, u, i)[C]) * RunningState(input, i, j)[u * C - 1]
                + Exp(LogSums(input, u, i)[C]) * s[C])
  <2> HIDE DEF u
  <2> QED
    BY <1>1, <1>5, ChunkState
<1>7. (u + 1) * C - 1 = u * C + C - 1
  <2>1. PICK w \in Int : w = u
    BY <1>1
  <2>2. (w + 1) * C - 1 = w * C + C - 1
    BY <1>0
  <2> QED
    BY <2>1, <2>2
<1>8. KeyValues(r, p, n, i, j) \in Int
  BY <1>0, <1>3, <1>4 DEF PlainSum
<1> QED
  BY <1>3, <1>4, <1>6, <1>7, <1>8 DEF StateAt, ChunkDecayAt

LEMMA StateAtIs ==
  ASSUME NEW in, IsInput(in), NEW i \in Keys, NEW j \in Values
  PROVE  /\ StateAt(in, 0, i, j) = 0
         /\ \A u \in 0..(P * N) : /\ StateAt(in, u, i, j) \in Int
                                  /\ Res(StateAt(in, u, i, j)) = StateAt(in, u, i, j)
<1>0. C \in Nat \ {0} /\ P * N \in Nat \ {0} /\ T \in Nat \ {0} /\ Tokens = 0..(T - 1)
  BY ShapeAssumption, TIs
<1>1. ASSUME NEW u \in 0..(P * N) PROVE u * C - 1 \in -1..(T - 1)
  <2>1. CASE u = 0
    BY <1>0, <2>1
  <2>2. CASE u # 0
    <3>1. PICK w \in 0..(P * N - 1) : w + 1 = u
      <4>1. u - 1 \in 0..(P * N - 1) /\ (u - 1) + 1 = u
        BY <1>0, <2>2
      <4> QED
        BY <4>1
    <3>2. 0 \in Rows
      BY <1>0 DEF Rows
    <3>3. w * C \in Nat /\ w * C + C <= T
      BY <3>2, TokenOf
    <3>4. u * C = w * C + C
      BY <1>0, <3>1
    <3> QED
      BY <1>0, <3>3, <3>4
  <2> QED
    BY <2>1, <2>2
<1>2. RunningState(in, i, j)[-1] = 0
  BY RunningIs
<1>3. Res(0) = 0
  BY Field DEF Res, Residue
<1>4. ASSUME NEW t \in -1..(T - 1)
      PROVE  /\ RunningState(in, i, j)[t] \in Int
             /\ Res(RunningState(in, i, j)[t]) = RunningState(in, i, j)[t]
  <2>1. RunningState(in, i, j)[t] \in Int
    BY RunningIs
  <2>2. CASE t = -1
    BY <1>2, <1>3, <2>2
  <2>3. CASE t # -1
    <3>1. t \in Tokens
      BY <1>0, <2>3
    <3>2. RunningState(in, i, j)[t]
            = Res(Gate(in, t, i) * RunningState(in, i, j)[t - 1] + in.k[t][i] * in.v[t][j])
      BY <3>1, RunningIs
    <3>3. in.g[t][i] \in Int /\ in.k[t][i] \in Int /\ in.v[t][j] \in Int
      BY <3>1 DEF IsInput
    <3>4. Gate(in, t, i) \in Int
      BY <3>3, ExpTyped DEF Gate
    <3>5. t - 1 \in -1..(T - 1)
      BY <1>0, <3>1
    <3>6. RunningState(in, i, j)[t - 1] \in Int
      BY <3>5, RunningIs
    <3>7. PICK x \in Int :
            x = Gate(in, t, i) * RunningState(in, i, j)[t - 1] + in.k[t][i] * in.v[t][j]
      BY <3>3, <3>4, <3>6
    <3> QED
      BY <3>2, <3>7, ResRes
  <2> QED
    BY <2>1, <2>2, <2>3
<1>5. 0 * C - 1 = -1
  BY <1>0
<1> QED
  BY <1>1, <1>2, <1>4, <1>5 DEF StateAt

LEMMA LocalStateIs ==
  ASSUME Chosen, NEW r \in Devices, NEW p, IsBlocking(p), NEW i \in Keys, NEW j \in Values
  PROVE  /\ LocalState(r, p, i, j)[0] = 0
         /\ \A n \in 0..PerRank : LocalState(r, p, i, j)[n] \in Int
         /\ \A n \in 0..(PerRank - 1) :
              LocalState(r, p, i, j)[n + 1]
                = Res(ChunkDecay(r, n, i) * (LocalState(r, p, i, j)[n] + KeyValues(r, p, n, i, j)))
<1> DEFINE G == LocalState(r, p, i, j)
           body(S) ==
             [n \in 0..PerRank |->
                IF n = 0 THEN 0
                ELSE (ChunkDecay(r, n - 1, i) * (S[n - 1] + KeyValues(r, p, n - 1, i, j))) % Prime]
           a == [n \in 0..(PerRank - 1) |-> ChunkDecay(r, n, i)]
           b == [n \in 0..(PerRank - 1) |-> ChunkDecay(r, n, i) * KeyValues(r, p, n, i, j)]
<1>0. PerRank \in Nat /\ Slice = 0..(PerRank - 1) /\ Prime \in Nat \ {0}
  BY DevicesAre, Field
<1>1. \A n \in 0..(PerRank - 1) :
        ChunkDecay(r, n, i) \in Int /\ KeyValues(r, p, n, i, j) \in Int
  <2> TAKE n \in 0..(PerRank - 1)
  <2>1. n \in Slice /\ FirstChunk(r) + n \in 0..(P * N - 1) /\ IsInput(input)
    BY <1>0, ChosenIs, DevicesAre
  <2>2. ChunkDecayAt(input, FirstChunk(r) + n, i) \in Int
    BY <2>1, ChunkDecayTyped
  <2> QED
    BY <2>1, <2>2, ChunkDecayIs, KeyValuesIs
<1>2. \A n \in 0..(PerRank - 1) :
        /\ a[n] = ChunkDecay(r, n, i) /\ b[n] = ChunkDecay(r, n, i) * KeyValues(r, p, n, i, j)
        /\ a[n] \in Int /\ b[n] \in Int
  <2> TAKE n \in 0..(PerRank - 1)
  <2>1. PICK x \in Int, y \in Int : x = ChunkDecay(r, n, i) /\ y = KeyValues(r, p, n, i, j)
    BY <1>1
  <2>2. x * y \in Int
    OBVIOUS
  <2> QED
    BY <2>1, <2>2
<1> HIDE DEF a, b
<1>3. PICK h : IsAffine(h, PerRank, Prime, 0, a, b)
  <2>1. IntsBelow(PerRank, a) /\ IntsBelow(PerRank, b)
    BY <1>2 DEF IntsBelow
  <2> QED
    BY <1>0, <2>1, AffineExists
<1>4. \A n \in 1..PerRank :
        h[n] = (ChunkDecay(r, n - 1, i) * (h[n - 1] + KeyValues(r, p, n - 1, i, j))) % Prime
  <2> TAKE n \in 1..PerRank
  <2>1. n - 1 \in 0..(PerRank - 1) /\ (n - 1) + 1 = n /\ n - 1 \in 0..PerRank
    BY <1>0
  <2>2. h[n] = (a[n - 1] * h[n - 1] + b[n - 1]) % Prime /\ h[n - 1] \in Int
    BY <1>0, <1>3, <2>1 DEF IsAffine
  <2>3. PICK x \in Int, y \in Int, z \in Int :
          x = ChunkDecay(r, n - 1, i) /\ y = KeyValues(r, p, n - 1, i, j) /\ z = h[n - 1]
    BY <1>1, <2>1, <2>2
  <2>4. x * z + x * y = x * (z + y)
    OBVIOUS
  <2>5. a[n - 1] = x /\ b[n - 1] = x * y
    BY <1>2, <2>1, <2>3
  <2> QED
    BY <2>2, <2>3, <2>4, <2>5
<1>5. h = body(h)
  <2>1. \A n \in 0..PerRank :
          h[n] = IF n = 0 THEN 0
                 ELSE (ChunkDecay(r, n - 1, i) * (h[n - 1] + KeyValues(r, p, n - 1, i, j))) % Prime
    <3> TAKE n \in 0..PerRank
    <3>1. CASE n = 0
      BY <1>0, <1>3, <3>1 DEF IsAffine
    <3>2. CASE n # 0
      <4>1. n \in 1..PerRank
        BY <1>0, <3>2
      <4> QED
        BY <1>4, <3>2, <4>1
    <3> QED
      BY <3>1, <3>2
  <2>2. h = [n \in 0..PerRank |-> h[n]]
    BY <1>3 DEF IsAffine, IsFunction
  <2> QED
    BY <2>1, <2>2
<1>6. G = body(G)
  <2>1. G = CHOOSE S : S = body(S)
    BY Zenon DEF LocalState, KeyValues
  <2> HIDE DEF body, G
  <2> QED
    BY <1>5, <2>1
<1>7. \A n \in 0..PerRank :
        G[n] = IF n = 0 THEN 0
               ELSE (ChunkDecay(r, n - 1, i) * (G[n - 1] + KeyValues(r, p, n - 1, i, j))) % Prime
  <2> HIDE DEF G
  <2> QED
    BY <1>6
<1> HIDE DEF G, body
<1>8. \A n \in 0..(PerRank - 1) :
        G[n + 1] = Res(ChunkDecay(r, n, i) * (G[n] + KeyValues(r, p, n, i, j)))
  <2> TAKE n \in 0..(PerRank - 1)
  <2>1. n + 1 \in 0..PerRank /\ n + 1 # 0 /\ (n + 1) - 1 = n
    BY <1>0
  <2> QED
    BY <1>7, <2>1 DEF Res, Residue
<1>9. G[0] = 0
  BY <1>0, <1>7
<1>10. \A n \in 0..PerRank : G[n] \in Int
  <2>1. ASSUME NEW n \in 0..(PerRank - 1), G[n] \in Int PROVE G[n + 1] \in Int
    <3>1. PICK x \in Int, y \in Int, z \in Int :
            x = ChunkDecay(r, n, i) /\ y = KeyValues(r, p, n, i, j) /\ z = G[n]
      BY <1>1, <2>1
    <3>2. PICK w \in Int : w = x * (z + y)
      OBVIOUS
    <3> QED
      BY <1>8, <3>1, <3>2, ResRes
  <2>2. G[0] \in Int
    BY <1>9
  <2> QED
    BY <1>0, <2>1, <2>2, StepsTyped
<1> QED
  BY <1>8, <1>9, <1>10 DEF G

\* The state before chunk n of a device: the state it starts from, decayed by
\* the chunks before n, and what the walk from zero recorded.
LEMMA LocalRebuilds ==
  ASSUME Chosen, NEW r \in Devices, NEW p, IsBlocking(p), NEW i \in Keys, NEW j \in Values,
         NEW n \in 0..PerRank
  PROVE  Res(StateAt(input, FirstChunk(r) + n, i, j))
           = Res(DecayOf(input, FirstChunk(r), n, i) * StateAt(input, FirstChunk(r), i, j)
                   + LocalState(r, p, i, j)[n])
<1> DEFINE u == FirstChunk(r)
           l == LocalState(r, p, i, j)
           h == [m \in 0..PerRank |-> StateAt(input, u + m, i, j)]
           d == [m \in 0..PerRank |-> DecayOf(input, u, m, i)]
           a == [m \in 0..(PerRank - 1) |-> ChunkDecayAt(input, u + m, i)]
           b == [m \in 0..(PerRank - 1) |->
                   ChunkDecayAt(input, u + m, i) * KeyValues(r, p, m, i, j)]
<1>0. /\ PerRank \in Nat /\ Slice = 0..(PerRank - 1) /\ u \in Nat /\ u + PerRank <= P * N
      /\ IsInput(input) /\ P * N \in Nat
  BY ChosenIs, DevicesAre
<1>1. \A m \in 0..PerRank : u + m \in 0..(P * N)
  BY <1>0
<1>2. IntsUpTo(PerRank, h) /\ IntsUpTo(PerRank, l) /\ IntsUpTo(PerRank, d)
  <2>1. \A m \in 0..PerRank : h[m] \in Int
    BY <1>0, <1>1, StateAtIs
  <2>2. \A m \in 0..PerRank : l[m] \in Int
    BY LocalStateIs
  <2>3. \A m \in 0..PerRank : d[m] \in Int
    <3> TAKE m \in 0..PerRank
    <3>1. DecayOf(input, u, m, i) \in 0..(Prime - 1)
      BY <1>0, DecayOfIs
    <3> QED
      BY <3>1, Field
  <2> HIDE DEF h, l, d
  <2> QED
    BY <2>1, <2>2, <2>3 DEF IntsUpTo
<1>3. \A m \in 0..(PerRank - 1) :
        /\ a[m] = ChunkDecayAt(input, u + m, i) /\ a[m] = ChunkDecay(r, m, i)
        /\ b[m] = ChunkDecayAt(input, u + m, i) * KeyValues(r, p, m, i, j)
        /\ a[m] \in Int /\ KeyValues(r, p, m, i, j) \in Int
  <2> TAKE m \in 0..(PerRank - 1)
  <2>1. m \in Slice
    BY <1>0
  <2>2. ChunkDecayAt(input, u + m, i) \in Int
    BY <1>0, DecayOfIs
  <2>3. KeyValues(r, p, m, i, j) \in Int
    BY <2>1, KeyValuesIs
  <2>4. ChunkDecay(r, m, i) = ChunkDecayAt(input, u + m, i)
    BY <2>1, ChunkDecayIs
  <2> QED
    BY <2>2, <2>3, <2>4
<1>4. IntsBelow(PerRank, a) /\ IntsBelow(PerRank, b)
  <2>1. \A m \in 0..(PerRank - 1) : b[m] \in Int
    <3> TAKE m \in 0..(PerRank - 1)
    <3>1. PICK x \in Int, y \in Int : x = a[m] /\ y = KeyValues(r, p, m, i, j)
      BY <1>3
    <3>2. b[m] = x * y
      BY <1>3, <3>1
    <3> QED
      BY <3>1, <3>2
  <2> HIDE DEF a, b
  <2> QED
    BY <1>3, <2>1 DEF IntsBelow
<1>5. Advances(PerRank, h, a, b)
  <2> SUFFICES ASSUME NEW m \in 0..(PerRank - 1) PROVE Res(h[m + 1]) = Res(a[m] * h[m] + b[m])
    BY DEF Advances
  <2>1. m \in Slice /\ m + 1 \in 0..PerRank /\ m \in 0..PerRank /\ u + (m + 1) = (u + m) + 1
    BY <1>0
  <2>2. Res(StateAt(input, (u + m) + 1, i, j))
          = Res(ChunkDecayAt(input, u + m, i) * StateAt(input, u + m, i, j)
                  + ChunkDecayAt(input, u + m, i) * KeyValues(r, p, m, i, j))
    BY <2>1, KeyValuesIs
  <2>3. h[m] = StateAt(input, u + m, i, j) /\ h[m + 1] = StateAt(input, (u + m) + 1, i, j)
    BY <2>1
  <2> QED
    BY <1>3, <2>2, <2>3
<1>6. Advances(PerRank, l, a, b)
  <2> SUFFICES ASSUME NEW m \in 0..(PerRank - 1) PROVE Res(l[m + 1]) = Res(a[m] * l[m] + b[m])
    BY DEF Advances
  <2>1. m \in 0..PerRank /\ m + 1 \in 0..PerRank
    BY <1>0
  <2>2. l[m + 1] = Res(ChunkDecay(r, m, i) * (l[m] + KeyValues(r, p, m, i, j)))
    BY LocalStateIs
  <2>3. PICK x \in Int, y \in Int, z \in Int :
          x = a[m] /\ y = KeyValues(r, p, m, i, j) /\ z = l[m]
    BY <1>2, <1>3, <2>1 DEF IntsUpTo
  <2>4. x * z + x * y = x * (z + y)
    OBVIOUS
  <2>5. PICK w \in Int : w = x * (z + y)
    OBVIOUS
  <2>6. l[m + 1] = Res(w) /\ a[m] * l[m] + b[m] = w
    <3> HIDE DEF l, a, b
    <3> QED
      BY <1>3, <2>2, <2>3, <2>4, <2>5
  <2> QED
    BY <2>6, ResRes
<1>7. Shrinks(PerRank, d, a)
  <2> SUFFICES ASSUME NEW m \in 0..(PerRank - 1) PROVE Res(d[m + 1]) = Res(a[m] * d[m])
    BY DEF Shrinks
  <2>1. m \in 0..PerRank /\ m + 1 \in 0..PerRank
    BY <1>0
  <2>2. DecayOf(input, u, m + 1, i) = Res(DecayOf(input, u, m, i) * ChunkDecayAt(input, u + m, i))
    BY <1>0, DecayOfIs
  <2>3. PICK x \in Int, z \in Int : x = a[m] /\ z = d[m]
    BY <1>2, <1>3, <2>1 DEF IntsUpTo
  <2>4. PICK w \in Int : w = z * x /\ w = x * z
    OBVIOUS
  <2>5. d[m + 1] = Res(w) /\ a[m] * d[m] = w
    BY <1>3, <2>1, <2>2, <2>3, <2>4
  <2> QED
    BY <2>5, ResRes
<1>8. l[0] = 0 /\ d[0] = 1 /\ h[0] = StateAt(input, u, i, j)
  <2>1. l[0] = 0
    BY LocalStateIs
  <2>2. d[0] = 1
    BY <1>0, DecayOfIs
  <2>3. u + 0 = u
    BY <1>0
  <2> QED
    BY <1>0, <2>1, <2>2, <2>3
<1>9. h[n] = StateAt(input, u + n, i, j) /\ d[n] = DecayOf(input, u, n, i)
  OBVIOUS
<1> HIDE DEF h, l, d, a, b, u
<1>10. Res(h[n]) = Res(d[n] * h[0] + l[n])
  BY <1>0, <1>2, <1>4, <1>5, <1>6, <1>7, <1>8, Compose
<1> QED
  BY <1>8, <1>9, <1>10 DEF l, u

-----------------------------------------------------------------------------
(* The gradients of the states *)

LEMMA IntoAtIs ==
  ASSUME NEW in, IsInput(in), NEW i \in Keys, NEW j \in Values
  PROVE  /\ IntoAt(in, P * N, i, j) = 0
         /\ \A u \in 0..(P * N) : /\ IntoAt(in, u, i, j) \in Int
                                  /\ Res(IntoAt(in, u, i, j)) = IntoAt(in, u, i, j)
<1>0. P \in Nat \ {0} /\ N \in Nat \ {0} /\ C \in Nat \ {0} /\ P * N \in Nat \ {0}
  BY ShapeAssumption
<1>1. ASSUME NEW u \in 0..(P * N) PROVE u * C \in 0..T
  <2>1. CASE u = 0
    BY <1>0, <2>1, TIs
  <2>2. CASE u # 0
    <3>1. PICK w \in 0..(P * N - 1) : w + 1 = u
      <4>1. u - 1 \in 0..(P * N - 1) /\ (u - 1) + 1 = u
        BY <1>0, <2>2
      <4> QED
        BY <4>1
    <3>2. 0 \in Rows
      BY <1>0 DEF Rows
    <3>3. w * C \in Nat /\ w * C + C <= T
      BY <3>2, TokenOf
    <3>4. u * C = w * C + C
      BY <1>0, <3>1
    <3> QED
      BY <1>0, <3>3, <3>4, TIs
  <2> QED
    BY <2>1, <2>2
<1>2. T = (P * N) * C
  BY <1>0 DEF T, L
<1>3. ASSUME NEW u \in 0..(P * N)
      PROVE  IntoAt(in, u, i, j) \in Int /\ Res(IntoAt(in, u, i, j)) = IntoAt(in, u, i, j)
  <2>1. AdjointInto(in, i, j, u * C) \in 0..(Prime - 1)
    BY <1>1, AdjointIntoIs
  <2>2. PICK y \in 0..(Prime - 1) : y = AdjointInto(in, i, j, u * C)
    BY <2>1
  <2>3. y \in Int /\ y % Prime = y
    <3>1. Prime \in Nat \ {0}
      BY Field
    <3> QED
      BY <3>1
  <2> QED
    BY <2>2, <2>3 DEF IntoAt, Res, Residue
<1> QED
  BY <1>2, <1>3, AdjointIntoIs DEF IntoAt

\* dh holds what the output gradients add in each chunk of the m from u.
StateGrads(in, u, m, i, j, dh) ==
  \A n \in 0..(m - 1) :
    /\ dh[n] \in Int
    /\ Res(IntoAt(in, u + n, i, j))
         = Res(ChunkDecayAt(in, u + n, i) * IntoAt(in, (u + n) + 1, i, j) + dh[n])

LEMMA StateGradIs ==
  ASSUME Chosen, NEW r \in Devices, NEW n \in Slice, NEW i \in Keys, NEW j \in Values, NEW b,
         \A c \in Rows : b[n][c][i] = Exp(LogSums(input, FirstChunk(r) + n, i)[c + 1])
  PROVE  /\ StateGrad(r, b, n, i, j) \in Int
         /\ StateGrad(r, b, n, i, j) % Prime = StateGrad(r, b, n, i, j)
         /\ LET u == FirstChunk(r) + n
            IN Res(IntoAt(input, u, i, j))
                 = Res(ChunkDecayAt(input, u, i) * IntoAt(input, u + 1, i, j)
                         + StateGrad(r, b, n, i, j))
<1> DEFINE u == FirstChunk(r) + n
           e == LogSums(input, u, i)
           Term == [c \in Rows |-> Arg("q", r, n, c, i) * b[n][c][i] * Arg("dO", r, n, c, j)]
<1>0. C \in Nat \ {0} /\ Rows = 0..(C - 1)
  BY ShapeAssumption DEF Rows
<1>1. u \in 0..(P * N - 1) /\ IsInput(input)
  BY ChosenIs, DevicesAre
<1>2. \A x \in 0..(C - 1) :
        /\ Term[x] = input.q[u * C + x][i] * Exp(e[x + 1]) * input.dO[u * C + x][j]
        /\ Term[x] \in Int
  <2> TAKE x \in 0..(C - 1)
  <2>1. x \in Rows /\ x + 1 \in 0..C
    BY <1>0
  <2>2. b[n][x][i] = Exp(e[x + 1])
    BY <2>1
  <2>3. Exp(e[x + 1]) \in Int
    BY <1>1, <2>1, ChunkGates
  <2>5. /\ Arg("q", r, n, x, i) = input.q[u * C + x][i] /\ Arg("q", r, n, x, i) \in Int
        /\ Arg("dO", r, n, x, j) = input.dO[u * C + x][j] /\ Arg("dO", r, n, x, j) \in Int
    BY <2>1, ArgIs
  <2>6. Term[x] = Arg("q", r, n, x, i) * Exp(e[x + 1]) * Arg("dO", r, n, x, j)
    BY <2>1, <2>2
  <2>7. PICK y \in Int, z \in Int, d \in Int :
          y = Arg("q", r, n, x, i) /\ z = Exp(e[x + 1]) /\ d = Arg("dO", r, n, x, j)
    BY <2>3, <2>5
  <2>8. y * z * d \in Int
    OBVIOUS
  <2> HIDE DEF Term, e, u
  <2> QED
    BY <2>5, <2>6, <2>7, <2>8
<1>3. StateGrad(r, b, n, i, j) = Blocked(C, 1, Term) % Prime
  BY DEF StateGrad
<1> HIDE DEF Term
<1>4. PICK s : PlainSum(s, C, Term) /\ s[C] = Blocked(C, 1, Term)
  <2>1. IntsBelow(C, Term) /\ Divides(1, C)
    BY <1>0, <1>2 DEF IntsBelow, Divides
  <2> QED
    BY <1>0, <2>1, BlockedRun
<1>5. /\ s[0] = 0 /\ \A c \in 0..C : s[c] \in Int
      /\ \A c \in Rows :
           Res(s[c + 1]) = Res(s[c] + input.q[u * C + c][i] * Exp(LogSums(input, u, i)[c + 1])
                                        * input.dO[u * C + c][j])
  BY <1>0, <1>2, <1>4 DEF PlainSum
<1>6. Res(AdjointInto(input, i, j, u * C))
        = Res(Exp(LogSums(input, u, i)[C]) * AdjointInto(input, i, j, u * C + C) + s[C])
  <2> HIDE DEF u
  <2> QED
    BY <1>1, <1>5, ChunkAdjoint
<1>7. (u + 1) * C = u * C + C
  <2>1. PICK w \in Int : w = u
    BY <1>1
  <2>2. (w + 1) * C = w * C + C
    BY <1>0
  <2> QED
    BY <2>1, <2>2
<1>8. s[C] \in Int /\ StateGrad(r, b, n, i, j) = Res(s[C])
  BY <1>0, <1>3, <1>4, <1>5 DEF Res, Residue
<1>9. PICK x \in Int, y \in Int, z \in Int, w \in Int :
        /\ x = ChunkDecayAt(input, u, i) /\ y = IntoAt(input, u + 1, i, j)
        /\ z = s[C] /\ w = StateGrad(r, b, n, i, j)
  <2>1. u + 1 \in 0..(P * N)
    <3>1. P * N \in Nat
      BY ShapeAssumption
    <3> QED
      BY <1>1, <3>1
  <2> QED
    BY <1>1, <1>8, <2>1, ResRes, ChunkDecayTyped, IntoAtIs
<1>10. Res(z) = Res(w) /\ Res(w) = w
  BY <1>8, <1>9, ResRes
<1>11. Res(Affine(x, y, z)) = Res(Affine(x, y, w))
  BY <1>10, ResAffine
<1>12. Res(IntoAt(input, u, i, j)) = Res(x * y + w)
  BY <1>6, <1>7, <1>9, <1>11 DEF Affine, IntoAt, ChunkDecayAt
<1> HIDE DEF u
<1>13. StateGrad(r, b, n, i, j) % Prime = StateGrad(r, b, n, i, j)
  BY <1>9, <1>10 DEF Res, Residue
<1> QED
  BY <1>9, <1>12, <1>13 DEF u

\* The gradient of the state m chunks start from: that of the state they end
\* with, decayed, and the sum of what each chunk adds.
LEMMA AdjointComposes ==
  ASSUME NEW in, IsInput(in), NEW u \in Nat, NEW m \in Nat, u + m <= P * N,
         NEW i \in Keys, NEW j \in Values, NEW dh, StateGrads(in, u, m, i, j, dh),
         NEW f, \A n \in 0..(m - 1) : f[n] = dh[n] * DecayOf(in, u, n, i)
  PROVE  /\ SumOf(m, f) \in Int
         /\ Res(IntoAt(in, u, i, j))
              = Res(DecayOf(in, u, m, i) * IntoAt(in, u + m, i, j) + SumOf(m, f))
<1> DEFINE h == [n \in 0..m |-> IntoAt(in, u + n, i, j)]
           d == [n \in 0..m |-> DecayOf(in, u, n, i)]
           a == [n \in 0..(m - 1) |-> ChunkDecayAt(in, u + n, i)]
           b == [n \in 0..(m - 1) |-> dh[n]]
<1>0. P * N \in Nat
  BY ShapeAssumption
<1>1. \A n \in 0..m : /\ h[n] = IntoAt(in, u + n, i, j) /\ d[n] = DecayOf(in, u, n, i)
                      /\ h[n] \in Int /\ d[n] \in Int
  <2> TAKE n \in 0..m
  <2>1. u + n \in 0..(P * N)
    BY <1>0
  <2>2. DecayOf(in, u, n, i) \in 0..(Prime - 1)
    BY DecayOfIs
  <2>3. DecayOf(in, u, n, i) \in Int
    BY <2>2, Field
  <2>4. IntoAt(in, u + n, i, j) \in Int
    BY <2>1, IntoAtIs
  <2> QED
    BY <2>3, <2>4
<1>2. \A n \in 0..(m - 1) : /\ a[n] = ChunkDecayAt(in, u + n, i) /\ b[n] = dh[n]
                            /\ a[n] \in Int /\ b[n] \in Int
                            /\ d[n + 1] = Res(d[n] * a[n])
  <2> TAKE n \in 0..(m - 1)
  <2>1. n + 1 \in 0..m
    OBVIOUS
  <2>2. /\ ChunkDecayAt(in, u + n, i) \in Int
        /\ DecayOf(in, u, n + 1, i) = Res(DecayOf(in, u, n, i) * ChunkDecayAt(in, u + n, i))
    BY DecayOfIs
  <2> QED
    BY <2>1, <2>2 DEF StateGrads
<1>3. d[0] = 1 /\ h[0] = IntoAt(in, u, i, j)
  <2>2. DecayOf(in, u, 0, i) = 1
    BY DecayOfIs
  <2>1. DecayOf(in, u, 0, i) = 1 /\ u + 0 = u
    BY <2>2
  <2> QED
    BY <2>1
<1>4. Retreats(m, h, a, b)
  <2> SUFFICES ASSUME NEW n \in 0..(m - 1) PROVE Res(h[n]) = Res(a[n] * h[n + 1] + b[n])
    BY DEF Retreats
  <2>1. n \in 0..m /\ n + 1 \in 0..m /\ u + (n + 1) = (u + n) + 1
    OBVIOUS
  <2>2. Res(IntoAt(in, u + n, i, j))
          = Res(ChunkDecayAt(in, u + n, i) * IntoAt(in, (u + n) + 1, i, j) + dh[n])
    BY DEF StateGrads
  <2>3. h[n + 1] = IntoAt(in, (u + n) + 1, i, j)
    BY <2>1
  <2> HIDE DEF h, a, b
  <2> QED
    BY <1>1, <1>2, <2>1, <2>2, <2>3
<1> HIDE DEF h, d, a, b
<1>5. IntsUpTo(m, h) /\ IntsUpTo(m, d) /\ IntsBelow(m, a) /\ IntsBelow(m, b)
  BY <1>1, <1>2 DEF IntsUpTo, IntsBelow
<1>6. \A n \in 0..(m - 1) : f[n] \in Int /\ f[n] = b[n] * d[n]
  <2> TAKE n \in 0..(m - 1)
  <2>1. n \in 0..m
    OBVIOUS
  <2>2. PICK x \in Int, y \in Int : x = b[n] /\ y = d[n]
    BY <1>1, <1>2, <2>1
  <2>3. f[n] = x * y
    BY <1>1, <1>2, <2>1, <2>2
  <2> QED
    BY <2>2, <2>3
<1>7. PICK w : ModSum(w, m, f) /\ w[m] = SumOf(m, f)
  <2>1. IntsBelow(m, f)
    BY <1>6 DEF IntsBelow
  <2> QED
    BY <2>1, SumIs
<1>8. IntsUpTo(m, w) /\ w[0] = 0
  BY <1>7 DEF ModSum, IntsUpTo
<1>9. Gathers(m, w, d, b)
  <2> SUFFICES ASSUME NEW n \in 0..(m - 1) PROVE Res(w[n + 1]) = Res(d[n] * b[n] + w[n])
    BY DEF Gathers
  <2>1. n \in 0..m
    OBVIOUS
  <2>2. PICK x \in Int, y \in Int, z \in Int : x = b[n] /\ y = d[n] /\ z = w[n]
    BY <1>1, <1>2, <1>8, <2>1 DEF IntsUpTo
  <2>3. w[n + 1] = Res(w[n] + f[n])
    BY <1>7 DEF ModSum
  <2>4. z + x * y = y * x + z
    OBVIOUS
  <2>5. PICK v \in Int : v = y * x + z
    OBVIOUS
  <2>6. w[n + 1] = Res(v) /\ d[n] * b[n] + w[n] = v
    BY <1>6, <2>2, <2>3, <2>4, <2>5
  <2> QED
    BY <2>6, ResRes
<1>10. Shrinks(m, d, a)
  <2> SUFFICES ASSUME NEW n \in 0..(m - 1) PROVE Res(d[n + 1]) = Res(a[n] * d[n])
    BY DEF Shrinks
  <2>1. n \in 0..m
    OBVIOUS
  <2>2. PICK x \in Int, z \in Int : x = a[n] /\ z = d[n]
    BY <1>1, <1>2, <2>1
  <2>3. PICK v \in Int : v = z * x /\ v = x * z
    OBVIOUS
  <2>4. d[n + 1] = Res(v) /\ a[n] * d[n] = v
    BY <1>2, <2>2, <2>3
  <2> QED
    BY <2>4, ResRes
<1>11. m \in 0..m
  OBVIOUS
<1>12. Res(h[0]) = Res(d[m] * h[m] + w[m])
  BY <1>3, <1>4, <1>5, <1>8, <1>9, <1>10, <1>11, ComposeBack
<1>13. w[m] \in Int
  BY <1>8, <1>11 DEF IntsUpTo
<1> QED
  BY <1>1, <1>3, <1>7, <1>11, <1>12, <1>13

\* The reverse walk from the gradient of the last state goes through those of
\* all the others.
LEMMA ReverseWalkIs ==
  ASSUME Chosen, NEW r \in Devices, NEW i \in Keys, NEW j \in Values, NEW end, NEW added,
         StateGrads(input, FirstChunk(r), PerRank, i, j, added),
         end = IntoAt(input, FirstChunk(r) + PerRank, i, j)
  PROVE  \A n \in Slice :
           ReverseWalk(r, i, end, added)[n]
             = (ChunkDecay(r, n, i) * IntoAt(input, FirstChunk(r) + (n + 1), i, j)) % Prime
<1> DEFINE u == FirstChunk(r)
           body(d) == [n \in 0..PerRank |->
                         IF n = PerRank THEN end
                         ELSE (ChunkDecay(r, n, i) * d[n + 1] + added[n]) % Prime]
           G == CHOOSE d : d = body(d)
           h == [n \in 0..PerRank |-> IntoAt(input, u + n, i, j)]
<1>0. /\ PerRank \in Nat /\ Slice = 0..(PerRank - 1) /\ u \in Nat /\ u + PerRank <= P * N
      /\ IsInput(input) /\ P * N \in Nat
  BY ChosenIs, DevicesAre
<1> HIDE DEF u
<1>1. \A n \in 0..(PerRank - 1) :
        IntoAt(input, u + n, i, j)
          = (ChunkDecay(r, n, i) * IntoAt(input, u + (n + 1), i, j) + added[n]) % Prime
  <2> TAKE n \in 0..(PerRank - 1)
  <2>1. u + n \in 0..(P * N) /\ n \in Slice /\ u + (n + 1) = (u + n) + 1
    BY <1>0
  <2>2. IntoAt(input, u + n, i, j) = Res(IntoAt(input, u + n, i, j))
    BY <1>0, <2>1, IntoAtIs
  <2>3. Res(IntoAt(input, u + n, i, j))
          = Res(ChunkDecayAt(input, u + n, i) * IntoAt(input, (u + n) + 1, i, j) + added[n])
    BY DEF StateGrads, u
  <2>4. ChunkDecay(r, n, i) = ChunkDecayAt(input, u + n, i)
    BY <2>1, ChunkDecayIs DEF u
  <2> QED
    BY <2>1, <2>2, <2>3, <2>4 DEF Res, Residue
<1>2. h = body(h)
  <2>1. \A n \in 0..PerRank :
          h[n] = IF n = PerRank THEN end
                 ELSE (ChunkDecay(r, n, i) * h[n + 1] + added[n]) % Prime
    <3> TAKE n \in 0..PerRank
    <3>1. CASE n = PerRank
      BY <3>1 DEF u
    <3>2. CASE n # PerRank
      <4>1. n \in 0..(PerRank - 1) /\ n + 1 \in 0..PerRank
        BY <1>0, <3>2
      <4> QED
        BY <1>1, <3>2, <4>1
    <3> QED
      BY <3>1, <3>2
  <2> QED
    BY <2>1
<1>3. G = body(G)
  <2> HIDE DEF body, h
  <2> QED
    BY <1>2, Zenon
<1>4. \A n \in 0..PerRank :
        G[n] = IF n = PerRank THEN end ELSE (ChunkDecay(r, n, i) * G[n + 1] + added[n]) % Prime
  <2> HIDE DEF G
  <2> QED
    BY <1>3
<1>5. \A n \in Slice :
        ReverseWalk(r, i, end, added)[n] = (ChunkDecay(r, n, i) * G[n + 1]) % Prime
  <2>1. ReverseWalk(r, i, end, added) = [n \in Slice |-> (ChunkDecay(r, n, i) * G[n + 1]) % Prime]
    BY Zenon DEF ReverseWalk
  <2> HIDE DEF G
  <2> QED
    BY <2>1
<1> HIDE DEF G, body, h
<1>6. \A m \in Nat : m <= PerRank => G[PerRank - m] = IntoAt(input, u + (PerRank - m), i, j)
  <2> DEFINE S == {m \in Nat : m <= PerRank =>
                     G[PerRank - m] = IntoAt(input, u + (PerRank - m), i, j)}
  <2>1. 0 \in S
    <3>1. PerRank - 0 = PerRank /\ PerRank \in 0..PerRank
      BY <1>0
    <3>2. G[PerRank] = end
      BY <1>4, <3>1
    <3> QED
      BY <3>1, <3>2 DEF u
  <2>2. ASSUME NEW m \in Nat, m \in S PROVE m + 1 \in S
    <3> SUFFICES ASSUME m + 1 <= PerRank
                 PROVE  G[PerRank - (m + 1)] = IntoAt(input, u + (PerRank - (m + 1)), i, j)
      OBVIOUS
    <3>1. PICK n \in 0..(PerRank - 1) :
            n = PerRank - (m + 1) /\ n + 1 = PerRank - m /\ n # PerRank /\ n \in 0..PerRank
      <4>1. PerRank - (m + 1) \in 0..(PerRank - 1) /\ (PerRank - (m + 1)) + 1 = PerRank - m
        BY <1>0
      <4> QED
        BY <1>0, <4>1
    <3>2. G[n + 1] = IntoAt(input, u + (n + 1), i, j)
      BY <1>0, <2>2, <3>1
    <3>3. G[n] = (ChunkDecay(r, n, i) * G[n + 1] + added[n]) % Prime
      BY <1>4, <3>1
    <3> QED
      BY <1>1, <3>1, <3>2, <3>3
  <2> HIDE DEF S
  <2>3. Nat \subseteq S
    BY <2>1, <2>2, SetInduction
  <2> QED
    BY <2>3 DEF S
<1>7. \A n \in Slice : G[n + 1] = IntoAt(input, u + (n + 1), i, j)
  <2> TAKE n \in Slice
  <2>1. PICK m \in Nat : m = PerRank - (n + 1) /\ m <= PerRank /\ PerRank - m = n + 1
    <3>1. PerRank - (n + 1) \in Nat /\ PerRank - (PerRank - (n + 1)) = n + 1
      BY <1>0
    <3> QED
      BY <1>0, <3>1
  <2> QED
    BY <1>6, <2>1
<1> QED
  BY <1>5, <1>7 DEF u

-----------------------------------------------------------------------------
(* The rows of a block of a ring *)

LEMMA BlocksCover ==
  ASSUME Chosen, NEW i \in Keys
  PROVE  \E kk \in 0..(plan.k - 1) : i \in BlockRows(kk)
<1> DEFINE k == plan.k
           size == DK \div k
<1>0. k \in Nat \ {0} /\ DK % k = 0 /\ DK \in Nat \ {0} /\ Keys = 0..(DK - 1)
  BY ChosenIs DEF Keys
<1>1. PICK z \in Int : z = size /\ DK = k * z
  <2>1. DK = k * (DK \div k) + (DK % k) /\ DK \div k \in Int
    BY <1>0
  <2>2. PICK z \in Int : z = DK \div k
    BY <2>1
  <2> QED
    BY <1>0, <2>1, <2>2
<1>2. z > 0
  BY <1>0, <1>1
<1> HIDE DEF k, size
<1>3. PICK a \in Int, b \in Int : i = z * a + b /\ b \in 0..(z - 1)
  <2>1. i \in Nat
    BY <1>0
  <2>2. i = z * (i \div z) + (i % z) /\ i \div z \in Int /\ i % z \in 0..(z - 1)
    BY <1>2, <2>1
  <2>3. PICK a \in Int, b \in 0..(z - 1) : a = i \div z /\ b = i % z
    BY <2>2
  <2>4. i = z * a + b /\ b \in Int
    BY <2>2, <2>3
  <2> QED
    BY <2>3, <2>4
<1>4. a \in 0..(k - 1)
  <2>1. z * a + b \in 0..(k * z - 1)
    BY <1>0, <1>1, <1>3
  <2>2. a >= 0
    <3>1. a < 0 => z * a <= -z
      BY <1>2
    <3> QED
      BY <1>2, <1>3, <2>1, <3>1
  <2>3. a < k
    <3>1. PICK w \in Int : w = a - k /\ a = k + w
      BY <1>0
    <3>2. z * a = k * z + z * w
      BY <1>0, <3>1
    <3>3. w >= 0 => z * w >= 0
      BY <1>2
    <3> QED
      BY <1>0, <1>2, <1>3, <2>1, <3>1, <3>2, <3>3
  <2> QED
    BY <1>0, <2>2, <2>3
<1>5. a * z = z * a
  OBVIOUS
<1>6. i \in (a * z)..(a * z + z - 1)
  BY <1>2, <1>3, <1>5
<1> QED
  BY <1>1, <1>4, <1>6 DEF BlockRows, k, size

-----------------------------------------------------------------------------
(* What the kernels record *)

WalkRecords(in, u, m, snap, decay, total) ==
  \A i \in Keys, j \in Values :
    /\ \A n \in 0..(m - 1) :
         /\ decay[n][i] = DecayOf(in, u, n, i) /\ snap[n][i][j] \in Int
         /\ Res(StateAt(in, u + n, i, j))
              = Res(DecayOf(in, u, n, i) * StateAt(in, u, i, j) + snap[n][i][j])
    /\ total[i][j] \in Int
    /\ Res(StateAt(in, u + m, i, j))
         = Res(DecayOf(in, u, m, i) * StateAt(in, u, i, j) + total[i][j])

DecayRecords(in, u, m, b) ==
  \A n \in 0..(m - 1), c \in Rows, i \in Keys : b[n][c][i] = Exp(LogSums(in, u + n, i)[c + 1])

AdjointRecords(in, u, m, dH, dS) ==
  \A i \in Keys, j \in Values :
    /\ StateGrads(in, u, m, i, j, [n \in 0..(m - 1) |-> dH[n][i][j]])
    /\ dS[i][j] \in Int
    /\ Res(IntoAt(in, u, i, j)) = Res(DecayOf(in, u, m, i) * IntoAt(in, u + m, i, j) + dS[i][j])

LEMMA NamedAt ==
  ASSUME NEW key, NEW x
  PROVE  DOMAIN Named(key, x) = {key} /\ Named(key, x)[key] = x
BY DEF Named

LEMMA OverNamed ==
  ASSUME NEW key, NEW x, NEW h
  PROVE  /\ DOMAIN Over(Named(key, x), h) = {key} \cup DOMAIN h
         /\ Over(Named(key, x), h)[key] = x
         /\ \A y \in DOMAIN h : y # key => Over(Named(key, x), h)[y] = h[y]
<1> DEFINE t == Named(key, x)
<1>1. DOMAIN t = {key} /\ t[key] = x
  BY NamedAt
<1> HIDE DEF t
<1>2. /\ DOMAIN Over(t, h) = DOMAIN t \cup DOMAIN h
      /\ \A y \in DOMAIN t : Over(t, h)[y] = t[y]
      /\ \A y \in DOMAIN h \ DOMAIN t : Over(t, h)[y] = h[y]
  BY OverAt
<1>3. /\ DOMAIN Over(t, h) = {key} \cup DOMAIN h /\ Over(t, h)[key] = x
      /\ \A y \in DOMAIN h : y # key => Over(t, h)[y] = h[y]
  BY <1>1, <1>2
<1> QED
  BY <1>3 DEF t

LEMMA WalkIs ==
  ASSUME Chosen, NEW r \in Devices, NEW p, IsBlocking(p), NEW decays \in {"Gsnap", "Cprev"}
  PROVE  /\ DOMAIN Walk(r, p, decays) = {<<"Ssnap", r>>, <<decays, r>>, <<"Stot", r>>}
         /\ WalkRecords(input, FirstChunk(r), PerRank, Walk(r, p, decays)[<<"Ssnap", r>>],
                        Walk(r, p, decays)[<<decays, r>>], Walk(r, p, decays)[<<"Stot", r>>])
<1> DEFINE Snap(n, i, j) == LocalState(r, p, i, j)[n]
           End(i, j)     == LocalState(r, p, i, j)[PerRank]
           Decay(n, i)   == DecayBefore(r, i)[n]
           snap == ByChunk(Keys, Values, Snap)
           decay == Vectors(Decay)
           total == Matrix(Keys, Values, End)
           w == Walk(r, p, decays)
           u == FirstChunk(r)
<1>0. /\ PerRank \in Nat /\ Slice = 0..(PerRank - 1) /\ u \in Nat /\ u + PerRank <= P * N
      /\ IsInput(input) /\ P * N \in Nat
  BY ChosenIs, DevicesAre
<1>1. w = Over(Named(<<"Ssnap", r>>, snap),
            Over(Named(<<decays, r>>, decay), Named(<<"Stot", r>>, total)))
  BY DEF Walk
<1> HIDE DEF snap, decay, total, w
<1>2. /\ DOMAIN w = {<<"Ssnap", r>>, <<decays, r>>, <<"Stot", r>>}
      /\ w[<<"Ssnap", r>>] = snap /\ w[<<decays, r>>] = decay /\ w[<<"Stot", r>>] = total
  <2> DEFINE t1 == Named(<<"Ssnap", r>>, snap)
             t2 == Named(<<decays, r>>, decay)
             t3 == Named(<<"Stot", r>>, total)
             o == Over(t2, t3)
  <2>1. /\ DOMAIN t1 = {<<"Ssnap", r>>} /\ t1[<<"Ssnap", r>>] = snap
        /\ DOMAIN t2 = {<<decays, r>>} /\ t2[<<decays, r>>] = decay
        /\ DOMAIN t3 = {<<"Stot", r>>} /\ t3[<<"Stot", r>>] = total
    BY NamedAt
  <2> HIDE DEF t1, t2, t3
  <2>2. /\ DOMAIN o = DOMAIN t2 \cup DOMAIN t3
        /\ \A key \in DOMAIN t2 : o[key] = t2[key]
        /\ \A key \in DOMAIN t3 \ DOMAIN t2 : o[key] = t3[key]
    BY OverAt
  <2>3. /\ DOMAIN Over(t1, o) = DOMAIN t1 \cup DOMAIN o
        /\ \A key \in DOMAIN t1 : Over(t1, o)[key] = t1[key]
        /\ \A key \in DOMAIN o \ DOMAIN t1 : Over(t1, o)[key] = o[key]
    BY OverAt
  <2>4. w = Over(t1, o)
    BY <1>1 DEF t1, t2, t3
  <2> HIDE DEF o
  <2> QED
    BY <2>1, <2>2, <2>3, <2>4
<1>3. ASSUME NEW i \in Keys, NEW j \in Values, NEW n \in 0..(PerRank - 1)
      PROVE  /\ decay[n][i] = DecayOf(input, u, n, i) /\ snap[n][i][j] \in Int
             /\ Res(StateAt(input, u + n, i, j))
                  = Res(DecayOf(input, u, n, i) * StateAt(input, u, i, j) + snap[n][i][j])
  <2>0. n \in 0..PerRank /\ n \in Slice
    BY <1>0
  <2>1. snap[n][i][j] = LocalState(r, p, i, j)[n] % Prime
    BY <2>0 DEF snap, ByChunk, Matrix
  <2>2. decay[n][i] = DecayBefore(r, i)[n] % Prime
    BY <2>0 DEF decay, Vectors
  <2>3. DecayBefore(r, i)[n] = DecayOf(input, u, n, i) /\ DecayOf(input, u, n, i) \in 0..(Prime - 1)
    BY <1>0, <2>0, DecayBeforeIs, DecayOfIs
  <2>4. PICK d \in 0..(Prime - 1) : d = DecayOf(input, u, n, i)
    BY <2>3
  <2>5. d % Prime = d /\ d \in Int
    <3>1. Prime \in Nat \ {0}
      BY Field
    <3> QED
      BY <3>1
  <2>6. PICK l \in Int : l = LocalState(r, p, i, j)[n]
    BY <2>0, LocalStateIs
  <2>7. PICK s \in Int, l1 \in Int : s = StateAt(input, u, i, j) /\ l1 = snap[n][i][j] /\ l1 = Res(l)
    <3>1. Res(l) \in Int /\ u \in 0..(P * N)
      BY <1>0, ResRes
    <3>2. StateAt(input, u, i, j) \in Int
      BY <1>0, <3>1, StateAtIs
    <3> QED
      BY <2>1, <2>6, <3>1, <3>2 DEF Res, Residue
  <2>8. Res(StateAt(input, u + n, i, j)) = Res(d * s + l)
    BY <2>0, <2>4, <2>6, <2>7, LocalRebuilds
  <2>9. Res(Affine(d, s, l)) = Res(Affine(d, s, l1))
    <3>1. Res(l1) = Res(l)
      BY <2>7, ResRes
    <3> QED
      BY <2>5, <3>1, ResAffine
  <2> QED
    BY <2>2, <2>3, <2>4, <2>5, <2>7, <2>8, <2>9 DEF Affine
<1>4. ASSUME NEW i \in Keys, NEW j \in Values
      PROVE  /\ total[i][j] \in Int
             /\ Res(StateAt(input, u + PerRank, i, j))
                  = Res(DecayOf(input, u, PerRank, i) * StateAt(input, u, i, j) + total[i][j])
  <2>0. PerRank \in 0..PerRank
    BY <1>0
  <2>1. total[i][j] = LocalState(r, p, i, j)[PerRank] % Prime
    BY DEF total, Matrix
  <2>3. DecayOf(input, u, PerRank, i) \in 0..(Prime - 1)
    BY <1>0, <2>0, DecayOfIs
  <2>4. PICK d \in Int : d = DecayOf(input, u, PerRank, i)
    BY <2>3, Field
  <2>6. PICK l \in Int : l = LocalState(r, p, i, j)[PerRank]
    BY <2>0, LocalStateIs
  <2>7. PICK s \in Int, l1 \in Int : s = StateAt(input, u, i, j) /\ l1 = total[i][j] /\ l1 = Res(l)
    <3>1. Res(l) \in Int /\ u \in 0..(P * N)
      BY <1>0, ResRes
    <3>2. StateAt(input, u, i, j) \in Int
      BY <1>0, <3>1, StateAtIs
    <3> QED
      BY <2>1, <2>6, <3>1, <3>2 DEF Res, Residue
  <2>8. Res(StateAt(input, u + PerRank, i, j)) = Res(d * s + l)
    BY <2>0, <2>4, <2>6, <2>7, LocalRebuilds
  <2>9. Res(Affine(d, s, l)) = Res(Affine(d, s, l1))
    <3>1. Res(l1) = Res(l)
      BY <2>7, ResRes
    <3> QED
      BY <3>1, ResAffine
  <2> QED
    BY <2>4, <2>7, <2>8, <2>9 DEF Affine
<1> HIDE DEF u
<1>5. WalkRecords(input, u, PerRank, snap, decay, total)
  BY <1>3, <1>4 DEF WalkRecords
<1> QED
  BY <1>2, <1>5 DEF w, u

LEMMA OutputAdjointsIs ==
  ASSUME Chosen, NEW r \in Devices, NEW p, NEW b,
         DecayRecords(input, FirstChunk(r), PerRank, b),
         \A n \in 0..(PerRank - 1), i \in Keys :
           Load("Cprev", r)[n][i] = DecayOf(input, FirstChunk(r), n, i)
  PROVE  LET t == OutputAdjoints(r, p, b)
         IN /\ DOMAIN t = {<<"dQ", r>>, <<"dKo", r>>, <<"dgcso", r>>, <<"dH", r>>, <<"dCp", r>>,
                           <<"dVo", r>>, <<"dSrecv", r>>}
            /\ AdjointRecords(input, FirstChunk(r), PerRank, t[<<"dH", r>>], t[<<"dSrecv", r>>])
<1> DEFINE dQ(n, c, i)    == QueryGrad(r, p, b, n, c, i)
           dKo(n, c, i)   == OutputKeyGrad(r, p, b, n, c, i)
           dgcs(n, c, i)  == dQ(n, c, i) * Arg("q", r, n, c, i) - dKo(n, c, i) * Arg("k", r, n, c, i)
           dH(n, i, j)    == StateGrad(r, b, n, i, j)
           dCp(n, i)      == LET Term[j \in Values] == dH(n, i, j) * Boundary(r, i, j)
                             IN Blocked(DV, p.nv, Term)
           dVo(n, x, j)   == LET Term[c \in Rows] == Scores(r, p, b, n, c, x) * Arg("dO", r, n, c, j)
                             IN Blocked(C, 1, Term)
           dSrecv(i, j)   == LET Term(n) == dH(n, i, j) * Load("Cprev", r)[n][i]
                             IN Total(PerRank, Term)
           x1 == ByChunk(Rows, Keys, dQ)
           x2 == ByChunk(Rows, Keys, dKo)
           x3 == ByChunk(Rows, Keys, dgcs)
           x4 == ByChunk(Keys, Values, dH)
           x5 == Vectors(dCp)
           x6 == ByChunk(Rows, Values, dVo)
           x7 == Matrix(Keys, Values, dSrecv)
           t == OutputAdjoints(r, p, b)
           u == FirstChunk(r)
<1>0. /\ PerRank \in Nat /\ Slice = 0..(PerRank - 1) /\ u \in Nat /\ u + PerRank <= P * N
      /\ IsInput(input) /\ P * N \in Nat
  BY ChosenIs, DevicesAre
<1>1. t = Over(Named(<<"dQ", r>>, x1), Over(Named(<<"dKo", r>>, x2), Over(Named(<<"dgcso", r>>, x3),
            Over(Named(<<"dH", r>>, x4), Over(Named(<<"dCp", r>>, x5), Over(Named(<<"dVo", r>>, x6),
                 Named(<<"dSrecv", r>>, x7)))))))
  BY Zenon DEF OutputAdjoints
<1> HIDE DEF x1, x2, x3, x4, x5, x6, x7, t
<1>2. /\ DOMAIN t = {<<"dQ", r>>, <<"dKo", r>>, <<"dgcso", r>>, <<"dH", r>>, <<"dCp", r>>,
                     <<"dVo", r>>, <<"dSrecv", r>>}
      /\ t[<<"dH", r>>] = x4 /\ t[<<"dSrecv", r>>] = x7
  <2> DEFINE k1 == <<"dQ", r>>
             k2 == <<"dKo", r>>
             k3 == <<"dgcso", r>>
             k4 == <<"dH", r>>
             k5 == <<"dCp", r>>
             k6 == <<"dVo", r>>
             k7 == <<"dSrecv", r>>
             t1 == Named(k1, x1)
             t2 == Named(k2, x2)
             t3 == Named(k3, x3)
             t4 == Named(k4, x4)
             t5 == Named(k5, x5)
             t6 == Named(k6, x6)
             t7 == Named(k7, x7)
             o6 == Over(t6, t7)
             o5 == Over(t5, o6)
             o4 == Over(t4, o5)
             o3 == Over(t3, o4)
             o2 == Over(t2, o3)
             o1 == Over(t1, o2)
  <2>1. k4 # k1 /\ k4 # k2 /\ k4 # k3 /\ k7 # k1 /\ k7 # k2 /\ k7 # k3 /\ k7 # k4 /\ k7 # k5 /\ k7 # k6
    OBVIOUS
  <2>2. t = o1
    BY <1>1
  <2>3. /\ DOMAIN t1 = {k1} /\ t1[k1] = x1
        /\ DOMAIN t2 = {k2} /\ t2[k2] = x2
        /\ DOMAIN t3 = {k3} /\ t3[k3] = x3
        /\ DOMAIN t4 = {k4} /\ t4[k4] = x4
        /\ DOMAIN t5 = {k5} /\ t5[k5] = x5
        /\ DOMAIN t6 = {k6} /\ t6[k6] = x6
        /\ DOMAIN t7 = {k7} /\ t7[k7] = x7
    BY NamedAt
  <2> HIDE DEF k1, k2, k3, k4, k5, k6, k7, t1, t2, t3, t4, t5, t6, t7
  <2>4. DOMAIN o6 = {k6, k7} /\ o6[k7] = x7
    <3>1. /\ DOMAIN o6 = DOMAIN t6 \cup DOMAIN t7
          /\ \A key \in DOMAIN t6 : o6[key] = t6[key]
          /\ \A key \in DOMAIN t7 \ DOMAIN t6 : o6[key] = t7[key]
      BY OverAt
    <3> HIDE DEF o6
    <3> QED
      BY <2>1, <2>3, <3>1
  <2> HIDE DEF o6
  <2>5. DOMAIN o5 = {k5, k6, k7} /\ o5[k7] = x7
    <3>1. /\ DOMAIN o5 = DOMAIN t5 \cup DOMAIN o6
          /\ \A key \in DOMAIN t5 : o5[key] = t5[key]
          /\ \A key \in DOMAIN o6 \ DOMAIN t5 : o5[key] = o6[key]
      BY OverAt
    <3> HIDE DEF o5
    <3> QED
      BY <2>1, <2>3, <2>4, <3>1
  <2> HIDE DEF o5
  <2>6. DOMAIN o4 = {k4, k5, k6, k7} /\ o4[k7] = x7 /\ o4[k4] = x4
    <3>1. /\ DOMAIN o4 = DOMAIN t4 \cup DOMAIN o5
          /\ \A key \in DOMAIN t4 : o4[key] = t4[key]
          /\ \A key \in DOMAIN o5 \ DOMAIN t4 : o4[key] = o5[key]
      BY OverAt
    <3> HIDE DEF o4
    <3> QED
      BY <2>1, <2>3, <2>5, <3>1
  <2> HIDE DEF o4
  <2>7. DOMAIN o3 = {k3, k4, k5, k6, k7} /\ o3[k7] = x7 /\ o3[k4] = x4
    <3>1. /\ DOMAIN o3 = DOMAIN t3 \cup DOMAIN o4
          /\ \A key \in DOMAIN t3 : o3[key] = t3[key]
          /\ \A key \in DOMAIN o4 \ DOMAIN t3 : o3[key] = o4[key]
      BY OverAt
    <3> HIDE DEF o3
    <3> QED
      BY <2>1, <2>3, <2>6, <3>1
  <2> HIDE DEF o3
  <2>8. DOMAIN o2 = {k2, k3, k4, k5, k6, k7} /\ o2[k7] = x7 /\ o2[k4] = x4
    <3>1. /\ DOMAIN o2 = DOMAIN t2 \cup DOMAIN o3
          /\ \A key \in DOMAIN t2 : o2[key] = t2[key]
          /\ \A key \in DOMAIN o3 \ DOMAIN t2 : o2[key] = o3[key]
      BY OverAt
    <3> HIDE DEF o2
    <3> QED
      BY <2>1, <2>3, <2>7, <3>1
  <2> HIDE DEF o2
  <2>9. DOMAIN o1 = {k1, k2, k3, k4, k5, k6, k7} /\ o1[k7] = x7 /\ o1[k4] = x4
    <3>1. /\ DOMAIN o1 = DOMAIN t1 \cup DOMAIN o2
          /\ \A key \in DOMAIN t1 : o1[key] = t1[key]
          /\ \A key \in DOMAIN o2 \ DOMAIN t1 : o1[key] = o2[key]
      BY OverAt
    <3> HIDE DEF o1
    <3> QED
      BY <2>1, <2>3, <2>8, <3>1
  <2> HIDE DEF o1
  <2> QED
    BY <2>2, <2>9 DEF k1, k2, k3, k4, k5, k6, k7
<1>3. ASSUME NEW i \in Keys, NEW j \in Values
      PROVE  /\ StateGrads(input, u, PerRank, i, j, [n \in 0..(PerRank - 1) |-> x4[n][i][j]])
             /\ x7[i][j] \in Int
             /\ Res(IntoAt(input, u, i, j))
                  = Res(DecayOf(input, u, PerRank, i) * IntoAt(input, u + PerRank, i, j) + x7[i][j])
  <2> DEFINE dh == [n \in 0..(PerRank - 1) |-> x4[n][i][j]]
             f == [n \in 0..(PerRank - 1) |-> StateGrad(r, b, n, i, j) * Load("Cprev", r)[n][i]]
  <2>1. \A n \in 0..(PerRank - 1) :
          /\ x4[n][i][j] = StateGrad(r, b, n, i, j) /\ StateGrad(r, b, n, i, j) \in Int
          /\ Res(IntoAt(input, u + n, i, j))
               = Res(ChunkDecayAt(input, u + n, i) * IntoAt(input, (u + n) + 1, i, j)
                       + StateGrad(r, b, n, i, j))
    <3> TAKE n \in 0..(PerRank - 1)
    <3>1. n \in Slice
      BY <1>0
    <3>2. \A c \in Rows : b[n][c][i] = Exp(LogSums(input, u + n, i)[c + 1])
      BY DEF DecayRecords
    <3>3. /\ StateGrad(r, b, n, i, j) \in Int
          /\ StateGrad(r, b, n, i, j) % Prime = StateGrad(r, b, n, i, j)
          /\ Res(IntoAt(input, u + n, i, j))
               = Res(ChunkDecayAt(input, u + n, i) * IntoAt(input, (u + n) + 1, i, j)
                       + StateGrad(r, b, n, i, j))
      BY <3>1, <3>2, StateGradIs
    <3>4. x4[n][i][j] = StateGrad(r, b, n, i, j) % Prime
      BY <3>1 DEF x4, ByChunk, Matrix
    <3> QED
      BY <3>3, <3>4
  <2>2. StateGrads(input, u, PerRank, i, j, dh)
    BY <2>1 DEF StateGrads
  <2>3. \A n \in 0..(PerRank - 1) : f[n] = dh[n] * DecayOf(input, u, n, i)
    BY <2>1
  <2>4. x7[i][j] = SumOf(PerRank, f) % Prime
    BY DEF x7, Matrix, Total
  <2> HIDE DEF f, dh, u
  <2>5. /\ SumOf(PerRank, f) \in Int
        /\ Res(IntoAt(input, u, i, j))
             = Res(DecayOf(input, u, PerRank, i) * IntoAt(input, u + PerRank, i, j)
                     + SumOf(PerRank, f))
    BY <1>0, <2>2, <2>3, AdjointComposes
  <2>6. PICK l \in Int, l1 \in Int : l = SumOf(PerRank, f) /\ l1 = x7[i][j] /\ l1 = Res(l)
    BY <2>4, <2>5, ResRes DEF Res, Residue
  <2>7. PICK d \in Int, s \in Int :
          d = DecayOf(input, u, PerRank, i) /\ s = IntoAt(input, u + PerRank, i, j)
    <3>1. PerRank \in 0..PerRank /\ u + PerRank \in 0..(P * N)
      BY <1>0
    <3>2. DecayOf(input, u, PerRank, i) \in 0..(Prime - 1)
      BY <1>0, <3>1, DecayOfIs
    <3>3. IntoAt(input, u + PerRank, i, j) \in Int
      BY <1>0, <3>1, IntoAtIs
    <3>4. DecayOf(input, u, PerRank, i) \in Int
      BY <3>2, Field
    <3> QED
      BY <3>3, <3>4
  <2>8. Res(Affine(d, s, l)) = Res(Affine(d, s, l1))
    <3>1. Res(l1) = Res(l)
      BY <2>6, ResRes
    <3> QED
      BY <3>1, ResAffine
  <2> QED
    BY <2>2, <2>5, <2>6, <2>7, <2>8 DEF Affine, dh
<1> HIDE DEF u
<1>4. AdjointRecords(input, u, PerRank, x4, x7)
  BY <1>3 DEF AdjointRecords
<1> QED
  BY <1>2, <1>4 DEF t, u

\* b, computed again or recorded, is a residue already.
LEMMA DecaysRecord ==
  ASSUME Chosen, NEW r \in Devices, NEW p, IsBlocking(p), NEW b,
         \A n \in Slice, c \in Rows, i \in Keys : b[n][c][i] = WithinDecay(r, p, n, c, i) % Prime
  PROVE  DecayRecords(input, FirstChunk(r), PerRank, b)
<1> SUFFICES ASSUME NEW n \in 0..(PerRank - 1), NEW c \in Rows, NEW i \in Keys
             PROVE  b[n][c][i] = Exp(LogSums(input, FirstChunk(r) + n, i)[c + 1])
  BY DEF DecayRecords
<1>1. n \in Slice /\ FirstChunk(r) + n \in 0..(P * N - 1) /\ IsInput(input)
  BY ChosenIs, DevicesAre
<1>2. WithinDecay(r, p, n, c, i) = Exp(LogSums(input, FirstChunk(r) + n, i)[c + 1])
  BY <1>1, WithinDecayIs
<1>3. c + 1 \in 0..C
  BY ShapeAssumption DEF Rows
<1>4. Exp(LogSums(input, FirstChunk(r) + n, i)[c + 1]) \in 1..(Prime - 1)
  BY <1>1, <1>3, ChunkGates
<1>5. PICK y \in 1..(Prime - 1) : y = Exp(LogSums(input, FirstChunk(r) + n, i)[c + 1])
  BY <1>4
<1>6. y % Prime = y
  <2>1. Prime \in Nat \ {0}
    BY Field
  <2> QED
    BY <2>1
<1> QED
  BY <1>1, <1>2, <1>5, <1>6

-----------------------------------------------------------------------------
(* The fused programs, step by step *)

Multi == program.ranks # 1

\* What the first kernel of the program calls its decays.
DecayName == IF program.op = "forward" THEN "Gsnap" ELSE "Cprev"

\* Where a device stands in its script.
Typed(r) ==
  /\ at[r] \in Nat \ {0} /\ blk[r] \in 0..(plan.k - 1)
  /\ ~Multi \/ at[r] \notin {2, 4} => blk[r] = 0

WalkKept(r) ==
  at[r] >= 2 =>
    /\ Has("Ssnap", r) /\ Has(DecayName, r) /\ Has("Stot", r)
    /\ WalkRecords(input, FirstChunk(r), PerRank,
                   Load("Ssnap", r), Load(DecayName, r), Load("Stot", r))

WalkOnly(r) == \A d \in {"Gsnap", "Cprev"} : Has(d, r) => at[r] >= 2 /\ d = DecayName

DecaysKept(r) ==
  program.op = "backward" /\ at[r] >= 2 =>
    Has("Bs", r) /\ DecayRecords(input, FirstChunk(r), PerRank, Load("Bs", r))

\* A block that the forward ring gave is the state its device starts from.
BoundaryKept(r) ==
  \A kk \in 0..(plan.k - 1) :
    Multi /\ r # 0 /\ (at[r] >= 3 \/ (at[r] = 2 /\ kk < blk[r])) =>
      /\ Has("Srecv", r)
      /\ \A i \in BlockRows(kk) :
           /\ i \in DOMAIN Load("Srecv", r)
           /\ \A j \in Values : Load("Srecv", r)[i][j] = StateAt(input, FirstChunk(r), i, j)

AdjointsKept(r) ==
  program.op # "forward" /\ at[r] >= (IF Multi THEN 4 ELSE 3) =>
    /\ Has("dH", r) /\ Has("dSrecv", r)
    /\ AdjointRecords(input, FirstChunk(r), PerRank, Load("dH", r), Load("dSrecv", r))

\* A block that the reverse ring gave is the gradient of the state its device
\* ends with.
EndKept(r) ==
  \A kk \in 0..(plan.k - 1) :
    /\ Multi /\ program.op # "forward"
    /\ at[r] >= 5 \/ (at[r] = 4 /\ kk < blk[r])
    => /\ Has("dStot", r)
       /\ \A i \in BlockRows(kk) :
            /\ i \in DOMAIN Load("dStot", r)
            /\ \A j \in Values :
                 Load("dStot", r)[i][j] = IntoAt(input, FirstChunk(r) + PerRank, i, j)

ReverseKept(r) ==
  Has("dSl", r) =>
    \A n \in Slice, i \in Keys, j \in Values :
      Load("dSl", r)[n][i][j]
        = (ChunkDecayAt(input, FirstChunk(r) + n, i)
             * IntoAt(input, FirstChunk(r) + (n + 1), i, j)) % Prime

DeviceInv(r) ==
  /\ Typed(r) /\ WalkKept(r) /\ WalkOnly(r) /\ DecaysKept(r) /\ BoundaryKept(r)
  /\ AdjointsKept(r) /\ EndKept(r) /\ ReverseKept(r)

\* What a ring owes a device: the state it starts from, and the gradient of
\* the state it ends with.
Due(d, r, i, j) ==
  IF d = "forward" THEN StateAt(input, FirstChunk(r), i, j)
  ELSE IntoAt(input, FirstChunk(r) + PerRank, i, j)

BlockArrived(d, r, kk) ==
  \A i \in BlockRows(kk) :
    /\ i \in DOMAIN window[<<d, r>>]
    /\ \A j \in Values : window[<<d, r>>][i][j] = Due(d, r, i, j)

\* What has arrived is what the ring owes.
WindowInv ==
  /\ DOMAIN window = {"forward", "reverse"} \X Devices
  /\ DOMAIN signal = {"forward", "reverse"} \X Devices \X (0..(plan.k - 1))
  /\ \A d \in {"forward", "reverse"}, r \in Devices, kk \in 0..(plan.k - 1) :
       signal[<<d, r, kk>>] >= 1 => BlockArrived(d, r, kk)

PyptoInv ==
  /\ Chosen /\ DOMAIN at = Devices /\ DOMAIN blk = Devices
  /\ \A r \in Devices : DeviceInv(r)
  /\ WindowInv

LEMMA PyptoInit ==
  ASSUME Init
  PROVE  PyptoInv
<1>1. Chosen
  BY DEF Init, Chosen
<1>2. plan.k \in Nat \ {0}
  BY <1>1, ChosenIs
<1>3. DOMAIN at = Devices /\ DOMAIN blk = Devices /\ \A r \in Devices : at[r] = 1 /\ blk[r] = 0
  BY DEF Init
<1>4. \A nm, r : ~Has(nm, r)
  BY DEF Init, Has
<1>5. ASSUME NEW r \in Devices PROVE DeviceInv(r)
  <2>1. Typed(r)
    BY <1>2, <1>3 DEF Typed
  <2>2. WalkKept(r) /\ WalkOnly(r) /\ DecaysKept(r) /\ BoundaryKept(r)
    BY <1>3, <1>4 DEF WalkKept, WalkOnly, DecaysKept, BoundaryKept
  <2>3. AdjointsKept(r) /\ EndKept(r) /\ ReverseKept(r)
    BY <1>3, <1>4 DEF AdjointsKept, EndKept, ReverseKept
  <2> QED
    BY <2>1, <2>2, <2>3 DEF DeviceInv
<1>6. WindowInv
  <2>1. /\ DOMAIN window = {"forward", "reverse"} \X Devices
        /\ DOMAIN signal = {"forward", "reverse"} \X Devices \X (0..(plan.k - 1))
    BY DEF Init
  <2>2. \A d \in {"forward", "reverse"}, r \in Devices, kk \in 0..(plan.k - 1) :
          signal[<<d, r, kk>>] = 0
    BY DEF Init
  <2> QED
    BY <2>1, <2>2 DEF WindowInv
<1> QED
  BY <1>1, <1>3, <1>5, <1>6 DEF PyptoInv

\* The stage a device runs says where in the script it is.
StageAt(r) ==
  /\ Running(r) = "stage1" => at[r] = 1 /\ program.op = "forward"
  /\ Running(r) = "recompute" => at[r] = 1 /\ program.op = "backward"
  /\ Running(r) = "carried_recompute" => at[r] = 1 /\ program.op = "carried"
  /\ Running(r) \in {"first", "middle", "last"} =>
       Multi /\ at[r] = 2 /\ Running(r) = ForwardStep(r)
  /\ Running(r) = "stage2" => at[r] = (IF Multi THEN 3 ELSE 2) /\ program.op = "forward"
  /\ Running(r) = "grad_o" => at[r] = (IF Multi THEN 3 ELSE 2) /\ program.op = "backward"
  /\ Running(r) = "carried_grad_o" => at[r] = (IF Multi THEN 3 ELSE 2) /\ program.op = "carried"
  /\ Running(r) \in {"source", "bwd_middle", "terminal"} =>
       Multi /\ at[r] = 4 /\ program.op # "forward" /\ Running(r) = ReverseStep(r)
  /\ Running(r) = "grad_h" => at[r] = (IF Multi THEN 5 ELSE 3) /\ program.op = "backward"
  /\ Running(r) = "carried_grad_h" => at[r] = (IF Multi THEN 5 ELSE 3) /\ program.op = "carried"

LEMMA StageIs ==
  ASSUME Chosen, NEW r \in Devices, Typed(r)
  PROVE  StageAt(r)
<1>1. program.op \in {"forward", "backward", "carried"} /\ at[r] \in Nat \ {0}
  BY ChosenIs DEF Typed
<1>2. /\ ForwardStep(r) \in {"first", "middle", "last"}
      /\ ReverseStep(r) \in {"source", "bwd_middle", "terminal"}
  BY DEF ForwardStep, ReverseStep
<1>3. CASE program.op = "forward" /\ Multi
  <2>1. Script(r) = <<"stage1", ForwardStep(r), "stage2">>
    BY <1>3 DEF Script, FusedForward, Multi
  <2>2. \/ at[r] = 1 /\ Running(r) = "stage1"
        \/ at[r] = 2 /\ Running(r) = ForwardStep(r)
        \/ at[r] = 3 /\ Running(r) = "stage2"
        \/ Running(r) = "ended"
    BY <1>1, <2>1 DEF Running
  <2> QED
    BY <1>2, <1>3, <2>2 DEF StageAt
<1>4. CASE program.op = "forward" /\ ~Multi
  <2>1. Script(r) = <<"stage1", "stage2">>
    BY <1>4 DEF Script, FusedForwardP1, Multi
  <2>2. \/ at[r] = 1 /\ Running(r) = "stage1"
        \/ at[r] = 2 /\ Running(r) = "stage2"
        \/ Running(r) = "ended"
    BY <1>1, <2>1 DEF Running
  <2> QED
    BY <1>4, <2>2 DEF StageAt
<1>5. CASE program.op = "backward" /\ Multi
  <2>1. Script(r) = <<"recompute", ForwardStep(r), "grad_o", ReverseStep(r), "grad_h">>
    BY <1>5 DEF Script, FusedBackward, Multi
  <2>2. \/ at[r] = 1 /\ Running(r) = "recompute"
        \/ at[r] = 2 /\ Running(r) = ForwardStep(r)
        \/ at[r] = 3 /\ Running(r) = "grad_o"
        \/ at[r] = 4 /\ Running(r) = ReverseStep(r)
        \/ at[r] = 5 /\ Running(r) = "grad_h"
        \/ Running(r) = "ended"
    BY <1>1, <2>1 DEF Running
  <2> QED
    BY <1>2, <1>5, <2>2 DEF StageAt
<1>6. CASE program.op = "backward" /\ ~Multi
  <2>1. Script(r) = <<"recompute", "grad_o", "grad_h">>
    BY <1>6 DEF Script, FusedBackwardP1, Multi
  <2>2. \/ at[r] = 1 /\ Running(r) = "recompute"
        \/ at[r] = 2 /\ Running(r) = "grad_o"
        \/ at[r] = 3 /\ Running(r) = "grad_h"
        \/ Running(r) = "ended"
    BY <1>1, <2>1 DEF Running
  <2> QED
    BY <1>6, <2>2 DEF StageAt
<1>7. CASE program.op = "carried" /\ Multi
  <2>1. Script(r) = <<"carried_recompute", ForwardStep(r), "carried_grad_o", ReverseStep(r),
                      "carried_grad_h">>
    BY <1>7 DEF Script, CarriedBackward, Multi
  <2>2. \/ at[r] = 1 /\ Running(r) = "carried_recompute"
        \/ at[r] = 2 /\ Running(r) = ForwardStep(r)
        \/ at[r] = 3 /\ Running(r) = "carried_grad_o"
        \/ at[r] = 4 /\ Running(r) = ReverseStep(r)
        \/ at[r] = 5 /\ Running(r) = "carried_grad_h"
        \/ Running(r) = "ended"
    BY <1>1, <2>1 DEF Running
  <2> QED
    BY <1>2, <1>7, <2>2 DEF StageAt
<1>8. CASE program.op = "carried" /\ ~Multi
  <2>1. Script(r) = <<"carried_recompute", "carried_grad_o", "carried_grad_h">>
    BY <1>8 DEF Script, CarriedBackwardP1, Multi
  <2>2. \/ at[r] = 1 /\ Running(r) = "carried_recompute"
        \/ at[r] = 2 /\ Running(r) = "carried_grad_o"
        \/ at[r] = 3 /\ Running(r) = "carried_grad_h"
        \/ Running(r) = "ended"
    BY <1>1, <2>1 DEF Running
  <2> QED
    BY <1>8, <2>2 DEF StageAt
<1> QED
  BY <1>1, <1>3, <1>4, <1>5, <1>6, <1>7, <1>8

-----------------------------------------------------------------------------
(* What each kernel writes *)

LEMMA OverDomain ==
  ASSUME NEW t, NEW h
  PROVE  DOMAIN Over(t, h) = DOMAIN t \cup DOMAIN h
BY OverAt

LEMMA NamedDomain ==
  ASSUME NEW key, NEW x
  PROVE  DOMAIN Named(key, x) = {key}
BY NamedAt

LEMMA RecomputeIs ==
  ASSUME Chosen, NEW r \in Devices
  PROVE  /\ DOMAIN Recompute(r) = {<<"Ssnap", r>>, <<"Cprev", r>>, <<"Stot", r>>, <<"Bs", r>>}
         /\ WalkRecords(input, FirstChunk(r), PerRank, Recompute(r)[<<"Ssnap", r>>],
                        Recompute(r)[<<"Cprev", r>>], Recompute(r)[<<"Stot", r>>])
         /\ DecayRecords(input, FirstChunk(r), PerRank, Recompute(r)[<<"Bs", r>>])
<1> DEFINE B(n, c, i) == WithinDecay(r, plan, n, c, i)
           x == ByChunk(Rows, Keys, B)
           w == Walk(r, plan, "Cprev")
           b == Named(<<"Bs", r>>, x)
           t == Recompute(r)
<1>1. t = Over(w, b)
  BY DEF Recompute
<1>2. \A n \in Slice, c \in Rows, i \in Keys : x[n][c][i] = WithinDecay(r, plan, n, c, i) % Prime
  BY DEF ByChunk, Matrix
<1> HIDE DEF x
<1>3. DecayRecords(input, FirstChunk(r), PerRank, x)
  BY <1>2, ChosenIs, DecaysRecord
<1>4. /\ DOMAIN w = {<<"Ssnap", r>>, <<"Cprev", r>>, <<"Stot", r>>}
      /\ WalkRecords(input, FirstChunk(r), PerRank, w[<<"Ssnap", r>>], w[<<"Cprev", r>>],
                     w[<<"Stot", r>>])
  BY ChosenIs, WalkIs
<1>5. DOMAIN b = {<<"Bs", r>>} /\ b[<<"Bs", r>>] = x
  BY NamedAt
<1> HIDE DEF w, b, t
<1>6. /\ DOMAIN t = DOMAIN w \cup DOMAIN b
      /\ \A key \in DOMAIN w : t[key] = w[key]
      /\ \A key \in DOMAIN b \ DOMAIN w : t[key] = b[key]
  BY <1>1, OverAt
<1>7. /\ t[<<"Ssnap", r>>] = w[<<"Ssnap", r>>] /\ t[<<"Cprev", r>>] = w[<<"Cprev", r>>]
      /\ t[<<"Stot", r>>] = w[<<"Stot", r>>] /\ t[<<"Bs", r>>] = x
      /\ DOMAIN t = {<<"Ssnap", r>>, <<"Cprev", r>>, <<"Stot", r>>, <<"Bs", r>>}
  BY <1>4, <1>5, <1>6
<1> QED
  BY <1>3, <1>4, <1>7 DEF t

LEMMA StateAdjointsDomain ==
  ASSUME NEW r, NEW p, NEW b, NEW dSl, NEW dCv
  PROVE  DOMAIN StateAdjoints(r, p, b, dSl, dCv) = {<<"dA", r>>, <<"dK", r>>, <<"dV", r>>}
<1> DEFINE dA(n, c, i) == GateGrad(r, p, b, dSl, dCv, n, c, i)
           dK(n, c, i) == Load("dKo", r)[n][c][i] + StateKeyGrad(r, p, b, dSl, n, c, i)
           dV(n, c, j) ==
             LET Term[i \in Keys] == Quotient(Arg("k", r, n, c, i), b[n][c][i]) * dSl[n][i][j]
             IN Load("dVo", r)[n][c][j] + Blocked(DK, p.nb, Term)
           x1 == ByChunk(Rows, Keys, dA)
           x2 == ByChunk(Rows, Keys, dK)
           x3 == ByChunk(Rows, Values, dV)
<1>1. StateAdjoints(r, p, b, dSl, dCv)
        = Over(Named(<<"dA", r>>, x1), Over(Named(<<"dK", r>>, x2), Named(<<"dV", r>>, x3)))
  BY Zenon DEF StateAdjoints
<1> HIDE DEF x1, x2, x3
<1> DEFINE t1 == Named(<<"dA", r>>, x1)
           t2 == Named(<<"dK", r>>, x2)
           t3 == Named(<<"dV", r>>, x3)
<1>2. DOMAIN t1 = {<<"dA", r>>} /\ DOMAIN t2 = {<<"dK", r>>} /\ DOMAIN t3 = {<<"dV", r>>}
  BY NamedDomain
<1>3. StateAdjoints(r, p, b, dSl, dCv) = Over(t1, Over(t2, t3))
  BY <1>1
<1> HIDE DEF t1, t2, t3
<1> DEFINE o == Over(t2, t3)
<1>4. DOMAIN o = DOMAIN t2 \cup DOMAIN t3
  BY OverDomain
<1>5. StateAdjoints(r, p, b, dSl, dCv) = Over(t1, o)
  BY <1>3
<1> HIDE DEF o
<1>6. DOMAIN Over(t1, o) = DOMAIN t1 \cup DOMAIN o
  BY OverDomain
<1> QED
  BY <1>2, <1>4, <1>5, <1>6

\* The reverse walk from what the ring gave, or from zero.
LEMMA GradHIs ==
  ASSUME Chosen, NEW r \in Devices,
         \A i \in Keys, j \in Values :
           /\ StateGrads(input, FirstChunk(r), PerRank, i, j,
                         [n \in 0..(PerRank - 1) |-> Load("dH", r)[n][i][j]])
           /\ StateEnd(r, i, j) = IntoAt(input, FirstChunk(r) + PerRank, i, j)
  PROVE  /\ DOMAIN GradH(r) = {<<"dSl", r>>, <<"dCv", r>>, <<"dA", r>>, <<"dK", r>>, <<"dV", r>>}
         /\ \A n \in Slice, i \in Keys, j \in Values :
              GradH(r)[<<"dSl", r>>][n][i][j]
                = (ChunkDecayAt(input, FirstChunk(r) + n, i)
                     * IntoAt(input, FirstChunk(r) + (n + 1), i, j)) % Prime
<1> DEFINE dSl(n, i, j) ==
             ReverseWalk(r, i, StateEnd(r, i, j), [m \in Slice |-> Load("dH", r)[m][i][j]])[n]
           dCv(n, i) == ReverseWalk(r, i, DecayEnd(r, i), [m \in Slice |-> Load("dCp", r)[m][i]])[n]
           x1 == ByChunk(Keys, Values, dSl)
           x2 == Vectors(dCv)
           t1 == Named(<<"dSl", r>>, x1)
           t2 == Named(<<"dCv", r>>, x2)
           w == WalkAdjoints(r)
           a == StateAdjoints(r, plan, Load("Bs", r), w[<<"dSl", r>>], w[<<"dCv", r>>])
           t == GradH(r)
<1>0. PerRank \in Nat /\ Slice = 0..(PerRank - 1) /\ Prime \in Nat \ {0}
  BY DevicesAre, Field
<1>1. w = Over(t1, t2)
  BY Zenon DEF WalkAdjoints
<1>2. t = Over(w, a)
  BY Zenon DEF GradH
<1>3. \A n \in Slice, i \in Keys, j \in Values :
        x1[n][i][j]
          = (ChunkDecayAt(input, FirstChunk(r) + n, i)
               * IntoAt(input, FirstChunk(r) + (n + 1), i, j)) % Prime
  <2> SUFFICES ASSUME NEW n \in Slice, NEW i \in Keys, NEW j \in Values
               PROVE  x1[n][i][j]
                        = (ChunkDecayAt(input, FirstChunk(r) + n, i)
                             * IntoAt(input, FirstChunk(r) + (n + 1), i, j)) % Prime
    BY Zenon
  <2> DEFINE added == [m \in Slice |-> Load("dH", r)[m][i][j]]
             end == StateEnd(r, i, j)
  <2>1. x1[n][i][j] = ReverseWalk(r, i, end, added)[n] % Prime
    BY DEF ByChunk, Matrix
  <2>2. added = [m \in 0..(PerRank - 1) |-> Load("dH", r)[m][i][j]]
    BY <1>0
  <2>3. StateGrads(input, FirstChunk(r), PerRank, i, j, added)
    BY <2>2
  <2>4. end = IntoAt(input, FirstChunk(r) + PerRank, i, j)
    OBVIOUS
  <2> HIDE DEF added, end, x1
  <2>5. ReverseWalk(r, i, end, added)[n]
          = (ChunkDecay(r, n, i) * IntoAt(input, FirstChunk(r) + (n + 1), i, j)) % Prime
    BY <2>3, <2>4, ReverseWalkIs
  <2>6. ChunkDecay(r, n, i) = ChunkDecayAt(input, FirstChunk(r) + n, i)
    BY ChunkDecayIs
  <2>7. ChunkDecay(r, n, i) \in Int /\ IntoAt(input, FirstChunk(r) + (n + 1), i, j) \in Int
    <3>1. /\ FirstChunk(r) + n \in 0..(P * N - 1) /\ FirstChunk(r) \in Nat /\ IsInput(input)
          /\ P * N \in Nat
      BY ChosenIs, DevicesAre
    <3>2. FirstChunk(r) + (n + 1) \in 0..(P * N)
      BY <1>0, <3>1
    <3>3. ChunkDecayAt(input, FirstChunk(r) + n, i) \in Int
      BY <3>1, ChunkDecayTyped
    <3> QED
      BY <2>6, <3>1, <3>2, <3>3, IntoAtIs
  <2>8. PICK y \in Int :
          y = ChunkDecay(r, n, i) * IntoAt(input, FirstChunk(r) + (n + 1), i, j)
    BY <2>7
  <2>9. (y % Prime) % Prime = y % Prime
    BY <2>8, ResRes DEF Res, Residue
  <2> QED
    BY <2>1, <2>5, <2>6, <2>8, <2>9
<1> HIDE DEF x1, x2
<1>4. DOMAIN t1 = {<<"dSl", r>>} /\ t1[<<"dSl", r>>] = x1 /\ DOMAIN t2 = {<<"dCv", r>>}
  BY NamedAt
<1>5. DOMAIN a = {<<"dA", r>>, <<"dK", r>>, <<"dV", r>>}
  BY StateAdjointsDomain, Zenon
<1> HIDE DEF t1, t2, w, a, t
<1>6. /\ DOMAIN w = DOMAIN t1 \cup DOMAIN t2
      /\ \A key \in DOMAIN t1 : w[key] = t1[key]
      /\ \A key \in DOMAIN t2 \ DOMAIN t1 : w[key] = t2[key]
  <2>1. /\ DOMAIN Over(t1, t2) = DOMAIN t1 \cup DOMAIN t2
        /\ \A key \in DOMAIN t1 : Over(t1, t2)[key] = t1[key]
        /\ \A key \in DOMAIN t2 \ DOMAIN t1 : Over(t1, t2)[key] = t2[key]
    BY OverAt
  <2> QED
    BY <1>1, <2>1
<1>7. /\ DOMAIN t = DOMAIN w \cup DOMAIN a
      /\ \A key \in DOMAIN w : t[key] = w[key]
      /\ \A key \in DOMAIN a \ DOMAIN w : t[key] = a[key]
  <2>1. /\ DOMAIN Over(w, a) = DOMAIN w \cup DOMAIN a
        /\ \A key \in DOMAIN w : Over(w, a)[key] = w[key]
        /\ \A key \in DOMAIN a \ DOMAIN w : Over(w, a)[key] = a[key]
    BY OverAt
  <2> QED
    BY <1>2, <2>1
<1>8. /\ t[<<"dSl", r>>] = x1
      /\ DOMAIN t = {<<"dSl", r>>, <<"dCv", r>>, <<"dA", r>>, <<"dK", r>>, <<"dV", r>>}
  BY <1>4, <1>5, <1>6, <1>7
<1> QED
  BY <1>3, <1>8 DEF t

-----------------------------------------------------------------------------
(* What a step leaves alone *)

Same == UNCHANGED <<input, program, plan>>

Keeps(nm, r) ==
  /\ <<nm, r>> \in DOMAIN heap' <=> <<nm, r>> \in DOMAIN heap
  /\ <<nm, r>> \in DOMAIN heap => heap'[<<nm, r>>] = heap[<<nm, r>>]

LEMMA SameShape ==
  ASSUME Same
  PROVE  /\ Multi' = Multi /\ PerRank' = PerRank /\ Slice' = Slice /\ Devices' = Devices
         /\ DecayName' = DecayName /\ Chosen' = Chosen
         /\ \A r : FirstChunk(r)' = FirstChunk(r)
         /\ \A kk : BlockRows(kk)' = BlockRows(kk)
BY DEF Same, Multi, PerRank, Slice, Devices, DecayName, Chosen, FirstChunk, BlockRows

LEMMA OverKeeps ==
  ASSUME NEW t, heap' = Over(t, heap), NEW nm, NEW r, <<nm, r>> \notin DOMAIN t
  PROVE  Keeps(nm, r)
<1>1. /\ DOMAIN Over(t, heap) = DOMAIN t \cup DOMAIN heap
      /\ \A key \in DOMAIN t : Over(t, heap)[key] = t[key]
      /\ \A key \in DOMAIN heap \ DOMAIN t : Over(t, heap)[key] = heap[key]
  BY OverAt
<1> QED
  BY <1>1 DEF Keeps

LEMMA OverSets ==
  ASSUME NEW t, heap' = Over(t, heap), NEW key, key \in DOMAIN t
  PROVE  key \in DOMAIN heap' /\ heap'[key] = t[key]
<1>1. /\ DOMAIN Over(t, heap) = DOMAIN t \cup DOMAIN heap
      /\ \A x \in DOMAIN t : Over(t, heap)[x] = t[x]
      /\ \A x \in DOMAIN heap \ DOMAIN t : Over(t, heap)[x] = heap[x]
  BY OverAt
<1> QED
  BY <1>1

LEMMA KeepWalk ==
  ASSUME Same, NEW r, WalkKept(r), at'[r] >= 2 => at[r] >= 2,
         Keeps("Ssnap", r), Keeps("Gsnap", r), Keeps("Cprev", r), Keeps("Stot", r)
  PROVE  WalkKept(r)'
<1>1. /\ input' = input /\ PerRank' = PerRank /\ FirstChunk(r)' = FirstChunk(r)
      /\ DecayName' = DecayName /\ DecayName \in {"Gsnap", "Cprev"}
  BY SameShape DEF Same, DecayName
<1> SUFFICES ASSUME at'[r] >= 2
             PROVE  /\ Has("Ssnap", r)' /\ Has(DecayName, r)' /\ Has("Stot", r)'
                    /\ WalkRecords(input', FirstChunk(r)', PerRank', Load("Ssnap", r)',
                                   Load(DecayName, r)', Load("Stot", r)')
  BY DEF WalkKept
<1>2. /\ Has("Ssnap", r) /\ Has(DecayName, r) /\ Has("Stot", r)
      /\ WalkRecords(input, FirstChunk(r), PerRank,
                     Load("Ssnap", r), Load(DecayName, r), Load("Stot", r))
  BY DEF WalkKept
<1>3. /\ Has("Ssnap", r)' /\ Has(DecayName, r)' /\ Has("Stot", r)'
      /\ Load("Ssnap", r)' = Load("Ssnap", r) /\ Load(DecayName, r)' = Load(DecayName, r)
      /\ Load("Stot", r)' = Load("Stot", r)
  BY <1>1, <1>2 DEF Keeps, Has, Load
<1> QED
  BY <1>1, <1>2, <1>3

LEMMA KeepWalkOnly ==
  ASSUME Same, NEW r, WalkOnly(r), at[r] >= 2 => at'[r] >= 2, Keeps("Gsnap", r), Keeps("Cprev", r)
  PROVE  WalkOnly(r)'
BY SameShape DEF WalkOnly, Has, Keeps

LEMMA KeepDecays ==
  ASSUME Same, NEW r, DecaysKept(r), at'[r] >= 2 => at[r] >= 2, Keeps("Bs", r)
  PROVE  DecaysKept(r)'
BY SameShape DEF DecaysKept, Has, Load, Keeps, Same

LEMMA KeepBoundary ==
  ASSUME Same, NEW r, BoundaryKept(r), Keeps("Srecv", r),
         \A kk \in 0..(plan.k - 1) :
           Multi /\ (at'[r] >= 3 \/ (at'[r] = 2 /\ kk < blk'[r]))
             => at[r] >= 3 \/ (at[r] = 2 /\ kk < blk[r])
  PROVE  BoundaryKept(r)'
<1>1. /\ input' = input /\ plan' = plan /\ Multi' = Multi /\ FirstChunk(r)' = FirstChunk(r)
      /\ \A kk : BlockRows(kk)' = BlockRows(kk)
  BY SameShape DEF Same
<1> SUFFICES ASSUME NEW kk \in 0..(plan.k - 1), Multi, r # 0,
                    at'[r] >= 3 \/ (at'[r] = 2 /\ kk < blk'[r])
             PROVE  /\ Has("Srecv", r)'
                    /\ \A i \in BlockRows(kk) :
                         /\ i \in DOMAIN Load("Srecv", r)'
                         /\ \A j \in Values :
                              Load("Srecv", r)'[i][j] = StateAt(input, FirstChunk(r), i, j)
  BY <1>1 DEF BoundaryKept
<1>2. /\ Has("Srecv", r)
      /\ \A i \in BlockRows(kk) :
           /\ i \in DOMAIN Load("Srecv", r)
           /\ \A j \in Values : Load("Srecv", r)[i][j] = StateAt(input, FirstChunk(r), i, j)
  BY DEF BoundaryKept
<1>3. Has("Srecv", r)' /\ Load("Srecv", r)' = Load("Srecv", r)
  BY <1>2 DEF Keeps, Has, Load
<1> QED
  BY <1>2, <1>3

LEMMA KeepAdjoints ==
  ASSUME Same, NEW r, AdjointsKept(r), Keeps("dH", r), Keeps("dSrecv", r),
         program.op # "forward" /\ at'[r] >= (IF Multi THEN 4 ELSE 3)
           => at[r] >= (IF Multi THEN 4 ELSE 3)
  PROVE  AdjointsKept(r)'
BY SameShape DEF AdjointsKept, Has, Load, Keeps, Same

LEMMA KeepEnd ==
  ASSUME Same, NEW r, EndKept(r), Keeps("dStot", r),
         \A kk \in 0..(plan.k - 1) :
           /\ Multi /\ program.op # "forward"
           /\ at'[r] >= 5 \/ (at'[r] = 4 /\ kk < blk'[r])
           => at[r] >= 5 \/ (at[r] = 4 /\ kk < blk[r])
  PROVE  EndKept(r)'
<1>1. /\ input' = input /\ plan' = plan /\ program' = program /\ Multi' = Multi
      /\ FirstChunk(r)' = FirstChunk(r) /\ PerRank' = PerRank
      /\ \A kk : BlockRows(kk)' = BlockRows(kk)
  BY SameShape DEF Same
<1> SUFFICES ASSUME NEW kk \in 0..(plan.k - 1), Multi, program.op # "forward",
                    at'[r] >= 5 \/ (at'[r] = 4 /\ kk < blk'[r])
             PROVE  /\ Has("dStot", r)'
                    /\ \A i \in BlockRows(kk) :
                         /\ i \in DOMAIN Load("dStot", r)'
                         /\ \A j \in Values :
                              Load("dStot", r)'[i][j]
                                = IntoAt(input, FirstChunk(r) + PerRank, i, j)
  BY <1>1 DEF EndKept
<1>2. /\ Has("dStot", r)
      /\ \A i \in BlockRows(kk) :
           /\ i \in DOMAIN Load("dStot", r)
           /\ \A j \in Values :
                Load("dStot", r)[i][j] = IntoAt(input, FirstChunk(r) + PerRank, i, j)
  BY DEF EndKept
<1>3. Has("dStot", r)' /\ Load("dStot", r)' = Load("dStot", r)
  BY <1>2 DEF Keeps, Has, Load
<1> QED
  BY <1>2, <1>3

LEMMA KeepReverse ==
  ASSUME Same, NEW r, ReverseKept(r), Keeps("dSl", r)
  PROVE  ReverseKept(r)'
BY SameShape DEF ReverseKept, Has, Load, Keeps, Same

LEMMA KeepDevice ==
  ASSUME Same, NEW r, DeviceInv(r), at'[r] = at[r], blk'[r] = blk[r],
         \A nm : Keeps(nm, r)
  PROVE  DeviceInv(r)'
<1>1. Typed(r)'
  BY SameShape DEF DeviceInv, Typed, Same
<1>2. WalkKept(r)' /\ WalkOnly(r)' /\ DecaysKept(r)'
  BY KeepWalk, KeepWalkOnly, KeepDecays DEF DeviceInv
<1>3. BoundaryKept(r)' /\ AdjointsKept(r)' /\ EndKept(r)' /\ ReverseKept(r)'
  BY KeepBoundary, KeepAdjoints, KeepEnd, KeepReverse DEF DeviceInv
<1> QED
  BY <1>1, <1>2, <1>3 DEF DeviceInv

LEMMA KeepWindow ==
  ASSUME Same, WindowInv, UNCHANGED <<window, signal>>
  PROVE  WindowInv'
<1>1. \A d, r, i, j : Due(d, r, i, j)' = Due(d, r, i, j)
  BY SameShape DEF Due, Same
<1> QED
  BY <1>1, SameShape DEF WindowInv, BlockArrived, Same

-----------------------------------------------------------------------------
(* The kernels *)

\* A kernel that has run, and wrote t.
Ran(r, t) ==
  /\ heap' = Over(t, heap) /\ at'[r] = at[r] + 1 /\ blk'[r] = blk[r]
  /\ blk[r] = 0 /\ at[r] \in Nat

LEMMA TypedRan ==
  ASSUME Same, NEW r, NEW t, Ran(r, t), Chosen
  PROVE  Typed(r)'
<1>1. plan.k \in Nat \ {0}
  BY ChosenIs
<1>2. 0 \in 0..(plan.k - 1) /\ at'[r] \in Nat \ {0} /\ blk'[r] = 0 /\ plan' = plan
  BY <1>1 DEF Ran, Same
<1> QED
  BY <1>2 DEF Typed

\* The first kernel of a program.
LEMMA FirstKernel ==
  ASSUME Same, Chosen, NEW r, DeviceInv(r), at[r] = 1, NEW t, Ran(r, t),
         DOMAIN t \subseteq {<<"Ssnap", r>>, <<DecayName, r>>, <<"Stot", r>>, <<"Bs", r>>},
         {<<"Ssnap", r>>, <<DecayName, r>>, <<"Stot", r>>} \subseteq DOMAIN t,
         WalkRecords(input, FirstChunk(r), PerRank, t[<<"Ssnap", r>>],
                     t[<<DecayName, r>>], t[<<"Stot", r>>]),
         program.op = "backward" =>
           /\ <<"Bs", r>> \in DOMAIN t
           /\ DecayRecords(input, FirstChunk(r), PerRank, t[<<"Bs", r>>])
  PROVE  DeviceInv(r)'
<1>1. /\ input' = input /\ PerRank' = PerRank /\ FirstChunk(r)' = FirstChunk(r)
      /\ DecayName' = DecayName /\ DecayName \in {"Gsnap", "Cprev"} /\ program' = program
      /\ plan' = plan /\ Multi' = Multi
  BY SameShape DEF Same, DecayName
<1>2. at'[r] = 2 /\ blk'[r] = 0 /\ heap' = Over(t, heap)
  BY DEF Ran
<1>3. Typed(r)'
  BY TypedRan
<1>4. WalkKept(r)'
  <2>1. \A nm \in {"Ssnap", DecayName, "Stot"} :
          <<nm, r>> \in DOMAIN heap' /\ heap'[<<nm, r>>] = t[<<nm, r>>]
    <3> TAKE nm \in {"Ssnap", DecayName, "Stot"}
    <3>1. <<nm, r>> \in DOMAIN t
      OBVIOUS
    <3> QED
      BY <1>2, <3>1, OverSets
  <2>2. /\ Has("Ssnap", r)' /\ Has(DecayName, r)' /\ Has("Stot", r)'
        /\ Load("Ssnap", r)' = t[<<"Ssnap", r>>] /\ Load(DecayName, r)' = t[<<DecayName, r>>]
        /\ Load("Stot", r)' = t[<<"Stot", r>>]
    BY <1>1, <2>1 DEF Has, Load
  <2> QED
    BY <1>1, <2>2 DEF WalkKept
<1>5. WalkOnly(r)'
  <2> SUFFICES ASSUME NEW d \in {"Gsnap", "Cprev"}, Has(d, r)', d # DecayName
               PROVE  FALSE
    BY <1>1, <1>2 DEF WalkOnly
  <2>1. <<d, r>> \notin DOMAIN t
    OBVIOUS
  <2>2. Keeps(d, r)
    BY <1>2, <2>1, OverKeeps
  <2> QED
    BY <2>2 DEF Has, Keeps, WalkOnly, DeviceInv
<1>6. DecaysKept(r)'
  <2> SUFFICES ASSUME program.op = "backward"
               PROVE  /\ Has("Bs", r)'
                      /\ DecayRecords(input, FirstChunk(r), PerRank, Load("Bs", r)')
    BY <1>1 DEF DecaysKept
  <2>1. <<"Bs", r>> \in DOMAIN heap' /\ heap'[<<"Bs", r>>] = t[<<"Bs", r>>]
    BY <1>2, OverSets
  <2> QED
    BY <2>1 DEF Has, Load
<1>7. BoundaryKept(r)' /\ AdjointsKept(r)' /\ EndKept(r)'
  <2>1. BoundaryKept(r)'
    BY <1>2 DEF BoundaryKept
  <2>2. AdjointsKept(r)'
    BY <1>2 DEF AdjointsKept
  <2>3. EndKept(r)'
    BY <1>2 DEF EndKept
  <2> QED
    BY <2>1, <2>2, <2>3
<1>8. ReverseKept(r)'
  <2>1. <<"dSl", r>> \notin DOMAIN t
    BY <1>1
  <2>2. Keeps("dSl", r)
    BY <1>2, <2>1, OverKeeps
  <2> QED
    BY <2>2, KeepReverse DEF DeviceInv
<1> QED
  BY <1>3, <1>4, <1>5, <1>6, <1>7, <1>8 DEF DeviceInv

\* A kernel that writes none of the records of the walk, nor what a ring gave.
LEMMA LaterKernel ==
  ASSUME Same, Chosen, NEW r, DeviceInv(r), NEW t, Ran(r, t),
         at[r] \in (IF Multi THEN {3, 5} ELSE {2, 3}),
         \A nm \in {"Ssnap", "Gsnap", "Cprev", "Stot", "Bs", "Srecv", "dStot"} :
           <<nm, r>> \notin DOMAIN t
  PROVE  /\ Typed(r)' /\ WalkKept(r)' /\ WalkOnly(r)' /\ DecaysKept(r)' /\ BoundaryKept(r)'
         /\ EndKept(r)'
<1>1. heap' = Over(t, heap) /\ at'[r] = at[r] + 1 /\ blk'[r] = 0 /\ blk[r] = 0
  BY DEF Ran
<1>2. \A nm \in {"Ssnap", "Gsnap", "Cprev", "Stot", "Bs", "Srecv", "dStot"} : Keeps(nm, r)
  BY <1>1, OverKeeps
<1>3. at[r] \in {2, 3, 5} /\ (Multi => at[r] \in {3, 5})
  OBVIOUS
<1>4. Typed(r)'
  BY TypedRan
<1>5. WalkKept(r)' /\ WalkOnly(r)' /\ DecaysKept(r)'
  BY <1>1, <1>2, <1>3, KeepWalk, KeepWalkOnly, KeepDecays DEF DeviceInv
<1>6. BoundaryKept(r)'
  <2>1. \A kk \in 0..(plan.k - 1) :
          Multi /\ (at'[r] >= 3 \/ (at'[r] = 2 /\ kk < blk'[r]))
            => at[r] >= 3 \/ (at[r] = 2 /\ kk < blk[r])
    BY <1>1, <1>3
  <2> QED
    BY <1>2, <2>1, KeepBoundary DEF DeviceInv
<1>7. EndKept(r)'
  <2>1. \A kk \in 0..(plan.k - 1) :
          /\ Multi /\ program.op # "forward"
          /\ at'[r] >= 5 \/ (at'[r] = 4 /\ kk < blk'[r])
          => at[r] >= 5 \/ (at[r] = 4 /\ kk < blk[r])
    <3> TAKE kk \in 0..(plan.k - 1)
    <3>1. kk \in Int /\ 0 <= kk
      BY ChosenIs
    <3> QED
      BY <1>1, <1>3, <3>1
  <2> QED
    BY <1>2, <2>1, KeepEnd DEF DeviceInv
<1> QED
  BY <1>4, <1>5, <1>6, <1>7

LEMMA Stage2Kernel ==
  ASSUME Same, Chosen, NEW r, DeviceInv(r), NEW t, Ran(r, t),
         at[r] = (IF Multi THEN 3 ELSE 2), program.op = "forward", DOMAIN t = {<<"O", r>>}
  PROVE  DeviceInv(r)'
<1>1. /\ Typed(r)' /\ WalkKept(r)' /\ WalkOnly(r)' /\ DecaysKept(r)' /\ BoundaryKept(r)'
      /\ EndKept(r)'
  BY LaterKernel
<1>2. AdjointsKept(r)'
  BY DEF AdjointsKept, Same
<1>3. Keeps("dSl", r)
  <2>1. <<"dSl", r>> \notin DOMAIN t /\ heap' = Over(t, heap)
    BY DEF Ran
  <2> QED
    BY <2>1, OverKeeps
<1> QED
  BY <1>1, <1>2, <1>3, KeepReverse DEF DeviceInv

LEMMA OutputKernel ==
  ASSUME Same, Chosen, NEW r, DeviceInv(r), NEW t, Ran(r, t),
         at[r] = (IF Multi THEN 3 ELSE 2),
         DOMAIN t = {<<"dQ", r>>, <<"dKo", r>>, <<"dgcso", r>>, <<"dH", r>>, <<"dCp", r>>,
                     <<"dVo", r>>, <<"dSrecv", r>>},
         AdjointRecords(input, FirstChunk(r), PerRank, t[<<"dH", r>>], t[<<"dSrecv", r>>])
  PROVE  DeviceInv(r)'
<1>1. /\ Typed(r)' /\ WalkKept(r)' /\ WalkOnly(r)' /\ DecaysKept(r)' /\ BoundaryKept(r)'
      /\ EndKept(r)'
  BY LaterKernel
<1>2. AdjointsKept(r)'
  <2>1. heap' = Over(t, heap)
    BY DEF Ran
  <2>2. <<"dH", r>> \in DOMAIN t /\ <<"dSrecv", r>> \in DOMAIN t
    OBVIOUS
  <2>3. /\ <<"dH", r>> \in DOMAIN heap' /\ heap'[<<"dH", r>>] = t[<<"dH", r>>]
        /\ <<"dSrecv", r>> \in DOMAIN heap' /\ heap'[<<"dSrecv", r>>] = t[<<"dSrecv", r>>]
    BY <2>1, <2>2, OverSets
  <2>4. input' = input /\ PerRank' = PerRank /\ FirstChunk(r)' = FirstChunk(r)
    BY SameShape DEF Same
  <2> QED
    BY <2>3, <2>4 DEF AdjointsKept, Has, Load
<1>3. Keeps("dSl", r)
  <2>1. <<"dSl", r>> \notin DOMAIN t /\ heap' = Over(t, heap)
    BY DEF Ran
  <2> QED
    BY <2>1, OverKeeps
<1> QED
  BY <1>1, <1>2, <1>3, KeepReverse DEF DeviceInv

LEMMA StateKernel ==
  ASSUME Same, Chosen, NEW r, DeviceInv(r), NEW t, Ran(r, t),
         at[r] = (IF Multi THEN 5 ELSE 3),
         DOMAIN t \subseteq {<<"dSl", r>>, <<"dCv", r>>, <<"dA", r>>, <<"dK", r>>, <<"dV", r>>},
         <<"dSl", r>> \in DOMAIN t =>
           \A n \in Slice, i \in Keys, j \in Values :
             t[<<"dSl", r>>][n][i][j]
               = (ChunkDecayAt(input, FirstChunk(r) + n, i)
                    * IntoAt(input, FirstChunk(r) + (n + 1), i, j)) % Prime
  PROVE  DeviceInv(r)'
<1>1. /\ Typed(r)' /\ WalkKept(r)' /\ WalkOnly(r)' /\ DecaysKept(r)' /\ BoundaryKept(r)'
      /\ EndKept(r)'
  BY LaterKernel
<1>2. AdjointsKept(r)'
  <2>1. <<"dH", r>> \notin DOMAIN t /\ <<"dSrecv", r>> \notin DOMAIN t /\ heap' = Over(t, heap)
    BY DEF Ran
  <2>2. Keeps("dH", r) /\ Keeps("dSrecv", r)
    BY <2>1, OverKeeps
  <2> QED
    BY <2>2, KeepAdjoints DEF DeviceInv
<1>3. ReverseKept(r)'
  <2>1. heap' = Over(t, heap)
    BY DEF Ran
  <2>2. CASE <<"dSl", r>> \in DOMAIN t
    <3>1. heap'[<<"dSl", r>>] = t[<<"dSl", r>>]
      BY <2>1, <2>2, OverSets
    <3>2. input' = input /\ Slice' = Slice /\ FirstChunk(r)' = FirstChunk(r)
      BY SameShape DEF Same
    <3> QED
      BY <2>2, <3>1, <3>2 DEF ReverseKept, Load
  <2>3. CASE <<"dSl", r>> \notin DOMAIN t
    <3>1. Keeps("dSl", r)
      BY <2>1, <2>3, OverKeeps
    <3> QED
      BY <3>1, KeepReverse DEF DeviceInv
  <2> QED
    BY <2>2, <2>3
<1> QED
  BY <1>1, <1>2, <1>3 DEF DeviceInv

\* What the kernel a device runs writes, and that it writes nothing of another.
Writes(r, t) ==
  /\ heap' = Over(t, heap)
  /\ \A nm, s : s # r => <<nm, s>> \notin DOMAIN t

LEMMA KernelFrame ==
  ASSUME PyptoInv, NEW r \in Devices, Kernel(r)
  PROVE  /\ Same /\ Chosen /\ DeviceInv(r) /\ UNCHANGED <<window, signal>>
         /\ StageAt(r) /\ Running(r) \in Kernels
         /\ Ran(r, Results(Running(r), r))
         /\ DOMAIN at' = Devices /\ DOMAIN blk' = Devices
         /\ \A s \in Devices \ {r} : at'[s] = at[s] /\ blk'[s] = blk[s]
<1>1. /\ Same /\ Chosen /\ DeviceInv(r) /\ UNCHANGED <<window, signal>> /\ Running(r) \in Kernels
  BY DEF PyptoInv, Kernel, Same
<1>2. StageAt(r)
  BY <1>1, StageIs DEF DeviceInv
<1>3. \A k \in Kernels : ResultsP1(k, r) = Results(k, r)
  BY DEF Kernels, ResultsP1, Results, Stage1P1, Stage2P1, RecomputeP1, GradOP1, GradHP1,
         CarriedRecomputeP1, CarriedGradOP1, CarriedGradHP1
<1>4. heap' = Over(Results(Running(r), r), heap)
  <2>1. heap' = Over(IF program.ranks = 1 THEN ResultsP1(Running(r), r)
                     ELSE Results(Running(r), r), heap)
    BY Zenon DEF Kernel
  <2> QED
    BY <1>1, <1>3, <2>1
<1>5. at' = [at EXCEPT ![r] = at[r] + 1] /\ blk' = blk
  BY DEF Kernel
<1>6. DOMAIN at = Devices /\ DOMAIN blk = Devices /\ Devices' = Devices
  BY <1>1, SameShape DEF PyptoInv
<1>7. at[r] \in Nat /\ blk[r] = 0
  <2>1. at[r] \in Nat /\ (~Multi \/ at[r] \notin {2, 4} => blk[r] = 0)
    BY <1>1 DEF DeviceInv, Typed
  <2>2. at[r] \in {1, 2, 3, 5} /\ (Multi => at[r] # 2)
    BY <1>1, <1>2 DEF StageAt, Kernels
  <2> QED
    BY <2>1, <2>2
<1>8. at'[r] = at[r] + 1 /\ \A s \in Devices \ {r} : at'[s] = at[s]
  BY <1>5, <1>6
<1>9. DOMAIN at' = Devices /\ DOMAIN blk' = Devices
  BY <1>5, <1>6
<1> QED
  BY <1>1, <1>2, <1>4, <1>5, <1>7, <1>8, <1>9 DEF Ran

LEMMA WalkKernels ==
  ASSUME PyptoInv, NEW r \in Devices, Kernel(r),
         Running(r) \in {"stage1", "recompute", "carried_recompute"}
  PROVE  DeviceInv(r)' /\ Writes(r, Results(Running(r), r))
<1> DEFINE t == Results(Running(r), r)
<1>1. /\ Same /\ Chosen /\ DeviceInv(r) /\ StageAt(r) /\ Ran(r, t)
  BY KernelFrame
<1>2. at[r] = 1 /\ (program.op = "forward" <=> Running(r) = "stage1")
      /\ (program.op = "backward" <=> Running(r) = "recompute")
  BY <1>1 DEF StageAt
<1>3. IsBlocking(plan) /\ IsBlocking(Whole)
  BY <1>1, ChosenIs
<1>4. DeviceInv(r)' /\ \A nm, s : s # r => <<nm, s>> \notin DOMAIN t
  <2>1. CASE Running(r) = "stage1"
    <3>1. t = Walk(r, plan, "Gsnap") /\ DecayName = "Gsnap" /\ program.op # "backward"
      BY <1>2, <2>1 DEF Results, Stage1, DecayName
    <3> HIDE DEF t
    <3>2. /\ DOMAIN t = {<<"Ssnap", r>>, <<"Gsnap", r>>, <<"Stot", r>>}
          /\ WalkRecords(input, FirstChunk(r), PerRank, t[<<"Ssnap", r>>], t[<<"Gsnap", r>>],
                         t[<<"Stot", r>>])
      BY <1>1, <1>3, <3>1, WalkIs
    <3>3. DeviceInv(r)'
      BY <1>1, <1>2, <3>1, <3>2, FirstKernel
    <3> QED
      BY <3>2, <3>3
  <2>2. CASE Running(r) = "recompute"
    <3>1. t = Recompute(r) /\ DecayName = "Cprev"
      BY <1>2, <2>2 DEF Results, DecayName
    <3> HIDE DEF t
    <3>2. /\ DOMAIN t = {<<"Ssnap", r>>, <<"Cprev", r>>, <<"Stot", r>>, <<"Bs", r>>}
          /\ WalkRecords(input, FirstChunk(r), PerRank, t[<<"Ssnap", r>>], t[<<"Cprev", r>>],
                         t[<<"Stot", r>>])
          /\ DecayRecords(input, FirstChunk(r), PerRank, t[<<"Bs", r>>])
      BY <1>1, <3>1, RecomputeIs
    <3>3. DeviceInv(r)'
      BY <1>1, <1>2, <3>1, <3>2, FirstKernel
    <3> QED
      BY <3>2, <3>3
  <2>3. CASE Running(r) = "carried_recompute"
    <3>1. t = Walk(r, Whole, "Cprev") /\ DecayName = "Cprev" /\ program.op # "backward"
      BY <1>2, <2>3 DEF Results, CarriedRecompute, DecayName
    <3> HIDE DEF t
    <3>2. /\ DOMAIN t = {<<"Ssnap", r>>, <<"Cprev", r>>, <<"Stot", r>>}
          /\ WalkRecords(input, FirstChunk(r), PerRank, t[<<"Ssnap", r>>], t[<<"Cprev", r>>],
                         t[<<"Stot", r>>])
      BY <1>1, <1>3, <3>1, WalkIs
    <3>3. DeviceInv(r)'
      BY <1>1, <1>2, <3>1, <3>2, FirstKernel
    <3> QED
      BY <3>2, <3>3
  <2> QED
    BY <2>1, <2>2, <2>3
<1> QED
  BY <1>1, <1>4 DEF Ran, Writes

LEMMA OutputKernels ==
  ASSUME PyptoInv, NEW r \in Devices, Kernel(r),
         Running(r) \in {"stage2", "grad_o", "carried_grad_o"}
  PROVE  DeviceInv(r)' /\ Writes(r, Results(Running(r), r))
<1> DEFINE t == Results(Running(r), r)
<1>1. /\ Same /\ Chosen /\ DeviceInv(r) /\ StageAt(r) /\ Ran(r, t)
  BY KernelFrame
<1>2. at[r] = (IF Multi THEN 3 ELSE 2) /\ (program.op = "forward" <=> Running(r) = "stage2")
      /\ (program.op = "backward" <=> Running(r) = "grad_o")
  BY <1>1 DEF StageAt
<1>3. IsBlocking(plan) /\ IsBlocking(Whole)
  BY <1>1, ChosenIs
<1>4. DeviceInv(r)' /\ \A nm, s : s # r => <<nm, s>> \notin DOMAIN t
  <2>1. CASE Running(r) = "stage2"
    <3>1. t = Stage2(r) /\ program.op = "forward"
      BY <1>2, <2>1 DEF Results
    <3> HIDE DEF t
    <3>2. DOMAIN t = {<<"O", r>>}
      BY <3>1, Zenon, NamedDomain DEF Stage2
    <3>3. DeviceInv(r)'
      BY <1>1, <1>2, <3>1, <3>2, Stage2Kernel
    <3> QED
      BY <3>2, <3>3
  <2>2. ASSUME Running(r) # "stage2", NEW p, NEW b, t = OutputAdjoints(r, p, b),
               DecayRecords(input, FirstChunk(r), PerRank, b)
        PROVE  DeviceInv(r)' /\ \A nm, s : s # r => <<nm, s>> \notin DOMAIN t
    <3> HIDE DEF t
    <3>1. DecayName = "Cprev" /\ at[r] >= 2
      BY <1>2, <2>2 DEF DecayName
    <3>2. \A n \in 0..(PerRank - 1), i \in Keys :
            Load("Cprev", r)[n][i] = DecayOf(input, FirstChunk(r), n, i)
      <4>1. 0 \in Values
        BY ShapeAssumption DEF Values
      <4> QED
        BY <1>1, <3>1, <4>1 DEF DeviceInv, WalkKept, WalkRecords
    <3>3. /\ DOMAIN t = {<<"dQ", r>>, <<"dKo", r>>, <<"dgcso", r>>, <<"dH", r>>, <<"dCp", r>>,
                         <<"dVo", r>>, <<"dSrecv", r>>}
          /\ AdjointRecords(input, FirstChunk(r), PerRank, t[<<"dH", r>>], t[<<"dSrecv", r>>])
      BY <1>1, <2>2, <3>2, OutputAdjointsIs
    <3>4. DeviceInv(r)'
      BY <1>1, <1>2, <3>3, OutputKernel
    <3> QED
      BY <3>3, <3>4
  <2>3. CASE Running(r) = "grad_o"
    <3>1. t = OutputAdjoints(r, plan, Load("Bs", r))
      BY <2>3 DEF Results, GradO
    <3>2. DecayRecords(input, FirstChunk(r), PerRank, Load("Bs", r))
      <4>1. program.op = "backward" /\ at[r] >= 2
        BY <1>2, <2>3
      <4> QED
        BY <1>1, <4>1 DEF DeviceInv, DecaysKept
    <3> QED
      BY <2>2, <2>3, <3>1, <3>2
  <2>4. CASE Running(r) = "carried_grad_o"
    <3>1. t = OutputAdjoints(r, Whole, Decays(r))
      BY <2>4 DEF Results, CarriedGradO
    <3>2. \A n \in Slice, c \in Rows, i \in Keys :
            Decays(r)[n][c][i] = WithinDecay(r, Whole, n, c, i) % Prime
      BY DEF Decays, ByChunk, Matrix
    <3>3. DecayRecords(input, FirstChunk(r), PerRank, Decays(r))
      BY <1>1, <1>3, <3>2, DecaysRecord
    <3> QED
      BY <2>2, <2>4, <3>1, <3>3
  <2> QED
    BY <2>1, <2>3, <2>4
<1> QED
  BY <1>1, <1>4 DEF Ran, Writes

LEMMA StateKernels ==
  ASSUME PyptoInv, NEW r \in Devices, Kernel(r), Running(r) \in {"grad_h", "carried_grad_h"}
  PROVE  DeviceInv(r)' /\ Writes(r, Results(Running(r), r))
<1> DEFINE t == Results(Running(r), r)
<1>1. /\ Same /\ Chosen /\ DeviceInv(r) /\ StageAt(r) /\ Ran(r, t)
  BY KernelFrame
<1>2. at[r] = (IF Multi THEN 5 ELSE 3) /\ program.op # "forward"
  BY <1>1 DEF StageAt
<1>3. DeviceInv(r)' /\ \A nm, s : s # r => <<nm, s>> \notin DOMAIN t
  <2>1. CASE Running(r) = "grad_h"
    <3>1. t = GradH(r)
      BY <2>1 DEF Results
    <3> HIDE DEF t
    <3>2. ASSUME NEW i \in Keys, NEW j \in Values
          PROVE  /\ StateGrads(input, FirstChunk(r), PerRank, i, j,
                               [n \in 0..(PerRank - 1) |-> Load("dH", r)[n][i][j]])
                 /\ StateEnd(r, i, j) = IntoAt(input, FirstChunk(r) + PerRank, i, j)
      <4>1. AdjointRecords(input, FirstChunk(r), PerRank, Load("dH", r), Load("dSrecv", r))
        BY <1>1, <1>2 DEF DeviceInv, AdjointsKept
      <4>2. CASE Multi
        <5>1. PICK kk \in 0..(plan.k - 1) : i \in BlockRows(kk)
          BY <1>1, BlocksCover
        <5>2. Load("dStot", r)[i][j] = IntoAt(input, FirstChunk(r) + PerRank, i, j)
          BY <1>1, <1>2, <4>2, <5>1 DEF DeviceInv, EndKept
        <5> QED
          BY <4>1, <4>2, <5>2 DEF AdjointRecords, StateEnd, Multi
      <4>3. CASE ~Multi
        <5>1. FirstChunk(r) + PerRank = P * N
          <6>1. PerRank = P * N /\ r = 0 /\ P * N \in Nat
            BY <1>1, <4>3, DevicesAre DEF Multi, Devices
          <6> QED
            BY <6>1 DEF FirstChunk
        <5>2. IntoAt(input, P * N, i, j) = 0
          BY <1>1, ChosenIs, IntoAtIs
        <5>3. StateEnd(r, i, j) = 0
          BY <4>3 DEF StateEnd, Multi
        <5> QED
          BY <4>1, <5>1, <5>2, <5>3 DEF AdjointRecords
      <4> QED
        BY <4>2, <4>3
    <3>3. /\ DOMAIN t = {<<"dSl", r>>, <<"dCv", r>>, <<"dA", r>>, <<"dK", r>>, <<"dV", r>>}
          /\ \A n \in Slice, i \in Keys, j \in Values :
               t[<<"dSl", r>>][n][i][j]
                 = (ChunkDecayAt(input, FirstChunk(r) + n, i)
                      * IntoAt(input, FirstChunk(r) + (n + 1), i, j)) % Prime
      BY <1>1, <3>1, <3>2, GradHIs
    <3>4. DeviceInv(r)'
      BY <1>1, <1>2, <3>3, StateKernel
    <3> QED
      BY <3>3, <3>4
  <2>2. CASE Running(r) = "carried_grad_h"
    <3>1. t = CarriedGradH(r)
      BY <2>2 DEF Results
    <3> HIDE DEF t
    <3>2. DOMAIN t = {<<"dA", r>>, <<"dK", r>>, <<"dV", r>>}
      BY <3>1, Zenon, StateAdjointsDomain DEF CarriedGradH
    <3>3. DeviceInv(r)'
      BY <1>1, <1>2, <3>2, StateKernel
    <3> QED
      BY <3>2, <3>3
  <2> QED
    BY <2>1, <2>2
<1> QED
  BY <1>1, <1>3 DEF Ran, Writes

LEMMA KernelStep ==
  ASSUME PyptoInv, NEW r \in Devices, Kernel(r)
  PROVE  PyptoInv'
<1> DEFINE t == Results(Running(r), r)
<1>1. /\ Same /\ Chosen /\ UNCHANGED <<window, signal>> /\ Running(r) \in Kernels
      /\ DOMAIN at' = Devices /\ DOMAIN blk' = Devices
      /\ \A s \in Devices \ {r} : at'[s] = at[s] /\ blk'[s] = blk[s]
  BY KernelFrame
<1>2. DeviceInv(r)' /\ Writes(r, t)
  BY <1>1, WalkKernels, OutputKernels, StateKernels DEF Kernels
<1> HIDE DEF t
<1>3. ASSUME NEW s \in Devices, s # r
      PROVE  DeviceInv(s)'
  <2>1. ASSUME NEW nm
        PROVE  Keeps(nm, s)
    <3>1. heap' = Over(t, heap) /\ <<nm, s>> \notin DOMAIN t
      BY <1>2, <1>3 DEF Writes
    <3> QED
      BY <3>1, OverKeeps
  <2>2. DeviceInv(s) /\ at'[s] = at[s] /\ blk'[s] = blk[s]
    BY <1>1, <1>3 DEF PyptoInv
  <2> QED
    BY <1>1, <2>1, <2>2, KeepDevice
<1>4. WindowInv'
  BY <1>1, KeepWindow DEF PyptoInv
<1>5. Devices' = Devices /\ Chosen'
  BY <1>1, SameShape
<1> QED
  BY <1>1, <1>2, <1>3, <1>4, <1>5 DEF PyptoInv

-----------------------------------------------------------------------------
(* The rings *)

\* A block further, or the block after the last.
BlockDone(r) ==
  \/ blk[r] = plan.k - 1 /\ at'[r] = at[r] + 1 /\ blk'[r] = 0
  \/ blk[r] < plan.k - 1 /\ at'[r] = at[r] /\ blk'[r] = blk[r] + 1

LEMMA NextBlockIs ==
  ASSUME PyptoInv, NEW r \in Devices, NextBlock(r)
  PROVE  /\ Same /\ BlockDone(r) /\ DOMAIN at' = Devices /\ DOMAIN blk' = Devices
         /\ \A s \in Devices \ {r} : at'[s] = at[s] /\ blk'[s] = blk[s]
<1>1. DOMAIN at = Devices /\ DOMAIN blk = Devices /\ blk[r] \in 0..(plan.k - 1)
  BY DEF PyptoInv, DeviceInv, Typed
<1>2. plan.k \in Nat \ {0}
  BY ChosenIs DEF PyptoInv
<1> QED
  BY <1>1, <1>2 DEF NextBlock, BlockDone, Same

\* The rows x over those of a tensor the device has.
RowsOver(y, x, nm, r) ==
  /\ \A i \in DOMAIN x : i \in DOMAIN y /\ y[i] = x[i]
  /\ Has(nm, r) => \A i \in DOMAIN Load(nm, r) \ DOMAIN x : i \in DOMAIN y /\ y[i] = Load(nm, r)[i]

LEMMA StoredIs ==
  ASSUME NEW nm, NEW r, NEW x
  PROVE  /\ DOMAIN Stored(nm, r, x) = {<<nm, r>>}
         /\ RowsOver(Stored(nm, r, x)[<<nm, r>>], x, nm, r)
<1> DEFINE old == IF <<nm, r>> \in DOMAIN heap THEN heap[<<nm, r>>] ELSE <<>>
           y == Over(x, old)
<1>1. Stored(nm, r, x) = Named(<<nm, r>>, y)
  BY DEF Stored
<1>2. Has(nm, r) => old = Load(nm, r)
  BY DEF Has, Load
<1> HIDE DEF old
<1>3. /\ DOMAIN Over(x, old) = DOMAIN x \cup DOMAIN old
      /\ \A key \in DOMAIN x : Over(x, old)[key] = x[key]
      /\ \A key \in DOMAIN old \ DOMAIN x : Over(x, old)[key] = old[key]
  BY OverAt
<1> HIDE DEF y
<1>4. DOMAIN Named(<<nm, r>>, y) = {<<nm, r>>} /\ Named(<<nm, r>>, y)[<<nm, r>>] = y
  BY NamedAt
<1> QED
  BY <1>1, <1>2, <1>3, <1>4 DEF y, RowsOver

\* Block b of rows x is sent, and is what the ring owes its receiver.
Sends(d, peer, b, x) ==
  /\ window' = [window EXCEPT ![<<d, peer>>] = Over(x, window[<<d, peer>>])]
  /\ signal' = [signal EXCEPT ![<<d, peer, b>>] = signal[<<d, peer, b>>] + 1]

BlockDue(d, peer, b, x) ==
  DOMAIN x = BlockRows(b) /\ \A i \in BlockRows(b), j \in Values : x[i][j] = Due(d, peer, i, j)

LEMMA Sent ==
  ASSUME Same, Chosen, WindowInv, NEW d \in {"forward", "reverse"}, NEW peer,
         NEW b \in 0..(plan.k - 1), NEW x, Sends(d, peer, b, x), BlockDue(d, peer, b, x)
  PROVE  WindowInv'
<1> USE DEF Sends, BlockDue
<1>1. /\ \A e, s, i, j : Due(e, s, i, j)' = Due(e, s, i, j)
      /\ Devices' = Devices /\ plan' = plan /\ \A kk : BlockRows(kk)' = BlockRows(kk)
  BY SameShape DEF Due, Same
<1>2. DOMAIN window' = DOMAIN window /\ DOMAIN signal' = DOMAIN signal
  OBVIOUS
<1>3. ASSUME NEW e \in {"forward", "reverse"}, NEW s \in Devices, NEW kk \in 0..(plan.k - 1),
             signal'[<<e, s, kk>>] >= 1
      PROVE  BlockArrived(e, s, kk)'
  <2> SUFFICES ASSUME NEW i \in BlockRows(kk)
               PROVE  /\ i \in DOMAIN window'[<<e, s>>]
                      /\ \A j \in Values : window'[<<e, s>>][i][j] = Due(e, s, i, j)
    BY <1>1 DEF BlockArrived
  <2>1. <<e, s>> \in DOMAIN window /\ <<e, s, kk>> \in DOMAIN signal
    BY DEF WindowInv
  <2>2. CASE <<e, s>> # <<d, peer>>
    <3>1. window'[<<e, s>>] = window[<<e, s>>] /\ signal'[<<e, s, kk>>] = signal[<<e, s, kk>>]
      BY <2>1, <2>2
    <3>2. BlockArrived(e, s, kk)
      BY <1>3, <3>1 DEF WindowInv
    <3> QED
      BY <3>1, <3>2 DEF BlockArrived
  <2>3. CASE <<e, s>> = <<d, peer>>
    <3> DEFINE w == window[<<d, peer>>]
    <3>1. window'[<<e, s>>] = Over(x, w)
      BY <2>1, <2>3
    <3> HIDE DEF w
    <3>2. /\ DOMAIN Over(x, w) = DOMAIN x \cup DOMAIN w
          /\ \A key \in DOMAIN x : Over(x, w)[key] = x[key]
          /\ \A key \in DOMAIN w \ DOMAIN x : Over(x, w)[key] = w[key]
      BY OverAt
    <3>3. CASE i \in DOMAIN x
      BY <2>3, <3>1, <3>2, <3>3
    <3>4. CASE i \notin DOMAIN x
      <4>1. kk # b
        BY <3>4
      <4>2. signal'[<<e, s, kk>>] = signal[<<e, s, kk>>]
        BY <2>1, <4>1
      <4>3. BlockArrived(e, s, kk)
        BY <1>3, <4>2 DEF WindowInv
      <4> QED
        BY <2>3, <3>1, <3>2, <3>4, <4>3 DEF w, BlockArrived
    <3> QED
      BY <3>3, <3>4
  <2> QED
    BY <2>2, <2>3
<1> QED
  BY <1>1, <1>2, <1>3 DEF WindowInv

\* What a ring step of a device leaves alone of its records.
LEMMA RingKeeps ==
  ASSUME Same, Chosen, NEW r, DeviceInv(r), Multi, at[r] \in {2, 4}, BlockDone(r),
         \A nm : nm \notin {"S_out", "Srecv", "dStot", "dgam"} => Keeps(nm, r)
  PROVE  /\ Typed(r)' /\ WalkKept(r)' /\ WalkOnly(r)' /\ DecaysKept(r)'
         /\ AdjointsKept(r)' /\ ReverseKept(r)'
<1>1. /\ blk[r] \in 0..(plan.k - 1) /\ plan.k \in Nat \ {0} /\ Multi' = Multi /\ plan' = plan
  BY ChosenIs, SameShape DEF DeviceInv, Typed, Same
<1>2. at'[r] \in {at[r], at[r] + 1}
  BY DEF BlockDone
<1>3. Typed(r)'
  <2>1. CASE blk[r] = plan.k - 1 /\ at'[r] = at[r] + 1 /\ blk'[r] = 0
    BY <1>1, <2>1 DEF Typed
  <2>2. CASE blk[r] < plan.k - 1 /\ at'[r] = at[r] /\ blk'[r] = blk[r] + 1
    BY <1>1, <2>2 DEF Typed
  <2> QED
    BY <2>1, <2>2 DEF BlockDone
<1>4. /\ Keeps("Ssnap", r) /\ Keeps("Gsnap", r) /\ Keeps("Cprev", r) /\ Keeps("Stot", r)
      /\ Keeps("Bs", r) /\ Keeps("dH", r) /\ Keeps("dSrecv", r) /\ Keeps("dSl", r)
  OBVIOUS
<1>5. WalkKept(r)' /\ WalkOnly(r)' /\ DecaysKept(r)'
  BY <1>2, <1>4, KeepWalk, KeepWalkOnly, KeepDecays DEF DeviceInv
<1>6. AdjointsKept(r)'
  BY <1>2, <1>4, KeepAdjoints DEF DeviceInv
<1>7. ReverseKept(r)'
  BY <1>4, KeepReverse DEF DeviceInv
<1> QED
  BY <1>3, <1>5, <1>6, <1>7

\* A step of the reverse ring keeps the boundary, and one of the forward ring
\* what the reverse ring gave: nothing yet.
LEMMA OtherRing ==
  ASSUME Same, Chosen, NEW r, DeviceInv(r), Multi, BlockDone(r)
  PROVE  /\ at[r] = 2 => EndKept(r)'
         /\ at[r] = 4 /\ Keeps("Srecv", r) => BoundaryKept(r)'
<1>1. at'[r] \in {at[r], at[r] + 1}
  BY DEF BlockDone
<1>2. at[r] = 2 => EndKept(r)'
  BY <1>1 DEF EndKept
<1>3. ASSUME at[r] = 4, Keeps("Srecv", r)
      PROVE  BoundaryKept(r)'
  BY <1>3, KeepBoundary DEF DeviceInv
<1> QED
  BY <1>2, <1>3

\* The blocks a device has when it has stored another.
LEMMA BlockStored ==
  ASSUME Chosen, NEW r, Typed(r), BlockDone(r), NEW a \in Nat, at[r] = a,
         NEW kk \in 0..(plan.k - 1), at'[r] >= a + 1 \/ (at'[r] = a /\ kk < blk'[r])
  PROVE  kk = blk[r] \/ kk < blk[r]
<1>1. blk[r] \in 0..(plan.k - 1) /\ plan.k \in Nat \ {0}
  BY ChosenIs DEF Typed
<1> QED
  BY <1>1 DEF BlockDone

LEMMA BoundaryStored ==
  ASSUME Same, Chosen, NEW r, DeviceInv(r), Multi, at[r] = 2, BlockDone(r),
         NEW x, DOMAIN x = BlockRows(blk[r]),
         \A i \in BlockRows(blk[r]), j \in Values : x[i][j] = StateAt(input, FirstChunk(r), i, j),
         <<"Srecv", r>> \in DOMAIN heap', heap'[<<"Srecv", r>>] = Stored("Srecv", r, x)[<<"Srecv", r>>]
  PROVE  BoundaryKept(r)'
<1>1. /\ input' = input /\ plan' = plan /\ Multi' = Multi /\ FirstChunk(r)' = FirstChunk(r)
      /\ \A kk : BlockRows(kk)' = BlockRows(kk)
  BY SameShape DEF Same
<1> DEFINE y == Stored("Srecv", r, x)[<<"Srecv", r>>]
<1>2. /\ \A i \in DOMAIN x : i \in DOMAIN y /\ y[i] = x[i]
      /\ Has("Srecv", r) =>
           \A i \in DOMAIN Load("Srecv", r) \ DOMAIN x : i \in DOMAIN y /\ y[i] = Load("Srecv", r)[i]
  <2>1. RowsOver(y, x, "Srecv", r)
    BY StoredIs
  <2> QED
    BY <2>1 DEF RowsOver
<1>3. Load("Srecv", r)' = y /\ Has("Srecv", r)'
  BY DEF Load, Has
<1> HIDE DEF y
<1> SUFFICES ASSUME NEW kk \in 0..(plan.k - 1), Multi, r # 0,
                    at'[r] >= 3 \/ (at'[r] = 2 /\ kk < blk'[r]), NEW i \in BlockRows(kk)
             PROVE  i \in DOMAIN y /\ \A j \in Values : y[i][j] = StateAt(input, FirstChunk(r), i, j)
  BY <1>1, <1>3 DEF BoundaryKept
<1>4. Typed(r)
  BY DEF DeviceInv
<1>5. CASE i \in DOMAIN x
  BY <1>2, <1>5
<1>6. CASE i \notin DOMAIN x
  <2>1. kk # blk[r]
    BY <1>6
  <2>2. kk < blk[r]
    BY <1>4, <2>1, BlockStored
  <2>3. /\ Has("Srecv", r) /\ i \in DOMAIN Load("Srecv", r)
        /\ \A j \in Values : Load("Srecv", r)[i][j] = StateAt(input, FirstChunk(r), i, j)
    BY <2>2 DEF DeviceInv, BoundaryKept
  <2> QED
    BY <1>2, <1>6, <2>3
<1> QED
  BY <1>5, <1>6

LEMMA EndStored ==
  ASSUME Same, Chosen, NEW r, DeviceInv(r), Multi, at[r] = 4, BlockDone(r),
         NEW x, DOMAIN x = BlockRows(blk[r]),
         \A i \in BlockRows(blk[r]), j \in Values :
           x[i][j] = IntoAt(input, FirstChunk(r) + PerRank, i, j),
         <<"dStot", r>> \in DOMAIN heap', heap'[<<"dStot", r>>] = Stored("dStot", r, x)[<<"dStot", r>>]
  PROVE  EndKept(r)'
<1>1. /\ input' = input /\ plan' = plan /\ Multi' = Multi /\ FirstChunk(r)' = FirstChunk(r)
      /\ PerRank' = PerRank /\ program' = program /\ \A kk : BlockRows(kk)' = BlockRows(kk)
  BY SameShape DEF Same
<1> DEFINE y == Stored("dStot", r, x)[<<"dStot", r>>]
<1>2. /\ \A i \in DOMAIN x : i \in DOMAIN y /\ y[i] = x[i]
      /\ Has("dStot", r) =>
           \A i \in DOMAIN Load("dStot", r) \ DOMAIN x : i \in DOMAIN y /\ y[i] = Load("dStot", r)[i]
  <2>1. RowsOver(y, x, "dStot", r)
    BY StoredIs
  <2> QED
    BY <2>1 DEF RowsOver
<1>3. Load("dStot", r)' = y /\ Has("dStot", r)'
  BY DEF Load, Has
<1> HIDE DEF y
<1> SUFFICES ASSUME NEW kk \in 0..(plan.k - 1), Multi, program.op # "forward",
                    at'[r] >= 5 \/ (at'[r] = 4 /\ kk < blk'[r]), NEW i \in BlockRows(kk)
             PROVE  /\ i \in DOMAIN y
                    /\ \A j \in Values : y[i][j] = IntoAt(input, FirstChunk(r) + PerRank, i, j)
  BY <1>1, <1>3 DEF EndKept
<1>4. Typed(r)
  BY DEF DeviceInv
<1>5. CASE i \in DOMAIN x
  BY <1>2, <1>5
<1>6. CASE i \notin DOMAIN x
  <2>1. kk # blk[r]
    BY <1>6
  <2>2. kk < blk[r]
    BY <1>4, <2>1, BlockStored
  <2>3. /\ Has("dStot", r) /\ i \in DOMAIN Load("dStot", r)
        /\ \A j \in Values : Load("dStot", r)[i][j] = IntoAt(input, FirstChunk(r) + PerRank, i, j)
    BY <2>2 DEF DeviceInv, EndKept
  <2> QED
    BY <1>2, <1>6, <2>3
<1> QED
  BY <1>5, <1>6

-----------------------------------------------------------------------------
(* What the rings send *)

\* The state a device ends with: the one it starts from decayed by the gates
\* of its slice, and its own.
LEMMA ForwardOut ==
  ASSUME PyptoInv, NEW r \in Devices, at[r] >= 2, NEW i \in Keys, NEW j \in Values
  PROVE  /\ Load("Stot", r)[i][j] \in Int /\ Gamma(r, i) \in Int
         /\ StateAt(input, FirstChunk(r), i, j) \in Int
         /\ (Load("Stot", r)[i][j] + Gamma(r, i) * StateAt(input, FirstChunk(r), i, j)) % Prime
              = StateAt(input, FirstChunk(r + 1), i, j)
<1>1. Chosen /\ IsInput(input) /\ WalkKept(r)
  BY ChosenIs DEF PyptoInv, DeviceInv
<1>2. /\ PerRank \in Nat /\ FirstChunk(r) \in Nat /\ P * N \in Int
      /\ FirstChunk(r) + PerRank = FirstChunk(r + 1) /\ FirstChunk(r) + PerRank <= P * N
  <2>1. P \in Nat /\ N \in Nat
    BY <1>1, ChosenIs
  <2> QED
    BY <1>1, <2>1, DevicesAre
<1> DEFINE u == FirstChunk(r)
           tot == Load("Stot", r)[i][j]
           s == StateAt(input, u, i, j)
           e == StateAt(input, u + PerRank, i, j)
           g == DecayOf(input, u, PerRank, i)
<1>3. tot \in Int /\ Res(e) = Res(g * s + tot)
  BY <1>1 DEF WalkKept, WalkRecords
<1>4. u \in 0..(P * N) /\ u + PerRank \in 0..(P * N)
  BY <1>2
<1>5. s \in Int /\ Res(e) = e
  BY <1>1, <1>4, StateAtIs
<1>6. Gamma(r, i) = g
  BY <1>1, GammaIs
<1>7. g \in Int
  <2>1. g \in 0..(Prime - 1)
    BY <1>1, <1>2, DecayOfIs
  <2> QED
    BY <2>1
<1>8. u + PerRank = FirstChunk(r + 1)
  BY <1>2
<1> HIDE DEF tot, s, e, g, u
<1>9. g * s \in Int
  BY <1>5, <1>7
<1>10. tot + g * s = g * s + tot
  BY <1>3, <1>9
<1>11. (tot + g * s) % Prime = e
  BY <1>3, <1>5, <1>10 DEF Res, Residue
<1> QED
  BY <1>3, <1>5, <1>6, <1>7, <1>8, <1>11 DEF tot, s, e, u

\* The gradient of the state a device starts from.
LEMMA ReverseOut ==
  ASSUME PyptoInv, NEW r \in Devices, Multi, at[r] >= 4, program.op # "forward",
         NEW i \in Keys, NEW j \in Values
  PROVE  /\ Load("dSrecv", r)[i][j] \in Int /\ Gamma(r, i) \in Int
         /\ IntoAt(input, FirstChunk(r) + PerRank, i, j) \in Int
         /\ (Load("dSrecv", r)[i][j]
               + Gamma(r, i) * IntoAt(input, FirstChunk(r) + PerRank, i, j)) % Prime
              = IntoAt(input, FirstChunk(r - 1) + PerRank, i, j)
<1>1. Chosen /\ IsInput(input) /\ AdjointsKept(r)
  BY ChosenIs DEF PyptoInv, DeviceInv
<1>2. /\ PerRank \in Nat /\ FirstChunk(r) \in Nat /\ P * N \in Int /\ r \in Nat
      /\ FirstChunk(r) + PerRank <= P * N
  <2>1. P \in Nat /\ N \in Nat
    BY <1>1, ChosenIs
  <2> QED
    BY <1>1, <2>1, DevicesAre
<1> DEFINE u == FirstChunk(r)
           ds == Load("dSrecv", r)[i][j]
           e == IntoAt(input, u + PerRank, i, j)
           s == IntoAt(input, u, i, j)
           g == DecayOf(input, u, PerRank, i)
<1>3. ds \in Int /\ Res(s) = Res(g * e + ds)
  BY <1>1 DEF AdjointsKept, AdjointRecords
<1>4. u \in 0..(P * N) /\ u + PerRank \in 0..(P * N)
  BY <1>2
<1>5. e \in Int /\ Res(s) = s
  BY <1>1, <1>4, IntoAtIs
<1>6. Gamma(r, i) = g
  BY <1>1, GammaIs
<1>7. g \in Int
  <2>1. g \in 0..(Prime - 1)
    BY <1>1, <1>2, DecayOfIs
  <2> QED
    BY <2>1
<1>8. FirstChunk(r - 1) + PerRank = u
  <2>1. PICK m \in Nat : m = PerRank
    BY <1>2
  <2>2. (r - 1) * m + m = r * m
    BY <1>2
  <2> QED
    BY <2>1, <2>2 DEF FirstChunk
<1> HIDE DEF ds, s, e, g, u
<1>9. g * e \in Int
  BY <1>5, <1>7
<1>10. ds + g * e = g * e + ds
  BY <1>3, <1>9
<1>11. (ds + g * e) % Prime = s
  BY <1>3, <1>5, <1>10 DEF Res, Residue
<1> QED
  BY <1>3, <1>5, <1>6, <1>7, <1>8, <1>11 DEF ds, s, e, u

\* A device of several is rank 0 without a boundary, or the last, whose last
\* state nothing reads.
LEMMA EndsOfRing ==
  ASSUME PyptoInv, Multi, NEW i \in Keys, NEW j \in Values
  PROVE  /\ StateAt(input, FirstChunk(0), i, j) = 0
         /\ IntoAt(input, FirstChunk(P - 1) + PerRank, i, j) = 0
<1>1. Chosen /\ IsInput(input) /\ P \in Nat /\ N \in Nat
  BY ChosenIs DEF PyptoInv
<1>2. PerRank = N
  BY <1>1, DevicesAre DEF Multi
<1>3. FirstChunk(0) = 0 /\ FirstChunk(P - 1) + PerRank = P * N
  BY <1>1, <1>2 DEF FirstChunk
<1> QED
  BY <1>1, <1>3, StateAtIs, IntoAtIs

LEMMA RingFrame ==
  ASSUME PyptoInv, NEW r \in Devices, NextBlock(r), Multi, at[r] \in {2, 4},
         \A nm, s : s # r \/ nm \notin {"S_out", "Srecv", "dStot", "dgam"} => Keeps(nm, s),
         BoundaryKept(r)', EndKept(r)', WindowInv'
  PROVE  PyptoInv'
<1>1. /\ Same /\ BlockDone(r) /\ DOMAIN at' = Devices /\ DOMAIN blk' = Devices
      /\ \A s \in Devices \ {r} : at'[s] = at[s] /\ blk'[s] = blk[s]
  BY NextBlockIs
<1>2. Chosen /\ DeviceInv(r)
  BY DEF PyptoInv
<1>3. \A nm : nm \notin {"S_out", "Srecv", "dStot", "dgam"} => Keeps(nm, r)
  OBVIOUS
<1>4. DeviceInv(r)'
  <2>1. /\ Typed(r)' /\ WalkKept(r)' /\ WalkOnly(r)' /\ DecaysKept(r)'
        /\ AdjointsKept(r)' /\ ReverseKept(r)'
    BY <1>1, <1>2, <1>3, RingKeeps
  <2> QED
    BY <2>1 DEF DeviceInv
<1>5. ASSUME NEW s \in Devices, s # r
      PROVE  DeviceInv(s)'
  <2>1. \A nm : Keeps(nm, s)
    BY <1>5
  <2>2. DeviceInv(s) /\ at'[s] = at[s] /\ blk'[s] = blk[s]
    BY <1>1, <1>5 DEF PyptoInv
  <2> QED
    BY <1>1, <2>1, <2>2, KeepDevice
<1>6. Devices' = Devices /\ Chosen'
  BY <1>1, <1>2, SameShape
<1> QED
  BY <1>1, <1>4, <1>5, <1>6 DEF PyptoInv

\* A step of the forward ring stores under one name.
LEMMA ForwardFrame ==
  ASSUME PyptoInv, NEW r \in Devices, NextBlock(r), Multi, at[r] = 2,
         NEW nm0 \in {"S_out", "Srecv"}, NEW x, heap' = Over(Stored(nm0, r, x), heap),
         BoundaryKept(r)', WindowInv'
  PROVE  PyptoInv'
<1>1. DOMAIN Stored(nm0, r, x) = {<<nm0, r>>}
  BY StoredIs
<1>2. ASSUME NEW nm, NEW s, s # r \/ nm \notin {"S_out", "Srecv", "dStot", "dgam"}
      PROVE  Keeps(nm, s)
  <2>1. <<nm, s>> \notin DOMAIN Stored(nm0, r, x)
    BY <1>1, <1>2
  <2> QED
    BY <2>1, OverKeeps
<1>3. EndKept(r)'
  BY NextBlockIs, OtherRing DEF PyptoInv
<1> QED
  BY <1>2, <1>3, RingFrame

LEMMA ReverseFrame ==
  ASSUME PyptoInv, NEW r \in Devices, NextBlock(r), Multi, at[r] = 4,
         NEW x, DOMAIN x = BlockRows(blk[r]),
         \A i \in BlockRows(blk[r]), j \in Values :
           x[i][j] = IntoAt(input, FirstChunk(r) + PerRank, i, j),
         NEW y, heap' = Over(Stored("dStot", r, x), Over(Stored("dgam", r, y), heap)),
         WindowInv'
  PROVE  PyptoInv'
<1> DEFINE t == Stored("dStot", r, x)
           t2 == Stored("dgam", r, y)
           h == Over(t2, heap)
<1>1. DOMAIN t = {<<"dStot", r>>} /\ DOMAIN t2 = {<<"dgam", r>>}
  BY StoredIs
<1>2. heap' = Over(t, h)
  OBVIOUS
<1> HIDE DEF t, t2
<1>3. /\ DOMAIN Over(t2, heap) = DOMAIN t2 \cup DOMAIN heap
      /\ \A key \in DOMAIN t2 : Over(t2, heap)[key] = t2[key]
      /\ \A key \in DOMAIN heap \ DOMAIN t2 : Over(t2, heap)[key] = heap[key]
  BY OverAt
<1>4. /\ DOMAIN h = DOMAIN t2 \cup DOMAIN heap
      /\ \A key \in DOMAIN heap \ DOMAIN t2 : h[key] = heap[key]
  BY <1>3
<1>5. /\ DOMAIN Over(t, h) = DOMAIN t \cup DOMAIN h
      /\ \A key \in DOMAIN t : Over(t, h)[key] = t[key]
      /\ \A key \in DOMAIN h \ DOMAIN t : Over(t, h)[key] = h[key]
  BY OverAt
<1> HIDE DEF h
<1>6. <<"dStot", r>> \in DOMAIN heap' /\ heap'[<<"dStot", r>>] = t[<<"dStot", r>>]
  BY <1>1, <1>2, <1>5
<1>7. ASSUME NEW nm, NEW s, s # r \/ nm \notin {"dStot", "dgam"}
      PROVE  Keeps(nm, s)
  <2>1. <<nm, s>> \notin DOMAIN t /\ <<nm, s>> \notin DOMAIN t2
    BY <1>1, <1>7
  <2> QED
    BY <1>2, <1>4, <1>5, <2>1 DEF Keeps
<1>8. Chosen /\ DeviceInv(r) /\ Same /\ BlockDone(r)
  BY NextBlockIs DEF PyptoInv
<1>9. EndKept(r)'
  BY <1>6, <1>8, EndStored DEF t
<1>10. BoundaryKept(r)'
  BY <1>7, <1>8, OtherRing
<1> QED
  BY <1>7, <1>9, <1>10, RingFrame

\* A block of a ring is rows of a state.
LEMMA BlockInside ==
  ASSUME Chosen, NEW kk \in 0..(plan.k - 1)
  PROVE  BlockRows(kk) \subseteq Keys
<1>1. plan.k \in Nat \ {0} /\ DK \in Nat \ {0} /\ DK % plan.k = 0
  BY ChosenIs
<1>2. PICK k \in Nat \ {0} : k = plan.k
  BY <1>1
<1>3. PICK q \in Nat : q = DK \div k
  BY <1>1, <1>2
<1>4. DK = k * q
  BY <1>1, <1>2, <1>3
<1>5. SUFFICES ASSUME NEW i \in BlockRows(kk)
               PROVE  i \in Keys
  OBVIOUS
<1>6. i \in (kk * q)..(kk * q + q - 1) /\ kk \in 0..(k - 1)
  BY <1>2, <1>3, <1>5 DEF BlockRows
<1>7. kk \in Int /\ 0 <= kk /\ kk <= k - 1
  BY <1>2, <1>6
<1>8. kk * q \in Int /\ 0 <= kk * q
  BY <1>7
<1>9. kk * q + q <= k * q
  <2>1. (k - 1 - kk) * q >= 0
    BY <1>7
  <2>2. (k - 1 - kk) * q = k * q - kk * q - q
    BY <1>7
  <2> QED
    BY <2>1, <2>2, <1>7
<1> QED
  BY <1>4, <1>6, <1>8, <1>9 DEF Keys

\* Where a device of a ring stands, and what its next block is.
RingAt(r, a) ==
  /\ Same /\ Chosen /\ WindowInv /\ Multi /\ at[r] = a
  /\ blk[r] \in 0..(plan.k - 1) /\ BlockRows(blk[r]) \subseteq Keys

LEMMA RingAtIs ==
  ASSUME PyptoInv, NEW r \in Devices, NextBlock(r),
         Running(r) \in {"first", "middle", "last", "source", "bwd_middle", "terminal"}
  PROVE  /\ Running(r) \in {"first", "middle", "last"} =>
              RingAt(r, 2) /\ Running(r) = ForwardStep(r)
         /\ Running(r) \in {"source", "bwd_middle", "terminal"} =>
              RingAt(r, 4) /\ Running(r) = ReverseStep(r) /\ program.op # "forward"
<1>1. Chosen /\ DeviceInv(r) /\ WindowInv /\ Same /\ Typed(r)
  BY NextBlockIs DEF PyptoInv, DeviceInv
<1>2. StageAt(r) /\ blk[r] \in 0..(plan.k - 1)
  BY <1>1, StageIs DEF Typed
<1>3. BlockRows(blk[r]) \subseteq Keys
  BY <1>1, <1>2, BlockInside
<1> QED
  BY <1>1, <1>2, <1>3 DEF StageAt, RingAt

LEMMA FirstStep ==
  ASSUME PyptoInv, NEW r \in Devices, First(r)
  PROVE  PyptoInv'
<1> DEFINE Out(i, j) == Load("Stot", r)[i][j]
           x == Tile(blk[r], Out)
           b == blk[r]
<1>1. /\ Running(r) = "first" /\ NextBlock(r)
      /\ heap' = Over(Stored("S_out", r, x), heap)
      /\ window' = [window EXCEPT ![<<"forward", r + 1>>] = Over(x, window[<<"forward", r + 1>>])]
      /\ signal' = [signal EXCEPT ![<<"forward", r + 1, b>>] = signal[<<"forward", r + 1, b>>] + 1]
  BY Zenon DEF First, Send
<1> HIDE DEF x
<1>2. RingAt(r, 2) /\ r = 0
  <2>1. RingAt(r, 2) /\ Running(r) = ForwardStep(r)
    BY <1>1, RingAtIs
  <2> QED
    BY <1>1, <2>1 DEF ForwardStep
<1>3. DOMAIN x = BlockRows(b) /\ \A i \in BlockRows(b), j \in Values : x[i][j] = Out(i, j) % Prime
  BY DEF x, Tile
<1>4. ASSUME NEW i \in BlockRows(b), NEW j \in Values
      PROVE  x[i][j] = Due("forward", r + 1, i, j)
  <2>1. i \in Keys /\ at[r] >= 2
    BY <1>2 DEF RingAt
  <2>2. PICK s : s = StateAt(input, FirstChunk(r), i, j)
    OBVIOUS
  <2>3. PICK g \in Int : g = Gamma(r, i)
    BY <2>1, ForwardOut
  <2>4. PICK o \in Int : o = Out(i, j)
    BY <2>1, ForwardOut
  <2>5. s = 0
    BY <1>2, <2>1, <2>2, EndsOfRing DEF RingAt
  <2>6. (o + g * s) % Prime = StateAt(input, FirstChunk(r + 1), i, j)
    BY <2>1, <2>2, <2>3, <2>4, ForwardOut
  <2>7. o + g * s = o
    BY <2>3, <2>4, <2>5
  <2> QED
    BY <1>3, <2>4, <2>6, <2>7 DEF Due
<1>5. WindowInv'
  <2>1. Sends("forward", r + 1, b, x)
    BY <1>1 DEF Sends
  <2>2. BlockDue("forward", r + 1, b, x)
    BY <1>2, <1>3, <1>4 DEF BlockDue
  <2> QED
    BY <1>2, <2>1, <2>2, Sent DEF RingAt
<1>6. BoundaryKept(r)'
  BY <1>2 DEF BoundaryKept
<1> QED
  BY <1>1, <1>2, <1>5, <1>6, ForwardFrame DEF RingAt

\* What a device receives is what the ring owes it.
LEMMA ReceivedIs ==
  ASSUME PyptoInv, NEW r \in Devices, NEW d \in {"forward", "reverse"}, Arrived(d, r),
         blk[r] \in 0..(plan.k - 1), NEW i \in BlockRows(blk[r]), NEW j \in Values
  PROVE  Received(d, r, i, j) = Due(d, r, i, j)
<1>1. BlockArrived(d, r, blk[r])
  BY DEF PyptoInv, WindowInv, Arrived
<1> QED
  BY <1>1 DEF BlockArrived, Received

\* What it stores of it is the same: the states are residues already.
LEMMA DueIs ==
  ASSUME PyptoInv, NEW r \in Devices, NEW i \in Keys, NEW j \in Values, NEW d
  PROVE  Due(d, r, i, j) \in Int /\ Due(d, r, i, j) % Prime = Due(d, r, i, j)
<1>1. Chosen /\ IsInput(input)
  BY ChosenIs DEF PyptoInv
<1>2. FirstChunk(r) \in 0..(P * N) /\ FirstChunk(r) + PerRank \in 0..(P * N)
  <2>1. P \in Nat /\ N \in Nat
    BY <1>1, ChosenIs
  <2>2. /\ PerRank \in Nat /\ FirstChunk(r) \in Nat /\ P * N \in Int
        /\ FirstChunk(r) + PerRank <= P * N
    BY <1>1, <2>1, DevicesAre
  <2> QED
    BY <2>2
<1>3. /\ StateAt(input, FirstChunk(r), i, j) \in Int
      /\ Res(StateAt(input, FirstChunk(r), i, j)) = StateAt(input, FirstChunk(r), i, j)
  BY <1>1, <1>2, StateAtIs
<1>4. /\ IntoAt(input, FirstChunk(r) + PerRank, i, j) \in Int
      /\ Res(IntoAt(input, FirstChunk(r) + PerRank, i, j))
           = IntoAt(input, FirstChunk(r) + PerRank, i, j)
  BY <1>1, <1>2, IntoAtIs
<1> QED
  BY <1>3, <1>4 DEF Due, Res, Residue

LEMMA MiddleStep ==
  ASSUME PyptoInv, NEW r \in Devices, Middle(r)
  PROVE  PyptoInv'
<1> DEFINE Recv(i, j) == Received("forward", r, i, j)
           Out(i, j) == Load("Stot", r)[i][j] + Gamma(r, i) * Recv(i, j)
           x == Tile(blk[r], Recv)
           y == Tile(blk[r], Out)
           b == blk[r]
<1>1. /\ Running(r) = "middle" /\ NextBlock(r) /\ Arrived("forward", r)
      /\ heap' = Over(Stored("Srecv", r, x), heap)
      /\ window' = [window EXCEPT ![<<"forward", r + 1>>] = Over(y, window[<<"forward", r + 1>>])]
      /\ signal' = [signal EXCEPT ![<<"forward", r + 1, b>>] = signal[<<"forward", r + 1, b>>] + 1]
  BY Zenon DEF Middle, Send
<1> HIDE DEF x, y
<1>2. RingAt(r, 2)
  BY <1>1, RingAtIs
<1>3. /\ DOMAIN x = BlockRows(b)
      /\ \A i \in BlockRows(b), j \in Values : x[i][j] = Recv(i, j) % Prime
  BY DEF x, Tile
<1>4. /\ DOMAIN y = BlockRows(b)
      /\ \A i \in BlockRows(b), j \in Values : y[i][j] = Out(i, j) % Prime
  BY DEF y, Tile
<1>5. ASSUME NEW i \in BlockRows(b), NEW j \in Values
      PROVE  /\ x[i][j] = StateAt(input, FirstChunk(r), i, j)
             /\ y[i][j] = Due("forward", r + 1, i, j)
  <2>1. i \in Keys /\ at[r] >= 2
    BY <1>2 DEF RingAt
  <2>2. Recv(i, j) = StateAt(input, FirstChunk(r), i, j)
    BY <1>1, <1>2, ReceivedIs DEF RingAt, Due
  <2>3. x[i][j] = StateAt(input, FirstChunk(r), i, j)
    <3>1. Due("forward", r, i, j) % Prime = Due("forward", r, i, j)
      BY <2>1, DueIs
    <3> QED
      BY <1>3, <2>2, <3>1 DEF Due
  <2>4. Out(i, j) % Prime = StateAt(input, FirstChunk(r + 1), i, j)
    BY <2>1, <2>2, ForwardOut
  <2> QED
    BY <1>4, <2>3, <2>4 DEF Due
<1>6. WindowInv'
  <2>1. Sends("forward", r + 1, b, y)
    BY <1>1 DEF Sends
  <2>2. BlockDue("forward", r + 1, b, y)
    BY <1>2, <1>4, <1>5 DEF BlockDue
  <2> QED
    BY <1>2, <2>1, <2>2, Sent DEF RingAt
<1>7. Same /\ Chosen /\ DeviceInv(r) /\ BlockDone(r)
  BY <1>1, NextBlockIs DEF PyptoInv
<1>8. /\ <<"Srecv", r>> \in DOMAIN heap'
      /\ heap'[<<"Srecv", r>>] = Stored("Srecv", r, x)[<<"Srecv", r>>]
  <2>1. <<"Srecv", r>> \in DOMAIN Stored("Srecv", r, x)
    BY StoredIs
  <2> QED
    BY <1>1, <2>1, OverSets
<1>9. BoundaryKept(r)'
  BY <1>2, <1>3, <1>5, <1>7, <1>8, BoundaryStored DEF RingAt
<1> QED
  BY <1>1, <1>2, <1>6, <1>9, ForwardFrame DEF RingAt

LEMMA LastStep ==
  ASSUME PyptoInv, NEW r \in Devices, Last(r)
  PROVE  PyptoInv'
<1> DEFINE Recv(i, j) == Received("forward", r, i, j)
           x == Tile(blk[r], Recv)
           b == blk[r]
<1>1. /\ Running(r) = "last" /\ NextBlock(r) /\ Arrived("forward", r)
      /\ heap' = Over(Stored("Srecv", r, x), heap) /\ UNCHANGED <<window, signal>>
  BY Zenon DEF Last, Keep
<1> HIDE DEF x
<1>2. RingAt(r, 2)
  BY <1>1, RingAtIs
<1>3. /\ DOMAIN x = BlockRows(b)
      /\ \A i \in BlockRows(b), j \in Values : x[i][j] = Recv(i, j) % Prime
  BY DEF x, Tile
<1>5. ASSUME NEW i \in BlockRows(b), NEW j \in Values
      PROVE  x[i][j] = StateAt(input, FirstChunk(r), i, j)
  <2>1. i \in Keys
    BY <1>2 DEF RingAt
  <2>2. Recv(i, j) = Due("forward", r, i, j)
    BY <1>1, <1>2, ReceivedIs DEF RingAt
  <2>3. Due("forward", r, i, j) % Prime = Due("forward", r, i, j)
    BY <2>1, DueIs
  <2> QED
    BY <1>3, <2>2, <2>3 DEF Due
<1>6. WindowInv'
  BY <1>1, <1>2, KeepWindow DEF RingAt
<1>7. Same /\ Chosen /\ DeviceInv(r) /\ BlockDone(r)
  BY <1>1, NextBlockIs DEF PyptoInv
<1>8. /\ <<"Srecv", r>> \in DOMAIN heap'
      /\ heap'[<<"Srecv", r>>] = Stored("Srecv", r, x)[<<"Srecv", r>>]
  <2>1. <<"Srecv", r>> \in DOMAIN Stored("Srecv", r, x)
    BY StoredIs
  <2> QED
    BY <1>1, <2>1, OverSets
<1>9. BoundaryKept(r)'
  BY <1>2, <1>3, <1>5, <1>7, <1>8, BoundaryStored DEF RingAt
<1> QED
  BY <1>1, <1>2, <1>6, <1>9, ForwardFrame DEF RingAt

LEMMA SourceStep ==
  ASSUME PyptoInv, NEW r \in Devices, Source(r)
  PROVE  PyptoInv'
<1> DEFINE Nil(i, j) == 0
           Row(i) == 0
           Msg(i, j) == Load("dSrecv", r)[i][j]
           x == Tile(blk[r], Nil)
           y == Column(blk[r], Row)
           m == Tile(blk[r], Msg)
           b == blk[r]
<1>1. /\ Running(r) = "source" /\ NextBlock(r)
      /\ heap' = Over(Stored("dStot", r, x), Over(Stored("dgam", r, y), heap))
      /\ window' = [window EXCEPT ![<<"reverse", r - 1>>] = Over(m, window[<<"reverse", r - 1>>])]
      /\ signal' = [signal EXCEPT ![<<"reverse", r - 1, b>>] = signal[<<"reverse", r - 1, b>>] + 1]
  BY Zenon DEF Source, Send
<1> HIDE DEF x, y, m
<1>2. RingAt(r, 4) /\ r = P - 1 /\ program.op # "forward"
  <2>1. RingAt(r, 4) /\ Running(r) = ReverseStep(r) /\ program.op # "forward"
    BY <1>1, RingAtIs
  <2> QED
    BY <1>1, <2>1 DEF ReverseStep
<1>3. DOMAIN x = BlockRows(b) /\ \A i \in BlockRows(b), j \in Values : x[i][j] = 0
  <2>1. Prime \in Nat \ {0}
    BY Field
  <2>2. 0 % Prime = 0
    BY <2>1
  <2> QED
    BY <2>2 DEF x, Tile
<1>4. DOMAIN m = BlockRows(b) /\ \A i \in BlockRows(b), j \in Values : m[i][j] = Msg(i, j) % Prime
  BY DEF m, Tile
<1>5. ASSUME NEW i \in BlockRows(b), NEW j \in Values
      PROVE  /\ x[i][j] = IntoAt(input, FirstChunk(r) + PerRank, i, j)
             /\ m[i][j] = Due("reverse", r - 1, i, j)
  <2>1. i \in Keys /\ at[r] >= 4 /\ Multi
    BY <1>2 DEF RingAt
  <2>2. PICK s : s = IntoAt(input, FirstChunk(r) + PerRank, i, j)
    OBVIOUS
  <2>3. PICK g \in Int : g = Gamma(r, i)
    BY <1>2, <2>1, ReverseOut
  <2>4. PICK o \in Int : o = Msg(i, j)
    BY <1>2, <2>1, ReverseOut
  <2>5. s = 0
    BY <1>2, <2>1, <2>2, EndsOfRing
  <2>6. (o + g * s) % Prime = IntoAt(input, FirstChunk(r - 1) + PerRank, i, j)
    BY <1>2, <2>1, <2>2, <2>3, <2>4, ReverseOut
  <2>7. o + g * s = o
    BY <2>3, <2>4, <2>5
  <2> QED
    BY <1>3, <1>4, <2>2, <2>4, <2>5, <2>6, <2>7 DEF Due
<1>6. WindowInv'
  <2>1. Sends("reverse", r - 1, b, m)
    BY <1>1 DEF Sends
  <2>2. BlockDue("reverse", r - 1, b, m)
    BY <1>2, <1>4, <1>5 DEF BlockDue
  <2> QED
    BY <1>2, <2>1, <2>2, Sent DEF RingAt
<1> QED
  BY <1>1, <1>2, <1>3, <1>5, <1>6, ReverseFrame DEF RingAt

LEMMA BwdMiddleStep ==
  ASSUME PyptoInv, NEW r \in Devices, BwdMiddle(r)
  PROVE  PyptoInv'
<1> DEFINE d(i, j) == Received("reverse", r, i, j)
           Msg(i, j) == Load("dSrecv", r)[i][j] + Gamma(r, i) * d(i, j)
           dgam(i) == LET Term(j) == d(i, j) * Boundary(r, i, j) IN Total(DV, Term)
           x == Tile(blk[r], d)
           y == Column(blk[r], dgam)
           m == Tile(blk[r], Msg)
           b == blk[r]
<1>1. /\ Running(r) = "bwd_middle" /\ NextBlock(r) /\ Arrived("reverse", r)
      /\ heap' = Over(Stored("dStot", r, x), Over(Stored("dgam", r, y), heap))
      /\ window' = [window EXCEPT ![<<"reverse", r - 1>>] = Over(m, window[<<"reverse", r - 1>>])]
      /\ signal' = [signal EXCEPT ![<<"reverse", r - 1, b>>] = signal[<<"reverse", r - 1, b>>] + 1]
  BY Zenon DEF BwdMiddle, Send
<1> HIDE DEF x, y, m
<1>2. RingAt(r, 4) /\ program.op # "forward"
  BY <1>1, RingAtIs
<1>3. DOMAIN x = BlockRows(b) /\ \A i \in BlockRows(b), j \in Values : x[i][j] = d(i, j) % Prime
  BY DEF x, Tile
<1>4. DOMAIN m = BlockRows(b) /\ \A i \in BlockRows(b), j \in Values : m[i][j] = Msg(i, j) % Prime
  BY DEF m, Tile
<1>5. ASSUME NEW i \in BlockRows(b), NEW j \in Values
      PROVE  /\ x[i][j] = IntoAt(input, FirstChunk(r) + PerRank, i, j)
             /\ m[i][j] = Due("reverse", r - 1, i, j)
  <2>1. i \in Keys /\ at[r] >= 4 /\ Multi
    BY <1>2 DEF RingAt
  <2>2. d(i, j) = Due("reverse", r, i, j)
    BY <1>1, <1>2, ReceivedIs DEF RingAt
  <2>3. Due("reverse", r, i, j) % Prime = Due("reverse", r, i, j)
    BY <2>1, DueIs
  <2>4. Due("reverse", r, i, j) = IntoAt(input, FirstChunk(r) + PerRank, i, j)
    BY DEF Due
  <2>5. Msg(i, j) % Prime = IntoAt(input, FirstChunk(r - 1) + PerRank, i, j)
    BY <1>2, <2>1, <2>2, <2>4, ReverseOut
  <2> QED
    BY <1>3, <1>4, <2>2, <2>3, <2>4, <2>5 DEF Due
<1>6. WindowInv'
  <2>1. Sends("reverse", r - 1, b, m)
    BY <1>1 DEF Sends
  <2>2. BlockDue("reverse", r - 1, b, m)
    BY <1>2, <1>4, <1>5 DEF BlockDue
  <2> QED
    BY <1>2, <2>1, <2>2, Sent DEF RingAt
<1> QED
  BY <1>1, <1>2, <1>3, <1>5, <1>6, ReverseFrame DEF RingAt

LEMMA TerminalStep ==
  ASSUME PyptoInv, NEW r \in Devices, Terminal(r)
  PROVE  PyptoInv'
<1> DEFINE d(i, j) == Received("reverse", r, i, j)
           Row(i) == 0
           x == Tile(blk[r], d)
           y == Column(blk[r], Row)
           b == blk[r]
<1>1. /\ Running(r) = "terminal" /\ NextBlock(r) /\ Arrived("reverse", r)
      /\ heap' = Over(Stored("dStot", r, x), Over(Stored("dgam", r, y), heap))
      /\ UNCHANGED <<window, signal>>
  BY Zenon DEF Terminal, Keep
<1> HIDE DEF x, y
<1>2. RingAt(r, 4)
  BY <1>1, RingAtIs
<1>3. DOMAIN x = BlockRows(b) /\ \A i \in BlockRows(b), j \in Values : x[i][j] = d(i, j) % Prime
  BY DEF x, Tile
<1>4. ASSUME NEW i \in BlockRows(b), NEW j \in Values
      PROVE  x[i][j] = IntoAt(input, FirstChunk(r) + PerRank, i, j)
  <2>1. i \in Keys
    BY <1>2 DEF RingAt
  <2>2. d(i, j) = Due("reverse", r, i, j)
    BY <1>1, <1>2, ReceivedIs DEF RingAt
  <2>3. Due("reverse", r, i, j) % Prime = Due("reverse", r, i, j)
    BY <2>1, DueIs
  <2> QED
    BY <1>3, <2>2, <2>3 DEF Due
<1>5. WindowInv'
  BY <1>1, <1>2, KeepWindow DEF RingAt
<1> QED
  BY <1>1, <1>2, <1>3, <1>4, <1>5, ReverseFrame DEF RingAt

-----------------------------------------------------------------------------
(* The invariant of the fused programs *)

LEMMA PyptoStutter ==
  ASSUME PyptoInv, UNCHANGED vars
  PROVE  PyptoInv'
<1>1. Same /\ UNCHANGED <<at, blk, heap, window, signal>>
  BY DEF vars, Same
<1>2. Chosen' /\ Devices' = Devices /\ WindowInv'
  BY <1>1, SameShape, KeepWindow DEF PyptoInv
<1>3. ASSUME NEW r \in Devices
      PROVE  DeviceInv(r)'
  <2>1. \A nm : Keeps(nm, r)
    BY <1>1 DEF Keeps
  <2> QED
    BY <1>1, <2>1, KeepDevice DEF PyptoInv
<1> QED
  BY <1>1, <1>2, <1>3 DEF PyptoInv

LEMMA PyptoStep ==
  ASSUME PyptoInv, Next
  PROVE  PyptoInv'
<1>1. PICK r \in Devices : Kernel(r) \/ ForwardRing(r) \/ ReverseRing(r)
  BY Zenon DEF Next
<1>2. CASE Kernel(r)
  BY <1>2, KernelStep
<1>3. CASE First(r)
  BY <1>3, FirstStep
<1>4. CASE Middle(r)
  BY <1>4, MiddleStep
<1>5. CASE Last(r)
  BY <1>5, LastStep
<1>6. CASE Source(r)
  BY <1>6, SourceStep
<1>7. CASE BwdMiddle(r)
  BY <1>7, BwdMiddleStep
<1>8. CASE Terminal(r)
  BY <1>8, TerminalStep
<1> QED
  BY <1>1, <1>2, <1>3, <1>4, <1>5, <1>6, <1>7, <1>8, Zenon DEF ForwardRing, ReverseRing

\* The state before a chunk and the gradient after it, by token.
LEMMA StateBeforeIs ==
  ASSUME Chosen, NEW r \in Devices, NEW n \in Slice, NEW i \in Keys, NEW j \in Values
  PROVE  StateBefore(r, n, i, j) = StateAt(input, FirstChunk(r) + n, i, j)
<1>1. C \in Nat /\ FirstChunk(r) \in Nat /\ n \in Nat
  BY ChosenIs, DevicesAre
<1>2. TokenAt(r, n, 0) - 1 = (FirstChunk(r) + n) * C - 1
  BY <1>1 DEF TokenAt, FirstChunk
<1> QED
  BY <1>2 DEF StateBefore, StateAt

LEMMA AdjointAfterIs ==
  ASSUME Chosen, NEW r \in Devices, NEW n \in Slice, NEW i \in Keys, NEW j \in Values
  PROVE  AdjointAfter(r, n, i, j) = IntoAt(input, FirstChunk(r) + (n + 1), i, j)
<1>1. C \in Nat /\ FirstChunk(r) \in Nat /\ n \in Nat
  BY ChosenIs, DevicesAre
<1>2. PICK u \in Nat : u = FirstChunk(r) + n
  BY <1>1
<1>3. TokenAt(r, n, C - 1) + 1 = u * C + C
  <2>1. TokenAt(r, n, C - 1) = u * C + (C - 1)
    BY <1>2 DEF TokenAt, FirstChunk
  <2>2. PICK x \in Int : x = u * C
    BY <1>1
  <2> QED
    BY <1>1, <2>1, <2>2
<1>4. (FirstChunk(r) + (n + 1)) * C = u * C + C
  <2>1. FirstChunk(r) + (n + 1) = u + 1
    BY <1>1, <1>2
  <2>2. (u + 1) * C = u * C + C
    BY <1>1
  <2> QED
    BY <2>1, <2>2
<1>5. PICK t : t = u * C + C
  OBVIOUS
<1>6. AdjointAfter(r, n, i, j) = IF t = T THEN 0 ELSE (Gate(input, t, i) * AdjointState(input, i, j)[t]) % Prime
  BY <1>3, <1>5 DEF AdjointAfter
<1>7. IntoAt(input, FirstChunk(r) + (n + 1), i, j) = AdjointInto(input, i, j, t)
  BY <1>4, <1>5 DEF IntoAt
<1> QED
  BY <1>6, <1>7 DEF AdjointInto, Res, Residue

\* The boundary a kernel reads is the state its device starts from.
LEMMA BoundaryIs ==
  ASSUME PyptoInv, NEW r \in Devices, Multi => at[r] >= 3, NEW i \in Keys, NEW j \in Values
  PROVE  Boundary(r, i, j) = StateAt(input, FirstChunk(r), i, j)
<1>1. Chosen /\ DeviceInv(r) /\ IsInput(input)
  BY ChosenIs DEF PyptoInv
<1>2. CASE r = 0
  <2>1. FirstChunk(r) = 0
    <3>1. PerRank \in Nat
      BY <1>1, DevicesAre
    <3> QED
      BY <1>2, <3>1 DEF FirstChunk
  <2> QED
    BY <1>1, <1>2, <2>1, StateAtIs DEF Boundary
<1>3. CASE r # 0
  <2>1. Multi
    BY <1>3 DEF Devices, Multi
  <2>2. PICK kk \in 0..(plan.k - 1) : i \in BlockRows(kk)
    BY <1>1, BlocksCover
  <2> QED
    BY <1>1, <1>3, <2>1, <2>2 DEF Boundary, DeviceInv, BoundaryKept
<1> QED
  BY <1>2, <1>3

LEMMA PyptoRebuilds ==
  ASSUME PyptoInv
  PROVE  RebuiltIsState
<1> SUFFICES ASSUME NEW r \in Devices, NEW decays \in {"Gsnap", "Cprev"}, Has(decays, r),
                    at[r] > (IF program.ranks = 1 THEN 1 ELSE 2),
                    NEW n \in Slice, NEW i \in Keys, NEW j \in Values
             PROVE  Rebuilt(decays, r, n, i, j) % Prime = StateBefore(r, n, i, j)
  BY DEF RebuiltIsState
<1>1. Chosen /\ DeviceInv(r) /\ IsInput(input) /\ at[r] \in Nat
  BY ChosenIs DEF PyptoInv, DeviceInv, Typed
<1>2. decays = DecayName /\ at[r] >= 2 /\ (Multi => at[r] >= 3)
  BY <1>1 DEF DeviceInv, WalkOnly, Multi
<1>3. Boundary(r, i, j) = StateAt(input, FirstChunk(r), i, j)
  BY <1>2, BoundaryIs
<1>4. WalkRecords(input, FirstChunk(r), PerRank, Load("Ssnap", r), Load(decays, r), Load("Stot", r))
  BY <1>1, <1>2 DEF DeviceInv, WalkKept
<1>5. n \in 0..(PerRank - 1)
  BY <1>1, DevicesAre
<1>6. /\ Load(decays, r)[n][i] = DecayOf(input, FirstChunk(r), n, i)
      /\ Res(StateAt(input, FirstChunk(r) + n, i, j))
           = Res(DecayOf(input, FirstChunk(r), n, i) * StateAt(input, FirstChunk(r), i, j)
                   + Load("Ssnap", r)[n][i][j])
  BY <1>4, <1>5 DEF WalkRecords
<1>7. Res(Rebuilt(decays, r, n, i, j)) = Res(StateAt(input, FirstChunk(r) + n, i, j))
  BY <1>3, <1>6 DEF Rebuilt
<1>8. FirstChunk(r) + n \in 0..(P * N)
  <2>1. P \in Nat /\ N \in Nat
    BY <1>1, ChosenIs
  <2>2. FirstChunk(r) + n \in 0..(P * N - 1) /\ P * N \in Int
    BY <1>1, <2>1, DevicesAre
  <2> QED
    BY <2>2
<1>9. Res(StateAt(input, FirstChunk(r) + n, i, j)) = StateAt(input, FirstChunk(r) + n, i, j)
  BY <1>1, <1>8, StateAtIs
<1> QED
  BY <1>1, <1>7, <1>9, StateBeforeIs DEF Res, Residue

LEMMA PyptoAdjoints ==
  ASSUME PyptoInv
  PROVE  WalkIsAdjoint
<1> SUFFICES ASSUME NEW r \in Devices, NEW i \in Keys, NEW j \in Values
             PROVE  /\ \A kk \in 0..(plan.k - 1) :
                         signal[<<"reverse", r, kk>>] >= 1 /\ i \in BlockRows(kk) =>
                           Received("reverse", r, i, j) = AdjointAfter(r, PerRank - 1, i, j)
                    /\ Has("dSl", r) => \A n \in Slice :
                         Load("dSl", r)[n][i][j]
                           = (ChunkDecay(r, n, i) * AdjointAfter(r, n, i, j)) % Prime
  BY Zenon DEF WalkIsAdjoint
<1>1. Chosen /\ DeviceInv(r) /\ PerRank \in Nat \ {0} /\ FirstChunk(r) \in Nat
  BY DevicesAre DEF PyptoInv
<1>2. ASSUME NEW kk \in 0..(plan.k - 1), signal[<<"reverse", r, kk>>] >= 1, i \in BlockRows(kk)
      PROVE  Received("reverse", r, i, j) = AdjointAfter(r, PerRank - 1, i, j)
  <2>1. BlockArrived("reverse", r, kk)
    BY <1>2 DEF PyptoInv, WindowInv
  <2>2. Received("reverse", r, i, j) = IntoAt(input, FirstChunk(r) + PerRank, i, j)
    BY <1>2, <2>1 DEF BlockArrived, Received, Due
  <2>3. PICK n \in Slice : n = PerRank - 1
    BY <1>1 DEF Slice
  <2>4. FirstChunk(r) + (n + 1) = FirstChunk(r) + PerRank
    BY <1>1, <2>3
  <2>5. AdjointAfter(r, n, i, j) = IntoAt(input, FirstChunk(r) + (n + 1), i, j)
    BY <1>1, AdjointAfterIs
  <2> QED
    BY <2>2, <2>3, <2>4, <2>5
<1>3. ASSUME Has("dSl", r), NEW n \in Slice
      PROVE  Load("dSl", r)[n][i][j] = (ChunkDecay(r, n, i) * AdjointAfter(r, n, i, j)) % Prime
  BY <1>1, <1>3, AdjointAfterIs, ChunkDecayIs DEF DeviceInv, ReverseKept
<1> QED
  BY <1>2, <1>3

-----------------------------------------------------------------------------
(* The simpler backend computes in the same field *)

LEMMA SameExp ==
  ASSUME NEW x
  PROVE  Simpler!Exp(x) = Exp(x)
  BY Zenon DEF Simpler!Exp, Simpler!Powers, Exp, Powers

LEMMA SameSum ==
  ASSUME NEW n, NEW f
  PROVE  Simpler!SumOf(n, f) = SumOf(n, f)
  BY Zenon DEF Simpler!SumOf, SumOf

LEMMA SameProduct ==
  ASSUME NEW n, NEW f
  PROVE  Simpler!ProductOf(n, f) = ProductOf(n, f)
  BY Zenon DEF Simpler!ProductOf, ProductOf

LEMMA SameOver ==
  ASSUME NEW t, NEW h
  PROVE  Simpler!Over(t, h) = Over(t, h)
  BY Zenon DEF Simpler!Over, Simpler!Merged, Over, Merged

LEMMA SameNamed ==
  ASSUME NEW key, NEW x
  PROVE  Simpler!Named(key, x) = Named(key, x)
  BY Zenon DEF Simpler!Named, Named

LEMMA SameSets ==
  /\ Simpler!Ranks = Ranks /\ Simpler!Chunks = Chunks /\ Simpler!Rows = Rows
  /\ Simpler!Keys = Keys /\ Simpler!Values = Values /\ Simpler!L = L
  BY Zenon DEF Simpler!Ranks, Ranks, Simpler!Chunks, Chunks, Simpler!Rows, Rows,
     Simpler!Keys, Keys, Simpler!Values, Values, Simpler!L, L

LEMMA SameToken ==
  ASSUME NEW p, NEW n, NEW c
  PROVE  Simpler!Token(p, n, c) = Token(p, n, c)
  BY Zenon DEF Simpler!Token, Token, Simpler!L, L

LEMMA SameRunning ==
  ASSUME NEW in, NEW i, NEW j
  PROVE  Simpler!RunningState(in, i, j) = RunningState(in, i, j)
  BY Zenon DEF Simpler!RunningState, RunningState, Simpler!Gate, Gate, Simpler!Exp, Exp,
     Simpler!Powers, Powers, Simpler!T, T, Simpler!L, L

LEMMA SameAdjoint ==
  ASSUME NEW in, NEW i, NEW j
  PROVE  Simpler!AdjointState(in, i, j) = AdjointState(in, i, j)
  BY Zenon DEF Simpler!AdjointState, AdjointState, Simpler!Gate, Gate, Simpler!Exp, Exp,
     Simpler!Powers, Powers, Simpler!T, T, Simpler!L, L

LEMMA SameGate ==
  ASSUME NEW in, NEW t, NEW i
  PROVE  Simpler!Gate(in, t, i) = Gate(in, t, i)
  BY Zenon DEF Simpler!Gate, Gate, Simpler!Exp, Exp, Simpler!Powers, Powers

-----------------------------------------------------------------------------
(* The script of the host *)

\* Stage s runs for rank r at this place of the script.
Where(s, r) ==
  \/ s = "gate_cumsum" /\ place = 3 * r + 1
  \/ s = "chunk_h" /\ place = 3 * r + 2
  \/ s = "S_total" /\ place = 3 * r + 3
  \/ s = "boundary" /\ place = 3 * P + 1
  \/ op = "forward" /\ s \in {"shift_snaps", "chunk_o"} /\ place > 3 * P + 1
  \/ op = "backward" /\ s = "shift_snaps" /\ place = 3 * P + 3 * r + 2
  \/ op = "backward" /\ s = "grad_o" /\ place = 3 * P + 3 * r + 3
  \/ op = "backward" /\ s = "gate_o" /\ place = 3 * P + 3 * r + 4
  \/ op = "backward" /\ s = "boundary_backward" /\ place = 6 * P + 2
  \/ /\ op = "backward" /\ place > 6 * P + 2
     /\ s \in {"recurrence", "grad_h", "gate_h", "reverse_cumsum", "gate_grad"}

LEMMA EachRankIs ==
  ASSUME NEW s, NEW n \in Nat \ {0}, Len(s) = n
  PROVE  /\ Len(Simpler!EachRank(s)) = P * n
         /\ \A x \in 1..(P * n) :
              Simpler!EachRank(s)[x] = <<s[((x - 1) % n) + 1], (x - 1) \div n>>
<1>1. P * n \in Nat
  BY ShapeAssumption
<1>2. PICK z \in Nat : z = P * n
  BY <1>1
<1> QED
  BY <1>2 DEF Simpler!EachRank

LEMMA Stage1Is ==
  /\ Len(Simpler!Stage1) = 3 * P
  /\ \A x \in 1..(3 * P) :
       \E r \in Ranks :
         \/ Simpler!Stage1[x] = <<"gate_cumsum", r>> /\ x = 3 * r + 1
         \/ Simpler!Stage1[x] = <<"chunk_h", r>> /\ x = 3 * r + 2
         \/ Simpler!Stage1[x] = <<"S_total", r>> /\ x = 3 * r + 3
<1> DEFINE s == <<"gate_cumsum", "chunk_h", "S_total">>
<1>0. P \in Nat \ {0}
  BY ShapeAssumption
<1>1. Len(s) = 3 /\ s[1] = "gate_cumsum" /\ s[2] = "chunk_h" /\ s[3] = "S_total"
  OBVIOUS
<1>2. Simpler!Stage1 = Simpler!EachRank(s)
  BY DEF Simpler!Stage1
<1> HIDE DEF s
<1>3. /\ Len(Simpler!Stage1) = P * 3
      /\ \A x \in 1..(P * 3) :
           Simpler!Stage1[x] = <<s[((x - 1) % 3) + 1], (x - 1) \div 3>>
  <2>1. 3 \in Nat \ {0}
    OBVIOUS
  <2> QED
    BY <1>1, <1>2, <2>1, EachRankIs, Zenon
<1>4. ASSUME NEW x \in 1..(3 * P)
      PROVE  \E r \in Ranks :
               \/ Simpler!Stage1[x] = <<"gate_cumsum", r>> /\ x = 3 * r + 1
               \/ Simpler!Stage1[x] = <<"chunk_h", r>> /\ x = 3 * r + 2
               \/ Simpler!Stage1[x] = <<"S_total", r>> /\ x = 3 * r + 3
  <2>1. PICK r \in Int, m \in Int : r = (x - 1) \div 3 /\ m = (x - 1) % 3
    BY <1>0
  <2>2. m \in {0, 1, 2} /\ x - 1 = 3 * r + m /\ r \in Ranks
    BY <1>0, <2>1 DEF Ranks
  <2>3. Simpler!Stage1[x] = <<s[m + 1], r>>
    BY <1>0, <1>3, <2>1
  <2> QED
    BY <1>0, <1>1, <2>2, <2>3
<1>5. P * 3 = 3 * P
  BY <1>0
<1>6. Len(Simpler!Stage1) = 3 * P
  BY <1>3, <1>5, Zenon
<1> QED
  BY <1>4, <1>6, Zenon

\* c is a and then b.
Joined(S, a, b, c) ==
  /\ c \in Seq(S) /\ Len(c) = Len(a) + Len(b)
  /\ \A x \in 1..Len(a) : c[x] = a[x]
  /\ \A x \in 1..Len(b) : c[Len(a) + x] = b[x]

LEMMA JoinedIs ==
  ASSUME NEW S, NEW a \in Seq(S), NEW b \in Seq(S)
  PROVE  Joined(S, a, b, a \o b)
<1>1. Len(a) \in Nat /\ Len(b) \in Nat
  OBVIOUS
<1> QED
  BY <1>1 DEF Joined

\* The places of a script: pairs of a stage and a rank.
Stages ==
  {"gate_cumsum", "chunk_h", "S_total", "boundary", "shift_snaps", "chunk_o", "grad_o", "gate_o",
   "boundary_backward", "recurrence", "grad_h", "gate_h", "reverse_cumsum", "gate_grad"}
Places == Stages \X Ranks

LEMMA EachRankTyped ==
  ASSUME NEW s \in Seq(Stages), NEW n \in Nat \ {0}, Len(s) = n
  PROVE  Simpler!EachRank(s) \in Seq(Places)
<1>0. P \in Nat \ {0} /\ P * n \in Nat
  BY ShapeAssumption
<1>1. ASSUME NEW x \in 1..(P * n)
      PROVE  <<s[((x - 1) % n) + 1], (x - 1) \div n>> \in Places
  <2>1. PICK y \in Nat : y = x - 1
    BY <1>0
  <2>2. y = n * (y \div n) + (y % n) /\ y % n \in 0..(n - 1) /\ y \div n \in Nat
    OBVIOUS
  <2>3. PICK r \in Nat, m \in Nat : r = y \div n /\ m = y % n
    BY <2>2
  <2>4. y < P * n
    BY <1>0, <2>1
  <2>5. y = n * r + m
    BY <2>2, <2>3
  <2>6. r \in Ranks
    <3>1. CASE r >= P
      <4>1. PICK d \in Nat : r = P + d
        <5>1. r - P \in Nat /\ r = P + (r - P)
          BY <1>0, <3>1
        <5> QED
          BY <5>1
      <4>2. n * r = P * n + n * d /\ n * d \in Nat
        BY <1>0, <4>1
      <4> QED
        BY <1>0, <2>4, <2>5, <4>2
    <3>2. CASE ~(r >= P)
      BY <1>0, <3>2 DEF Ranks
    <3> QED
      BY <3>1, <3>2
  <2>7. s[m + 1] \in Stages
    <3>1. m + 1 \in 1..Len(s)
      BY <2>2, <2>3
    <3> QED
      BY <3>1
  <2> QED
    BY <2>1, <2>3, <2>6, <2>7 DEF Places
<1>2. Simpler!EachRank(s)
        = [x \in 1..(P * n) |-> <<s[((x - 1) % n) + 1], (x - 1) \div n>>]
  BY DEF Simpler!EachRank
<1>3. Simpler!EachRank(s) \in [1..(P * n) -> Places]
  BY <1>1, <1>2
<1> QED
  BY <1>0, <1>3

ShiftO   == <<"shift_snaps", "chunk_o">>
ShiftGO  == <<"shift_snaps", "grad_o", "gate_o">>
StatesGH == <<"recurrence", "grad_h", "gate_h", "reverse_cumsum", "gate_grad">>

LEMMA ScriptParts ==
  /\ Simpler!Stage1 \in Seq(Places) /\ <<<<"boundary", 0>>>> \in Seq(Places)
  /\ <<<<"boundary_backward", 0>>>> \in Seq(Places)
  /\ Len(<<<<"boundary", 0>>>>) = 1 /\ Len(<<<<"boundary_backward", 0>>>>) = 1
  /\ Simpler!EachRank(ShiftO) \in Seq(Places) /\ Len(Simpler!EachRank(ShiftO)) = 2 * P
  /\ Simpler!EachRank(ShiftGO) \in Seq(Places) /\ Len(Simpler!EachRank(ShiftGO)) = 3 * P
  /\ Simpler!EachRank(StatesGH) \in Seq(Places) /\ Len(Simpler!EachRank(StatesGH)) = 5 * P
<1>0. P \in Nat \ {0}
  BY ShapeAssumption
<1>1. <<"boundary", 0>> \in Places /\ <<"boundary_backward", 0>> \in Places
  BY <1>0 DEF Places, Stages, Ranks
<1>2. ShiftO \in Seq(Stages) /\ Len(ShiftO) = 2 /\ ShiftGO \in Seq(Stages) /\ Len(ShiftGO) = 3
  BY DEF ShiftO, ShiftGO, Stages
<1>3. StatesGH \in Seq(Stages) /\ Len(StatesGH) = 5
  BY DEF StatesGH, Stages
<1>4. <<"gate_cumsum", "chunk_h", "S_total">> \in Seq(Stages)
      /\ Len(<<"gate_cumsum", "chunk_h", "S_total">>) = 3
  BY DEF Stages
<1>5. 2 \in Nat \ {0} /\ 3 \in Nat \ {0} /\ 5 \in Nat \ {0}
  OBVIOUS
<1>6. Simpler!Stage1 \in Seq(Places)
  BY <1>4, <1>5, EachRankTyped, Zenon DEF Simpler!Stage1
<1>7. /\ Simpler!EachRank(ShiftO) \in Seq(Places) /\ Simpler!EachRank(ShiftGO) \in Seq(Places)
      /\ Simpler!EachRank(StatesGH) \in Seq(Places)
  BY <1>2, <1>3, <1>5, EachRankTyped, Zenon
<1>8. /\ Len(Simpler!EachRank(ShiftO)) = P * 2 /\ Len(Simpler!EachRank(ShiftGO)) = P * 3
      /\ Len(Simpler!EachRank(StatesGH)) = P * 5
  BY <1>2, <1>3, <1>5, EachRankIs, Zenon
<1>9. P * 2 = 2 * P /\ P * 3 = 3 * P /\ P * 5 = 5 * P
  BY <1>0
<1> QED
  BY <1>1, <1>6, <1>7, <1>8, <1>9

LEMMA ShiftOIs ==
  \A x \in 1..(2 * P) :
    \E s \in {"shift_snaps", "chunk_o"}, r \in Ranks : Simpler!EachRank(ShiftO)[x] = <<s, r>>
<1> SUFFICES ASSUME NEW x \in 1..(2 * P)
             PROVE  \E s \in {"shift_snaps", "chunk_o"}, r \in Ranks :
                      Simpler!EachRank(ShiftO)[x] = <<s, r>>
  OBVIOUS
<1>0. P \in Nat \ {0} /\ P * 2 = 2 * P
  BY ShapeAssumption
<1>1. Len(ShiftO) = 2 /\ 2 \in Nat \ {0} /\ ShiftO[1] = "shift_snaps" /\ ShiftO[2] = "chunk_o"
  BY DEF ShiftO
<1>2. Simpler!EachRank(ShiftO)[x] = <<ShiftO[((x - 1) % 2) + 1], (x - 1) \div 2>>
  <2>1. x \in 1..(P * 2)
    BY <1>0
  <2>2. \A y \in 1..(P * 2) :
          Simpler!EachRank(ShiftO)[y] = <<ShiftO[((y - 1) % 2) + 1], (y - 1) \div 2>>
    BY <1>1, EachRankIs, Zenon
  <2> QED
    BY <2>1, <2>2
<1>3. PICK r \in Int, m \in Int : r = (x - 1) \div 2 /\ m = (x - 1) % 2
  BY <1>0
<1>4. m \in {0, 1} /\ x - 1 = 2 * r + m /\ r \in Ranks
  BY <1>0, <1>3 DEF Ranks
<1> QED
  BY <1>1, <1>2, <1>3, <1>4

LEMMA ShiftGOIs ==
  \A x \in 1..(3 * P) :
    \E r \in Ranks :
      \/ Simpler!EachRank(ShiftGO)[x] = <<"shift_snaps", r>> /\ x = 3 * r + 1
      \/ Simpler!EachRank(ShiftGO)[x] = <<"grad_o", r>> /\ x = 3 * r + 2
      \/ Simpler!EachRank(ShiftGO)[x] = <<"gate_o", r>> /\ x = 3 * r + 3
<1> SUFFICES ASSUME NEW x \in 1..(3 * P)
             PROVE  \E r \in Ranks :
                      \/ Simpler!EachRank(ShiftGO)[x] = <<"shift_snaps", r>> /\ x = 3 * r + 1
                      \/ Simpler!EachRank(ShiftGO)[x] = <<"grad_o", r>> /\ x = 3 * r + 2
                      \/ Simpler!EachRank(ShiftGO)[x] = <<"gate_o", r>> /\ x = 3 * r + 3
  OBVIOUS
<1>0. P \in Nat \ {0} /\ P * 3 = 3 * P
  BY ShapeAssumption
<1>1. /\ Len(ShiftGO) = 3 /\ 3 \in Nat \ {0}
      /\ ShiftGO[1] = "shift_snaps" /\ ShiftGO[2] = "grad_o" /\ ShiftGO[3] = "gate_o"
  BY DEF ShiftGO
<1>2. Simpler!EachRank(ShiftGO)[x] = <<ShiftGO[((x - 1) % 3) + 1], (x - 1) \div 3>>
  BY <1>0, <1>1, EachRankIs, Zenon
<1>3. PICK r \in Int, m \in Int : r = (x - 1) \div 3 /\ m = (x - 1) % 3
  BY <1>0
<1>4. m \in {0, 1, 2} /\ x - 1 = 3 * r + m /\ r \in Ranks
  BY <1>0, <1>3 DEF Ranks
<1> QED
  BY <1>1, <1>2, <1>3, <1>4

LEMMA StatesGHIs ==
  \A x \in 1..(5 * P) :
    \E s \in {"recurrence", "grad_h", "gate_h", "reverse_cumsum", "gate_grad"}, r \in Ranks :
      Simpler!EachRank(StatesGH)[x] = <<s, r>>
<1> SUFFICES ASSUME NEW x \in 1..(5 * P)
             PROVE  \E s \in {"recurrence", "grad_h", "gate_h", "reverse_cumsum", "gate_grad"},
                       r \in Ranks : Simpler!EachRank(StatesGH)[x] = <<s, r>>
  OBVIOUS
<1>0. P \in Nat \ {0} /\ P * 5 = 5 * P
  BY ShapeAssumption
<1>1. /\ Len(StatesGH) = 5 /\ 5 \in Nat \ {0}
      /\ \A m \in 0..4 :
           StatesGH[m + 1] \in {"recurrence", "grad_h", "gate_h", "reverse_cumsum", "gate_grad"}
  BY DEF StatesGH
<1>2. Simpler!EachRank(StatesGH)[x] = <<StatesGH[((x - 1) % 5) + 1], (x - 1) \div 5>>
  BY <1>0, <1>1, EachRankIs, Zenon
<1>3. PICK r \in Int, m \in Int : r = (x - 1) \div 5 /\ m = (x - 1) % 5
  BY <1>0
<1>4. m \in 0..4 /\ x - 1 = 5 * r + m /\ r \in Ranks
  BY <1>0, <1>3 DEF Ranks
<1> QED
  BY <1>1, <1>2, <1>3, <1>4

\* Where the stage in hand stands, and for which rank.
LEMMA PlaceIs ==
  ASSUME place \in Nat \ {0}, op \in {"forward", "backward"}, ~Simpler!Ended
  PROVE  Simpler!Rank \in Ranks /\ Where(Simpler!Stage, Simpler!Rank)
<1> DEFINE a  == Simpler!Stage1
           b  == <<<<"boundary", 0>>>>
           f  == Simpler!EachRank(ShiftO)
           g  == Simpler!EachRank(ShiftGO)
           bb == <<<<"boundary_backward", 0>>>>
           h  == Simpler!EachRank(StatesGH)
<1>0. P \in Nat \ {0} /\ 0 \in Ranks
  BY ShapeAssumption DEF Ranks
<1>1. /\ a \in Seq(Places) /\ b \in Seq(Places) /\ f \in Seq(Places) /\ g \in Seq(Places)
      /\ bb \in Seq(Places) /\ h \in Seq(Places)
      /\ Len(a) = 3 * P /\ Len(b) = 1 /\ Len(f) = 2 * P /\ Len(g) = 3 * P /\ Len(bb) = 1
      /\ Len(h) = 5 * P
  BY ScriptParts, Stage1Is
<1>2. b[1] = <<"boundary", 0>> /\ bb[1] = <<"boundary_backward", 0>>
  OBVIOUS
<1>3. Simpler!Script("forward") = (a \o b) \o f
  BY Zenon DEF Simpler!Script, ShiftO
<1>4. Simpler!Script("backward") = (((a \o b) \o g) \o bb) \o h
  BY Zenon DEF Simpler!Script, ShiftGO, StatesGH
<1>5. \A x \in 1..(3 * P) : \E r \in Ranks :
         \/ a[x] = <<"gate_cumsum", r>> /\ x = 3 * r + 1
         \/ a[x] = <<"chunk_h", r>> /\ x = 3 * r + 2
         \/ a[x] = <<"S_total", r>> /\ x = 3 * r + 3
  BY Stage1Is
<1>6. \A x \in 1..(2 * P) :
         \E s \in {"shift_snaps", "chunk_o"}, r \in Ranks : f[x] = <<s, r>>
  BY ShiftOIs
<1>7. \A x \in 1..(3 * P) : \E r \in Ranks :
         \/ g[x] = <<"shift_snaps", r>> /\ x = 3 * r + 1
         \/ g[x] = <<"grad_o", r>> /\ x = 3 * r + 2
         \/ g[x] = <<"gate_o", r>> /\ x = 3 * r + 3
  BY ShiftGOIs
<1>8. \A x \in 1..(5 * P) :
         \E s \in {"recurrence", "grad_h", "gate_h", "reverse_cumsum", "gate_grad"}, r \in Ranks :
           h[x] = <<s, r>>
  BY StatesGHIs
<1> HIDE DEF a, b, f, g, bb, h
<1> DEFINE ab == a \o b
<1>9. /\ ab \in Seq(Places) /\ Len(ab) = 3 * P + 1
      /\ \A x \in 1..(3 * P) : ab[x] = a[x]
      /\ ab[3 * P + 1] = b[1]
  <2>1. Joined(Places, a, b, ab)
    BY <1>1, JoinedIs
  <2>2. 1 \in 1..Len(b)
    BY <1>1
  <2> HIDE DEF ab
  <2> QED
    BY <1>1, <2>1, <2>2 DEF Joined
<1> HIDE DEF ab
<1>10. CASE op = "forward"
  <2> DEFINE abf == ab \o f
  <2>1. /\ Len(abf) = Len(ab) + Len(f)
        /\ \A x \in 1..Len(ab) : abf[x] = ab[x]
        /\ \A x \in 1..Len(f) : abf[Len(ab) + x] = f[x]
    <3>1. Joined(Places, ab, f, abf)
      BY <1>1, <1>9, JoinedIs
    <3> HIDE DEF abf
    <3> QED
      BY <3>1 DEF Joined
  <2> HIDE DEF abf
  <2>2. Simpler!Script(op) = abf
    BY <1>3, <1>10 DEF ab, abf
  <2>7. /\ \A x \in 1..(3 * P) : abf[x] = a[x]
        /\ abf[3 * P + 1] = b[1]
        /\ \A y \in 1..(2 * P) : abf[(3 * P + 1) + y] = f[y]
    <3>1. Len(ab) = 3 * P + 1 /\ Len(f) = 2 * P
      BY <1>1, <1>9, Zenon
    <3>2. /\ \A x \in 1..(3 * P + 1) : abf[x] = ab[x]
          /\ \A y \in 1..(2 * P) : abf[(3 * P + 1) + y] = f[y]
      BY <2>1, <3>1, Zenon
    <3>3. 3 * P + 1 \in 1..(3 * P + 1) /\ \A x \in 1..(3 * P) : x \in 1..(3 * P + 1)
      BY <1>0
    <3> QED
      BY <1>9, <3>2, <3>3, Zenon
  <2>3. place \in 1..(5 * P + 1) /\ abf[place] = <<Simpler!Stage, Simpler!Rank>>
    <3>1. place <= Len(abf) /\ Simpler!Stage = abf[place][1] /\ Simpler!Rank = abf[place][2]
      BY <2>2 DEF Simpler!Ended, Simpler!Stage, Simpler!Rank
    <3>2. place \in 1..(5 * P + 1)
      BY <1>0, <1>1, <1>9, <2>1, <3>1
    <3>3. \E s, r : abf[place] = <<s, r>>
      <4>1. CASE place <= 3 * P
        <5>1. place \in 1..(3 * P) /\ abf[place] = a[place]
          BY <1>0, <2>7, <3>2, <4>1
        <5> QED
          BY <1>5, <5>1
      <4>2. CASE place = 3 * P + 1
        <5>1. abf[place] = b[1]
          BY <2>7, <4>2
        <5> QED
          BY <1>2, <5>1
      <4>3. CASE place > 3 * P + 1
        <5>1. PICK y \in 1..(2 * P) : place = (3 * P + 1) + y
          <6>1. place - (3 * P + 1) \in 1..(2 * P)
            BY <1>0, <3>2, <4>3
          <6> QED
            BY <1>0, <6>1
        <5> QED
          <6>1. abf[place] = f[y]
            BY <2>7, <5>1
          <6> QED
            BY <1>6, <6>1
      <4> QED
        BY <1>0, <3>2, <4>1, <4>2, <4>3
    <3> QED
      BY <3>1, <3>2, <3>3
  <2>4. CASE place <= 3 * P
    <3>1. place \in 1..(3 * P) /\ a[place] = <<Simpler!Stage, Simpler!Rank>>
      <4>1. place \in 1..(3 * P)
        BY <1>0, <2>3, <2>4
      <4>2. abf[place] = a[place]
        BY <2>7, <4>1
      <4> QED
        BY <2>3, <4>1, <4>2
    <3>2. PICK r \in Ranks :
            \/ a[place] = <<"gate_cumsum", r>> /\ place = 3 * r + 1
            \/ a[place] = <<"chunk_h", r>> /\ place = 3 * r + 2
            \/ a[place] = <<"S_total", r>> /\ place = 3 * r + 3
      BY <1>5, <3>1
    <3> QED
      BY <3>1, <3>2 DEF Where
  <2>5. CASE place = 3 * P + 1
    <3>1. b[1] = <<Simpler!Stage, Simpler!Rank>>
      <4>1. abf[place] = b[1]
        BY <2>5, <2>7
      <4> QED
        BY <2>3, <4>1
    <3> QED
      BY <1>0, <1>2, <2>5, <3>1 DEF Where
  <2>6. CASE place > 3 * P + 1
    <3>1. PICK y \in 1..(2 * P) : place = (3 * P + 1) + y
      <4>1. place - (3 * P + 1) \in 1..(2 * P)
        BY <1>0, <2>3, <2>6
      <4> QED
        BY <1>0, <4>1
    <3>2. \E s \in {"shift_snaps", "chunk_o"}, r \in Ranks :
             <<Simpler!Stage, Simpler!Rank>> = <<s, r>>
      <4>1. abf[place] = f[y]
        BY <2>7, <3>1
      <4> QED
        BY <1>6, <2>3, <4>1
    <3> QED
      BY <1>10, <2>6, <3>2 DEF Where
  <2> QED
    BY <1>0, <2>3, <2>4, <2>5, <2>6
<1>11. CASE op = "backward"
  <2> DEFINE abg == ab \o g
             abgb == abg \o bb
             all == abgb \o h
  <2>1. /\ abg \in Seq(Places) /\ Len(abg) = Len(ab) + Len(g)
        /\ \A x \in 1..Len(ab) : abg[x] = ab[x]
        /\ \A x \in 1..Len(g) : abg[Len(ab) + x] = g[x]
    <3>1. Joined(Places, ab, g, abg)
      BY <1>1, <1>9, JoinedIs
    <3> HIDE DEF abg
    <3> QED
      BY <3>1 DEF Joined
  <2>2. /\ abgb \in Seq(Places) /\ Len(abgb) = Len(abg) + Len(bb)
        /\ \A x \in 1..Len(abg) : abgb[x] = abg[x]
        /\ \A x \in 1..Len(bb) : abgb[Len(abg) + x] = bb[x]
    <3> HIDE DEF abg
    <3>1. Joined(Places, abg, bb, abgb)
      BY <1>1, <2>1, JoinedIs
    <3> HIDE DEF abgb
    <3> QED
      BY <3>1 DEF Joined
  <2>3. /\ Len(all) = Len(abgb) + Len(h)
        /\ \A x \in 1..Len(abgb) : all[x] = abgb[x]
        /\ \A x \in 1..Len(h) : all[Len(abgb) + x] = h[x]
    <3> HIDE DEF abgb
    <3>1. Joined(Places, abgb, h, all)
      BY <1>1, <2>2, JoinedIs
    <3> HIDE DEF all
    <3> QED
      BY <3>1 DEF Joined
  <2>4. Simpler!Script(op) = all
    BY <1>4, <1>11 DEF ab
  <2> HIDE DEF all, abgb, abg
  <2>5. Len(abg) = 6 * P + 1 /\ Len(abgb) = 6 * P + 2 /\ Len(all) = 11 * P + 2
    BY <1>0, <1>1, <1>9, <2>1, <2>2, <2>3
  <2>6. /\ \A x \in 1..(3 * P) : all[x] = a[x]
        /\ all[3 * P + 1] = b[1]
        /\ \A x \in 1..(3 * P) : all[(3 * P + 1) + x] = g[x]
        /\ all[6 * P + 2] = bb[1]
        /\ \A x \in 1..(5 * P) : all[(6 * P + 2) + x] = h[x]
    <3>1. \A x \in 1..(6 * P + 1) : all[x] = abg[x]
      BY <1>0, <2>2, <2>3, <2>5
    <3>2. \A x \in 1..(3 * P + 1) : all[x] = ab[x]
      BY <1>0, <1>9, <2>1, <3>1
    <3>3. \A x \in 1..(3 * P) : all[x] = a[x]
      BY <1>0, <1>9, <3>2
    <3>4. all[3 * P + 1] = b[1]
      BY <1>0, <1>9, <3>2
    <3>5. \A x \in 1..(3 * P) : all[(3 * P + 1) + x] = g[x]
      BY <1>0, <1>1, <1>9, <2>1, <3>1
    <3>6. all[6 * P + 2] = bb[1]
      BY <1>0, <1>1, <2>2, <2>3, <2>5
    <3>7. \A x \in 1..(5 * P) : all[(6 * P + 2) + x] = h[x]
      BY <1>0, <1>1, <2>3, <2>5
    <3> QED
      BY <3>3, <3>4, <3>5, <3>6, <3>7
  <2>7. /\ place \in 1..(11 * P + 2)
        /\ Simpler!Stage = all[place][1] /\ Simpler!Rank = all[place][2]
    BY <1>0, <2>4, <2>5 DEF Simpler!Ended, Simpler!Stage, Simpler!Rank
  <2>8. CASE place <= 3 * P
    BY <1>0, <1>5, <2>6, <2>7, <2>8 DEF Where
  <2>9. CASE place = 3 * P + 1
    BY <1>0, <1>2, <2>6, <2>7, <2>9 DEF Where
  <2>10. CASE place > 3 * P + 1 /\ place <= 6 * P + 1
    <3>1. PICK y \in 1..(3 * P) : place = (3 * P + 1) + y
      <4>1. place - (3 * P + 1) \in 1..(3 * P)
        BY <1>0, <2>7, <2>10
      <4> QED
        BY <1>0, <4>1
    <3>2. PICK r \in Ranks :
            \/ g[y] = <<"shift_snaps", r>> /\ y = 3 * r + 1
            \/ g[y] = <<"grad_o", r>> /\ y = 3 * r + 2
            \/ g[y] = <<"gate_o", r>> /\ y = 3 * r + 3
      BY <1>7
    <3>3. Simpler!Stage = g[y][1] /\ Simpler!Rank = g[y][2]
      BY <2>6, <2>7, <3>1
    <3>4. r \in Nat
      BY <1>0 DEF Ranks
    <3> QED
      BY <1>0, <1>11, <2>10, <3>1, <3>2, <3>3, <3>4 DEF Where
  <2>11. CASE place = 6 * P + 2
    BY <1>0, <1>2, <1>11, <2>6, <2>7, <2>11 DEF Where
  <2>12. CASE place > 6 * P + 2
    <3>1. PICK y \in 1..(5 * P) : place = (6 * P + 2) + y
      <4>1. place - (6 * P + 2) \in 1..(5 * P)
        BY <1>0, <2>7, <2>12
      <4> QED
        BY <1>0, <4>1
    <3>2. Simpler!Stage = h[y][1] /\ Simpler!Rank = h[y][2]
      BY <2>6, <2>7, <3>1
    <3> QED
      BY <1>8, <1>11, <2>12, <3>2 DEF Where
  <2> QED
    BY <1>0, <2>7, <2>8, <2>9, <2>10, <2>11, <2>12
<1> QED
  BY <1>10, <1>11

-----------------------------------------------------------------------------
(* The chunks of a rank of the simpler backend *)

FirstOf(r) == r * N

LEMMA ChunksAre ==
  /\ N \in Nat \ {0} /\ Chunks = 0..(N - 1) /\ 0 \in Chunks /\ FirstOf(0) = 0
  /\ FirstOf(P) = P * N /\ C \in Nat \ {0} /\ Rows = 0..(C - 1) /\ P * N \in Nat
  /\ P \in Nat \ {0} /\ Ranks = 0..(P - 1) /\ 0 \in Ranks
  /\ \A r \in Ranks :
       /\ FirstOf(r) \in Nat /\ FirstOf(r) + N = FirstOf(r + 1) /\ FirstOf(r) + N <= P * N
       /\ \A n \in Chunks :
            /\ FirstOf(r) + n \in 0..(P * N - 1)
            /\ \A c \in Rows : Token(r, n, c) = (FirstOf(r) + n) * C + c
<1>0. N \in Nat \ {0} /\ P \in Nat \ {0} /\ C \in Nat \ {0}
  BY ShapeAssumption
<1>1. P * N \in Nat
  BY <1>0
<1>2. ASSUME NEW r \in Ranks
      PROVE  /\ FirstOf(r) \in Nat /\ FirstOf(r) + N = FirstOf(r + 1)
             /\ FirstOf(r) + N <= P * N
  <2>1. r \in Nat /\ r <= P - 1
    BY <1>0 DEF Ranks
  <2>2. PICK d \in Nat : P = (r + 1) + d
    <3>1. P - (r + 1) \in Nat /\ P = (r + 1) + (P - (r + 1))
      BY <1>0, <2>1
    <3> QED
      BY <3>1
  <2>3. r * N \in Nat /\ d * N \in Nat
    BY <1>0, <2>1, <2>2
  <2>4. P * N = (r * N + N) + d * N /\ (r + 1) * N = r * N + N
    BY <1>0, <2>1, <2>2
  <2> QED
    BY <1>0, <2>3, <2>4 DEF FirstOf
<1>3. ASSUME NEW r \in Ranks, NEW n \in Chunks
      PROVE  /\ FirstOf(r) + n \in 0..(P * N - 1)
             /\ \A c \in Rows : Token(r, n, c) = (FirstOf(r) + n) * C + c
  <2>1. n \in Nat /\ n <= N - 1 /\ r \in Nat
    BY <1>0 DEF Chunks, Ranks
  <2>2. FirstOf(r) + n \in 0..(P * N - 1)
    BY <1>0, <1>1, <1>2, <2>1
  <2>3. ASSUME NEW c \in Rows PROVE Token(r, n, c) = (FirstOf(r) + n) * C + c
    <3>1. c \in Int
      BY <1>0 DEF Rows
    <3>2. r * (N * C) = (r * N) * C
      BY <1>0, <2>1
    <3>3. (r * N) * C + n * C = (r * N + n) * C
      BY <1>0, <2>1
    <3> QED
      BY <3>1, <3>2, <3>3 DEF Token, L, FirstOf
  <2> QED
    BY <2>2, <2>3
<1>4. FirstOf(0) = 0 /\ FirstOf(P) = P * N
  BY <1>0 DEF FirstOf
<1>5. /\ Chunks = 0..(N - 1) /\ 0 \in Chunks /\ Rows = 0..(C - 1)
      /\ Ranks = 0..(P - 1) /\ 0 \in Ranks
  BY <1>0 DEF Chunks, Ranks, Rows
<1> QED
  BY <1>0, <1>1, <1>2, <1>3, <1>4, <1>5

LEMMA ShiftResidue ==
  ASSUME NEW m \in Nat \ {0}, NEW x \in Int, NEW y \in Int, NEW z \in Int,
         Residue(m, x) = Residue(m, y)
  PROVE  Residue(m, Plus(x, z)) = Residue(m, Plus(y, z))
<1>1. \A u \in Int, w \in Int :
        Residue(m, u) = Residue(m, w) => Residue(m, x + u) = Residue(m, y + w)
  BY ResidueAdd
<1> QED
  BY <1>1 DEF Plus

\* What the tensors of the chunk u of the sequence hold.
GcsIs(in, u, x) ==
  \A c \in Rows, i \in Keys :
    /\ x[c][i] \in Int
    /\ Residue(Prime - 1, x[c][i]) = Residue(Prime - 1, LogSums(in, u, i)[c + 1])

\* The logarithms of the gates, accumulated in the chunk.
LEMMA GateSums ==
  ASSUME NEW in, IsInput(in), NEW u \in 0..(P * N - 1), NEW g,
         \A c \in Rows, i \in Keys : g[c][i] = in.g[u * C + c][i]
  PROVE  GcsIs(in, u, Simpler!GateCumsum("tril", g, Prime - 1))
<1> SUFFICES ASSUME NEW c \in Rows, NEW i \in Keys
             PROVE  /\ Simpler!GateCumsum("tril", g, Prime - 1)[c][i] \in Int
                    /\ Residue(Prime - 1, Simpler!GateCumsum("tril", g, Prime - 1)[c][i])
                         = Residue(Prime - 1, LogSums(in, u, i)[c + 1])
  BY DEF GcsIs
<1>17. PICK M \in Nat \ {0} : M = Prime - 1
  BY Field
<1> DEFINE E == LogSums(in, u, i)
           term(x) == IF IF "tril" = "tril" THEN x - 1 <= c ELSE x - 1 >= c
                      THEN g[x - 1][i] ELSE 0
           body(f) == [x \in 0..C |-> IF x = 0 THEN 0 ELSE (f[x - 1] + term(x)) % (Prime - 1)]
           G == CHOOSE f : f = body(f)
           one == [x \in 0..(C - 1) |-> 1]
           t   == [x \in 0..(C - 1) |-> IF x <= c THEN g[x][i] ELSE 0]
<1>0. C \in Nat \ {0} /\ c \in 0..(C - 1) /\ Rows = 0..(C - 1)
  BY ChunksAre
<1>1. /\ E[0] = 0
      /\ \A x \in Rows : E[x + 1] = E[x] + g[x][i] /\ g[x][i] \in Int
      /\ \A x \in 0..C : E[x] \in Int
  BY LogSumsIs
<1>2. Simpler!GateCumsum("tril", g, Prime - 1)[c][i] = G[C]
  <2> DEFINE sum(cc, ii) ==
        (CHOOSE f : f = [x \in 0..C |->
              IF x = 0 THEN 0
              ELSE (f[x - 1] + (IF IF "tril" = "tril" THEN x - 1 <= cc ELSE x - 1 >= cc
                                THEN g[x - 1][ii] ELSE 0)) % (Prime - 1)])[C]
  <2>1. Simpler!Rows = Rows /\ Simpler!Keys = Keys
    BY SameSets
  <2>2. Simpler!GateCumsum("tril", g, Prime - 1) = [cc \in Rows |-> [ii \in Keys |-> sum(cc, ii)]]
    BY <2>1, Zenon DEF Simpler!GateCumsum
  <2>3. sum(c, i) = G[C]
    BY Zenon
  <2> HIDE DEF sum, G
  <2> QED
    BY <2>2, <2>3
<1>3. \A x \in 0..(C - 1) :
        one[x] = 1 /\ t[x] = (IF x <= c THEN g[x][i] ELSE 0) /\ t[x] \in Int
  BY <1>0, <1>1
<1>4. \A x \in 1..C : term(x) = t[x - 1]
  BY <1>0, <1>3
<1> HIDE DEF one, t, E, term
<1>5. PICK h : IsAffine(h, C, M, 0, one, t)
  <2>1. IntsBelow(C, one) /\ IntsBelow(C, t)
    BY <1>3 DEF IntsBelow
  <2>2. C \in Nat /\ M \in Nat /\ 0 \in Int
    BY <1>0
  <2>3. \A n \in Nat, m \in Nat, x \in Int : \A a, b :
          IntsBelow(n, a) /\ IntsBelow(n, b) => \E h : IsAffine(h, n, m, x, a, b)
    BY AffineExists
  <2> QED
    BY <2>1, <2>2, <2>3
<1>6. \A x \in 0..(C - 1) : h[x + 1] = (h[x] + t[x]) % M /\ h[x] \in Int
  <2> TAKE x \in 0..(C - 1)
  <2>1. h[x + 1] = (one[x] * h[x] + t[x]) % M /\ h[x] \in Int
    BY <1>0, <1>5 DEF IsAffine
  <2>2. PICK z \in Int : z = h[x] /\ 1 * z = z
    BY <2>1
  <2> QED
    BY <1>3, <2>1, <2>2
<1>7. h = body(h)
  <2>1. \A x \in 0..C : h[x] = IF x = 0 THEN 0 ELSE (h[x - 1] + term(x)) % (Prime - 1)
    <3> TAKE x \in 0..C
    <3>1. CASE x = 0
      BY <1>5, <3>1 DEF IsAffine
    <3>2. CASE x # 0
      <4>1. x - 1 \in 0..(C - 1) /\ (x - 1) + 1 = x /\ x \in 1..C
        BY <1>0, <3>2
      <4> QED
        BY <1>4, <1>6, <1>17, <3>2, <4>1
    <3> QED
      BY <3>1, <3>2
  <2>2. h = [x \in 0..C |-> h[x]]
    BY <1>5 DEF IsAffine, IsFunction
  <2> QED
    BY <2>1, <2>2
<1>8. G = body(G)
  <2> HIDE DEF body
  <2> QED
    BY <1>7, Zenon
<1>9. \A x \in 0..C : G[x] = IF x = 0 THEN 0 ELSE (G[x - 1] + term(x)) % M
  <2> HIDE DEF G
  <2> QED
    BY <1>8, <1>17
<1> HIDE DEF G, body
<1>10. \A x \in 0..(C - 1) : G[x + 1] = Residue(M, G[x] + t[x])
  <2> TAKE x \in 0..(C - 1)
  <2>1. x + 1 \in 0..C /\ x + 1 # 0 /\ (x + 1) - 1 = x /\ x + 1 \in 1..C
    BY <1>0
  <2> QED
    BY <1>4, <1>9, <2>1 DEF Residue
<1>11. G[0] = 0 /\ E[0] = 0
  BY <1>0, <1>1, <1>9 DEF E
<1> DEFINE Agree(x) ==
             /\ G[x] \in Int
             /\ x <= c + 1 => Residue(M, G[x]) = Residue(M, E[x])
             /\ x > c => Residue(M, G[x]) = Residue(M, E[c + 1])
           S == {x \in Nat : x <= C => Agree(x)}
<1>12. ASSUME NEW x \in 0..(C - 1), Agree(x) PROVE Agree(x + 1)
  <2>1. PICK y \in Int, z \in Int : y = G[x] /\ z = t[x]
    BY <1>3, <1>12
  <2>2. PICK w \in Int : w = y + z
    OBVIOUS
  <2>3. G[x + 1] = Residue(M, w) /\ Residue(M, G[x + 1]) = Residue(M, w) /\ G[x + 1] \in Int
    <3>1. Residue(M, Residue(M, w)) = Residue(M, w) /\ Residue(M, w) \in Int
      BY ResidueOfResidue, Zenon
    <3> QED
      BY <1>10, <2>1, <2>2, <3>1
  <2>4. CASE x <= c
    <3>1. E[x + 1] = E[x] + z /\ E[x] \in Int
      BY <1>0, <1>1, <1>3, <2>1, <2>4 DEF E
    <3>2. PICK e \in Int : e = E[x]
      BY <3>1
    <3>3. Residue(M, y) = Residue(M, e)
      BY <1>0, <1>12, <2>1, <2>4, <3>2
    <3>4. Residue(M, y + z) = Residue(M, e + z)
      BY <3>3, ShiftResidue DEF Plus
    <3>5. Residue(M, G[x + 1]) = Residue(M, E[x + 1])
      BY <2>2, <2>3, <3>1, <3>2, <3>4
    <3>6. x + 1 > c => x + 1 = c + 1
      BY <1>0, <2>4
    <3> QED
      BY <2>3, <3>5, <3>6
  <2>5. CASE x > c
    <3>1. z = 0 /\ w = y
      BY <1>0, <1>3, <2>1, <2>2, <2>5
    <3>2. x + 1 > c /\ ~(x + 1 <= c + 1)
      BY <1>0, <2>5
    <3> QED
      BY <1>12, <2>1, <2>3, <2>5, <3>1, <3>2
  <2> QED
    BY <1>0, <2>4, <2>5
<1>13. 0 \in S
  BY <1>0, <1>11
<1>14. \A x \in Nat : x \in S => x + 1 \in S
  <2> SUFFICES ASSUME NEW x \in Nat, x \in S, x + 1 <= C PROVE Agree(x + 1)
    <3> HIDE DEF Agree
    <3> QED
      OBVIOUS
  <2>1. x \in 0..(C - 1) /\ Agree(x)
    BY <1>0
  <2> QED
    BY <1>12, <2>1
<1>15. Nat \subseteq S
  <2> HIDE DEF S
  <2> QED
    BY <1>13, <1>14, SetInduction
<1>16. Agree(C)
  BY <1>0, <1>15
<1> QED
  BY <1>0, <1>2, <1>16, <1>17 DEF E

\* What a chunk adds to the state: sums of keys, decayed to the end of the
\* chunk, by values.
Adds(in, u, i, j, s) ==
  /\ s \in Int
  /\ Res(StateAt(in, u + 1, i, j)) = Res(ChunkDecayAt(in, u, i) * StateAt(in, u, i, j) + s)

KeyToEnd(in, u, c, i) == Exp(LogSums(in, u, i)[C] - LogSums(in, u, i)[c + 1])

LEMMA KeyToEndIs ==
  ASSUME NEW in, IsInput(in), NEW u \in 0..(P * N - 1), NEW i \in Keys, NEW c \in Rows
  PROVE  /\ KeyToEnd(in, u, c, i) \in 1..(Prime - 1) /\ KeyToEnd(in, u, c, i) \in Int
         /\ Exp(LogSums(in, u, i)[C]) \in Int /\ Exp(-LogSums(in, u, i)[c + 1]) \in Int
         /\ KeyToEnd(in, u, c, i)
              = Res(Exp(LogSums(in, u, i)[C]) * Exp(-LogSums(in, u, i)[c + 1]))
<1>1. C \in 0..C /\ c + 1 \in 0..C
  BY ChunksAre
<1>2. PICK a \in Int, b \in Int : a = LogSums(in, u, i)[C] /\ b = LogSums(in, u, i)[c + 1]
  BY <1>1, LogSumsIs
<1>3. -b \in Int /\ a + (-b) = a - b /\ a - b \in Int
  OBVIOUS
<1>4. Exp(a + (-b)) = Res(Exp(a) * Exp(-b))
  BY <1>3, ExpAdd
<1>5. Exp(a - b) \in 1..(Prime - 1) /\ Exp(a) \in 1..(Prime - 1) /\ Exp(-b) \in 1..(Prime - 1)
  BY <1>3, ExpTyped
<1> QED
  BY <1>2, <1>3, <1>4, <1>5 DEF KeyToEnd

LEMMA Distributes ==
  ASSUME NEW x \in Int, NEW y \in Int, NEW z \in Int
  PROVE  /\ x * y \in Int /\ x * z \in Int
         /\ x * y + x * z = x * (y + z)
OBVIOUS

LEMMA ChunkAdds ==
  ASSUME NEW in, IsInput(in), NEW u \in 0..(P * N - 1), NEW i \in Keys, NEW j \in Values, NEW f,
         \A c \in Rows :
           /\ f[c] \in Int
           /\ Res(f[c]) = Res(in.k[u * C + c][i] * KeyToEnd(in, u, c, i) * in.v[u * C + c][j])
  PROVE  Adds(in, u, i, j, SumOf(C, f))
<1> DEFINE E == LogSums(in, u, i)
           b == [c \in 0..(C - 1) |-> in.k[u * C + c][i] * Exp(-E[c + 1]) * in.v[u * C + c][j]]
           one == [c \in 0..(C - 1) |-> 1]
<1>0. C \in Nat \ {0} /\ Rows = 0..(C - 1)
  BY ChunksAre
<1>1. \A c \in Rows : in.k[u * C + c][i] \in Int /\ in.v[u * C + c][j] \in Int
  <2> TAKE c \in Rows
  <2>1. u * C + c \in Tokens
    BY TokenOf
  <2> QED
    BY <2>1 DEF IsInput
<1>2. PICK D \in Int : D = Exp(E[C])
  <2>1. 0 \in Rows
    BY <1>0
  <2> QED
    BY <2>1, KeyToEndIs
<1>3. \A c \in 0..(C - 1) :
        /\ one[c] = 1 /\ b[c] = in.k[u * C + c][i] * Exp(-E[c + 1]) * in.v[u * C + c][j]
        /\ b[c] \in Int /\ Res(f[c]) = Res(D * b[c])
  <2> TAKE c \in 0..(C - 1)
  <2>1. c \in Rows
    BY <1>0
  <2>2. PICK k \in Int, e \in Int, v \in Int, z \in Int :
          /\ k = in.k[u * C + c][i] /\ e = Exp(-E[c + 1]) /\ v = in.v[u * C + c][j]
          /\ z = KeyToEnd(in, u, c, i) /\ z = Res(D * e)
    BY <1>1, <1>2, <2>1, KeyToEndIs
  <2>3. b[c] = k * e * v /\ one[c] = 1
    BY <2>2
  <2>4. PICK de \in Int, kv \in Int, m \in Int : de = D * e /\ kv = k * v /\ m = D * (k * e * v)
    OBVIOUS
  <2>5. Res(Times(z, kv)) = Res(Times(de, kv))
    BY <2>2, <2>4, ResRes, ResTimes
  <2>6. Times(z, kv) = k * z * v /\ Times(de, kv) = m
    BY <2>4 DEF Times
  <2>7. Res(f[c]) = Res(k * z * v)
    BY <2>1, <2>2
  <2>8. D * b[c] = m /\ b[c] \in Int
    BY <2>3, <2>4
  <2>9. Res(f[c]) = Res(D * b[c])
    BY <2>5, <2>6, <2>7, <2>8
  <2> HIDE DEF b, one
  <2> QED
    BY <2>2, <2>3, <2>8, <2>9
<1> HIDE DEF b, one, E
<1>4. PICK kv : IsAffine(kv, C, 0, 0, one, b)
  <2>1. IntsBelow(C, one) /\ IntsBelow(C, b)
    BY <1>3 DEF IntsBelow
  <2> QED
    BY <1>0, <2>1, AffineExists
<1>5. kv[0] = 0 /\ \A c \in 0..C : kv[c] \in Int
  BY <1>4 DEF IsAffine
<1>6. \A c \in 0..(C - 1) : kv[c + 1] = kv[c] + b[c] /\ kv[c] \in Int
  <2> TAKE c \in 0..(C - 1)
  <2>1. kv[c + 1] = one[c] * kv[c] + b[c] /\ kv[c] \in Int
    BY <1>0, <1>4 DEF IsAffine
  <2>2. PICK y \in Int : y = kv[c] /\ 1 * y = y
    BY <2>1
  <2> QED
    BY <1>3, <2>1, <2>2
<1>7. Res(RunningState(in, i, j)[u * C + C - 1])
        = Res(Exp(E[C]) * RunningState(in, i, j)[u * C - 1] + Exp(E[C]) * kv[C])
  <2>1. \A c \in Rows :
          Res(kv[c + 1]) = Res(kv[c] + in.k[u * C + c][i] * Exp(-E[c + 1]) * in.v[u * C + c][j])
    BY <1>0, <1>3, <1>6
  <2> QED
    BY <1>5, <2>1, ChunkState DEF E
<1>8. PICK s : ModSum(s, C, f) /\ s[C] = SumOf(C, f)
  <2>1. IntsBelow(C, f)
    BY <1>0 DEF IntsBelow
  <2> QED
    BY <1>0, <2>1, SumIs
<1> DEFINE S == {x \in Nat : x <= C => Res(s[x]) = Res(D * kv[x])}
<1>9. 0 \in S
  <2>1. D * 0 = 0
    OBVIOUS
  <2> QED
    BY <1>0, <1>5, <1>8, <2>1 DEF ModSum
<1>10. ASSUME NEW x \in 0..(C - 1), Res(s[x]) = Res(D * kv[x])
       PROVE  Res(s[x + 1]) = Res(D * kv[x + 1])
  <2>1. s[x + 1] = Res(s[x] + f[x]) /\ s[x] \in Int /\ f[x] \in Int
    BY <1>0, <1>8 DEF ModSum
  <2>2. PICK y \in Int, z \in Int, k \in Int, v \in Int :
          y = s[x] /\ z = f[x] /\ k = kv[x] /\ v = b[x]
    BY <1>3, <1>6, <2>1
  <2>3. PICK dk \in Int, dv \in Int : dk = D * k /\ dv = D * v /\ dk + dv = D * (k + v)
    BY Distributes
  <2>4. Res(y + z) = Res(dk + dv)
    <3>1. Res(y) = Res(dk) /\ Res(z) = Res(dv)
      BY <1>3, <1>10, <2>2, <2>3
    <3>2. Res(Plus(y, z)) = Res(Plus(dk, dv))
      BY <3>1, ResPlus
    <3> QED
      BY <3>2 DEF Plus
  <2>5. PICK w \in Int : w = y + z
    OBVIOUS
  <2>6. Res(s[x + 1]) = Res(w)
    BY <2>1, <2>2, <2>5, ResRes
  <2>7. kv[x + 1] = k + v
    BY <1>6, <2>2
  <2> QED
    BY <2>3, <2>4, <2>5, <2>6, <2>7
<1>11. \A x \in Nat : x \in S => x + 1 \in S
  <2> SUFFICES ASSUME NEW x \in Nat, x \in S, x + 1 <= C
               PROVE  Res(s[x + 1]) = Res(D * kv[x + 1])
    OBVIOUS
  <2>1. x \in 0..(C - 1) /\ Res(s[x]) = Res(D * kv[x])
    BY <1>0
  <2> QED
    BY <1>10, <2>1
<1>12. Nat \subseteq S
  <2> HIDE DEF S
  <2> QED
    BY <1>9, <1>11, SetInduction
<1>13. Res(s[C]) = Res(D * kv[C]) /\ s[C] \in Int /\ kv[C] \in Int
  BY <1>0, <1>5, <1>8, <1>12 DEF ModSum
<1>14. (u + 1) * C - 1 = u * C + C - 1
  <2>1. PICK w \in Int : w = u
    BY ChunksAre
  <2>2. (w + 1) * C = w * C + C
    BY <1>0
  <2> QED
    BY <1>0, <2>1, <2>2
<1>15. PICK y \in Int, z \in Int, m \in Int :
         y = RunningState(in, i, j)[u * C - 1] /\ z = s[C] /\ m = D * kv[C]
  <2>1. StateAt(in, u, i, j) \in Int
    BY ChunksAre, StateAtIs
  <2>2. PICK k \in Int : k = kv[C]
    BY <1>13
  <2>3. D * k \in Int
    OBVIOUS
  <2> QED
    BY <1>13, <2>1, <2>2, <2>3 DEF StateAt
<1>16. Res(Affine(D, y, m)) = Res(Affine(D, y, z))
  BY <1>13, <1>15, ResAffine
<1> QED
  BY <1>2, <1>7, <1>8, <1>14, <1>15, <1>16 DEF Adds, StateAt, ChunkDecayAt, Affine, E

LEMMA AddsRes ==
  ASSUME NEW in, IsInput(in), NEW u \in 0..(P * N - 1), NEW i \in Keys, NEW j \in Values, NEW s,
         Adds(in, u, i, j, s)
  PROVE  Adds(in, u, i, j, Res(s))
<1>1. PICK x \in Int, y \in Int, z \in Int :
        x = ChunkDecayAt(in, u, i) /\ y = StateAt(in, u, i, j) /\ z = s
  <2>1. u \in 0..(P * N)
    BY ChunksAre
  <2> QED
    BY <2>1, ChunkDecayTyped, StateAtIs DEF Adds
<1>2. Res(Affine(x, y, z)) = Res(Affine(x, y, Res(z))) /\ Res(z) \in Int
  BY ResRes, ResAffine
<1> QED
  BY <1>1, <1>2 DEF Adds, Affine

LEMMA MinusResidue ==
  ASSUME NEW m \in Nat \ {0}, NEW x \in Int, NEW y \in Int, NEW u \in Int, NEW w \in Int,
         Residue(m, x) = Residue(m, y), Residue(m, u) = Residue(m, w)
  PROVE  Residue(m, x - u) = Residue(m, y - w)
<1>1. PICK z1 \in Int : x = y + m * z1
  BY ResidueSplit DEF Apart
<1>2. PICK z2 \in Int : u = w + m * z2
  BY ResidueSplit DEF Apart
<1>3. x - u = (y - w) + m * (z1 - z2) /\ z1 - z2 \in Int
  BY <1>1, <1>2
<1>4. PICK a \in Int, b \in Int : a = x - u /\ b = y - w
  OBVIOUS
<1>5. Apart(m, a, b)
  BY <1>3, <1>4 DEF Apart
<1> QED
  BY <1>4, <1>5, SameResidue

LEMMA ExpResidue ==
  ASSUME NEW x \in Int, NEW y \in Int, Residue(Prime - 1, x) = Residue(Prime - 1, y)
  PROVE  Exp(x) = Exp(y)
  BY ExpSame DEF Residue

\* What the host and the kernels read off the accumulated gates.
LEMMA RestIs ==
  ASSUME NEW in, IsInput(in), NEW u \in 0..(P * N - 1), NEW x, GcsIs(in, u, x), NEW i \in Keys
  PROVE  /\ Exp(x[C - 1][i]) = ChunkDecayAt(in, u, i)
         /\ \A c \in Rows : Simpler!Rest(x, c, i) = KeyToEnd(in, u, c, i)
         /\ \A c \in Rows : Exp(x[c][i]) = Exp(LogSums(in, u, i)[c + 1])
<1>0. PICK M \in Nat \ {0} : M = Prime - 1
  BY Field
<1>1. C - 1 \in Rows /\ (C - 1) + 1 = C
  BY ChunksAre
<1>2. ASSUME NEW c \in Rows
      PROVE  /\ x[c][i] \in Int /\ LogSums(in, u, i)[c + 1] \in Int
             /\ Residue(M, x[c][i]) = Residue(M, LogSums(in, u, i)[c + 1])
  <2>1. c + 1 \in 0..C
    BY ChunksAre
  <2> QED
    BY <1>0, <2>1, LogSumsIs DEF GcsIs
<1>3. \A c \in Rows : Exp(x[c][i]) = Exp(LogSums(in, u, i)[c + 1])
  BY <1>0, <1>2, ExpResidue
<1>4. ASSUME NEW c \in Rows PROVE Simpler!Rest(x, c, i) = KeyToEnd(in, u, c, i)
  <2>1. PICK a \in Int, b \in Int, d \in Int, e \in Int :
          /\ a = x[C - 1][i] /\ b = LogSums(in, u, i)[C]
          /\ d = x[c][i] /\ e = LogSums(in, u, i)[c + 1]
    BY <1>1, <1>2
  <2>2. Residue(M, a) = Residue(M, b) /\ Residue(M, d) = Residue(M, e)
    BY <1>1, <1>2, <2>1
  <2>3. Residue(M, a - d) = Residue(M, b - e)
    BY <2>2, MinusResidue
  <2>4. Exp(a - d) = Exp(b - e)
    BY <1>0, <2>3, ExpResidue
  <2>5. Simpler!Rest(x, c, i) = Exp(a - d)
    BY <2>1, SameExp DEF Simpler!Rest
  <2> QED
    BY <2>1, <2>4, <2>5 DEF KeyToEnd
<1> QED
  BY <1>1, <1>3, <1>4 DEF ChunkDecayAt

\* Of the rows of a chunk: keys decayed to the end of the chunk, queries from
\* its start, and of the chunk itself its decay.
KRestIs(in, u, x) ==
  /\ DOMAIN x = Rows /\ DOMAIN x[0] = Keys
  /\ \A c \in Rows, i \in Keys : x[c][i] = Res(in.k[u * C + c][i] * KeyToEnd(in, u, c, i))
QEffIs(in, u, x) ==
  /\ DOMAIN x = Rows /\ DOMAIN x[0] = Keys
  /\ \A c \in Rows, i \in Keys :
       x[c][i] = Res(in.q[u * C + c][i] * Exp(LogSums(in, u, i)[c + 1]))
DecayIs(in, u, x) == \A i \in Keys : x[i] = ChunkDecayAt(in, u, i)

LEMMA PrepHIs ==
  ASSUME NEW in, IsInput(in), NEW u \in 0..(P * N - 1), NEW x, GcsIs(in, u, x), NEW k,
         \A c \in Rows, i \in Keys : k[c][i] = in.k[u * C + c][i]
  PROVE  KRestIs(in, u, Simpler!PrepH(x, k)[1]) /\ DecayIs(in, u, Simpler!PrepH(x, k)[2])
<1>0. Simpler!Rows = Rows /\ Simpler!Keys = Keys /\ 0 \in Rows
  BY SameSets, ChunksAre
<1> DEFINE rest == [c \in Rows |-> [i \in Keys |-> (k[c][i] * Simpler!Rest(x, c, i)) % Prime]]
           decay == [i \in Keys |-> Simpler!Exp(x[C - 1][i])]
<1>1. Simpler!PrepH(x, k) = <<rest, decay>>
  BY <1>0, Zenon DEF Simpler!PrepH, Simpler!Matrix
<1>2. Simpler!PrepH(x, k)[1] = rest /\ Simpler!PrepH(x, k)[2] = decay
  <2> HIDE DEF rest, decay
  <2> QED
    BY <1>1
<1>3. KRestIs(in, u, rest)
  <2>1. DOMAIN rest = Rows /\ DOMAIN rest[0] = Keys
    BY <1>0
  <2>2. ASSUME NEW c \in Rows, NEW i \in Keys
        PROVE  rest[c][i] = Res(in.k[u * C + c][i] * KeyToEnd(in, u, c, i))
    <3>1. rest[c][i] = (k[c][i] * Simpler!Rest(x, c, i)) % Prime
      OBVIOUS
    <3>2. Simpler!Rest(x, c, i) = KeyToEnd(in, u, c, i) /\ k[c][i] = in.k[u * C + c][i]
      BY RestIs
    <3> HIDE DEF rest
    <3> QED
      BY <3>1, <3>2 DEF Res, Residue
  <2> HIDE DEF rest
  <2> QED
    BY <2>1, <2>2 DEF KRestIs
<1>4. DecayIs(in, u, decay)
  <2> SUFFICES ASSUME NEW i \in Keys PROVE decay[i] = ChunkDecayAt(in, u, i)
    BY DEF DecayIs
  <2>1. decay[i] = Exp(x[C - 1][i])
    BY SameExp
  <2> HIDE DEF decay
  <2> QED
    BY <2>1, RestIs
<1> HIDE DEF rest, decay
<1> QED
  BY <1>2, <1>3, <1>4

LEMMA PrepOIs ==
  ASSUME NEW in, IsInput(in), NEW u \in 0..(P * N - 1), NEW x, GcsIs(in, u, x), NEW q, NEW k,
         \A c \in Rows, i \in Keys : q[c][i] = in.q[u * C + c][i]
  PROVE  QEffIs(in, u, Simpler!PrepO(q, k, x)[1])
<1>0. Simpler!Rows = Rows /\ Simpler!Keys = Keys /\ 0 \in Rows
  BY SameSets, ChunksAre
<1> DEFINE q_eff == [c \in Rows |-> [i \in Keys |-> (q[c][i] * Simpler!Exp(x[c][i])) % Prime]]
           k_eff == [c \in Rows |-> [i \in Keys |-> (k[c][i] * Simpler!Exp(-x[c][i])) % Prime]]
<1>1. Simpler!PrepO(q, k, x) = <<q_eff, k_eff>>
  BY <1>0, Zenon DEF Simpler!PrepO, Simpler!Matrix
<1>2. Simpler!PrepO(q, k, x)[1] = q_eff
  <2> HIDE DEF q_eff, k_eff
  <2> QED
    BY <1>1
<1>3. DOMAIN q_eff = Rows /\ DOMAIN q_eff[0] = Keys
  BY <1>0
<1>4. ASSUME NEW c \in Rows, NEW i \in Keys
      PROVE  q_eff[c][i] = Res(in.q[u * C + c][i] * Exp(LogSums(in, u, i)[c + 1]))
  <2>1. q_eff[c][i] = (q[c][i] * Simpler!Exp(x[c][i])) % Prime
    OBVIOUS
  <2>2. Simpler!Exp(x[c][i]) = Exp(LogSums(in, u, i)[c + 1]) /\ q[c][i] = in.q[u * C + c][i]
    BY RestIs, SameExp
  <2> HIDE DEF q_eff
  <2> QED
    BY <2>1, <2>2 DEF Res, Residue
<1> HIDE DEF q_eff, k_eff
<1> QED
  BY <1>2, <1>3, <1>4 DEF QEffIs

LEMMA MaxRow == Simpler!Max(Rows) = C - 1
<1>0. C \in Nat \ {0} /\ Rows = 0..(C - 1)
  BY ChunksAre
<1>1. Simpler!Max(Rows) = CHOOSE x \in Rows : \A y \in Rows : x >= y
  BY Zenon DEF Simpler!Max
<1>2. C - 1 \in Rows /\ \A y \in Rows : C - 1 >= y
  BY <1>0
<1>3. \A x \in Rows : (\A y \in Rows : x >= y) => x = C - 1
  BY <1>0
<1> QED
  BY <1>1, <1>2, <1>3

\* The product of the transpose of a with b, over the rows of a chunk.
RowProduct(a, b, i, j) == SumOf(C, [x \in 0..(C - 1) |-> a[x][i] * b[x][j]])

LEMMA MatMulIs ==
  ASSUME NEW a, NEW b, DOMAIN a = Rows, NEW A, NEW B, DOMAIN a[0] = A, DOMAIN b[0] = B
  PROVE  \A i \in A, j \in B :
           Simpler!MatMul("TN", a, b)[i][j] = Res(RowProduct(a, b, i, j))
<1> DEFINE l(i, x) == IF "TN" = "TN" THEN a[x][i] ELSE a[i][x]
           r(x, j) == IF "TN" = "NT" THEN b[j][x] ELSE b[x][j]
           m == Simpler!Max(IF "TN" = "TN" THEN DOMAIN a ELSE DOMAIN a[0]) + 1
           G(i, j) == Simpler!SumOf(m, [x \in 0..(m - 1) |-> l(i, x) * r(x, j)])
           I == IF "TN" = "TN" THEN DOMAIN a[0] ELSE DOMAIN a
           J == IF "TN" = "NT" THEN DOMAIN b ELSE DOMAIN b[0]
<1>1. Simpler!MatMul("TN", a, b) = [i \in I |-> [j \in J |-> G(i, j) % Prime]]
  BY Zenon DEF Simpler!MatMul, Simpler!Matrix, Simpler!Total
<1>2. I = A /\ J = B
  OBVIOUS
<1>3. \A i, x, j : l(i, x) = a[x][i] /\ r(x, j) = b[x][j]
  OBVIOUS
<1>4. m = C /\ m - 1 = C - 1
  <2>1. (IF "TN" = "TN" THEN DOMAIN a ELSE DOMAIN a[0]) = Rows
    OBVIOUS
  <2>2. m = Simpler!Max(Rows) + 1
    BY <2>1
  <2>3. (C - 1) + 1 = C
    BY ChunksAre
  <2> HIDE DEF m
  <2> QED
    BY <2>2, <2>3, MaxRow
<1> HIDE DEF l, r, m, I, J
<1>5. ASSUME NEW i, NEW j PROVE G(i, j) = RowProduct(a, b, i, j)
  <2> DEFINE f == [x \in 0..(C - 1) |-> l(i, x) * r(x, j)]
             g == [x \in 0..(C - 1) |-> a[x][i] * b[x][j]]
  <2>1. f = g
    BY <1>3
  <2>2. G(i, j) = Simpler!SumOf(C, f)
    BY <1>4
  <2>3. RowProduct(a, b, i, j) = SumOf(C, g)
    BY DEF RowProduct
  <2> HIDE DEF f, g, G
  <2> QED
    BY <2>1, <2>2, <2>3, SameSum
<1> HIDE DEF G
<1>6. \A i \in A, j \in B : Simpler!MatMul("TN", a, b)[i][j] = G(i, j) % Prime
  BY <1>1, <1>2
<1>7. \A i, j : G(i, j) % Prime = Res(RowProduct(a, b, i, j))
  BY <1>5 DEF Res, Residue
<1> QED
  BY <1>6, <1>7

KVIs(in, u, x) == \A i \in Keys, j \in Values : Adds(in, u, i, j, x[i][j])

LEMMA KeyValueProduct ==
  ASSUME NEW in, IsInput(in), NEW u \in 0..(P * N - 1), NEW a, KRestIs(in, u, a), NEW v,
         DOMAIN v[0] = Values, \A c \in Rows, j \in Values : v[c][j] = in.v[u * C + c][j]
  PROVE  KVIs(in, u, Simpler!MatMul("TN", a, v))
<1> SUFFICES ASSUME NEW i \in Keys, NEW j \in Values
             PROVE  Adds(in, u, i, j, Simpler!MatMul("TN", a, v)[i][j])
  BY DEF KVIs
<1> DEFINE f == [x \in 0..(C - 1) |-> a[x][i] * v[x][j]]
<1>0. Rows = 0..(C - 1)
  BY ChunksAre
<1>1. Simpler!MatMul("TN", a, v)[i][j] = Res(SumOf(C, f))
  <2>1. DOMAIN a = Rows /\ DOMAIN a[0] = Keys
    BY DEF KRestIs
  <2>2. \A x \in Keys, y \in Values :
          Simpler!MatMul("TN", a, v)[x][y] = Res(RowProduct(a, v, x, y))
    BY <2>1, MatMulIs
  <2>3. RowProduct(a, v, i, j) = SumOf(C, f)
    BY DEF RowProduct
  <2> HIDE DEF f
  <2> QED
    BY <2>2, <2>3
<1>2. ASSUME NEW c \in Rows
      PROVE  /\ f[c] \in Int
             /\ Res(f[c]) = Res(in.k[u * C + c][i] * KeyToEnd(in, u, c, i) * in.v[u * C + c][j])
  <2>1. u * C + c \in Tokens
    BY TokenOf
  <2>2. in.k[u * C + c][i] \in Int /\ in.v[u * C + c][j] \in Int
    BY <2>1 DEF IsInput
  <2>3. PICK k \in Int, e \in Int, d \in Int :
          k = in.k[u * C + c][i] /\ e = KeyToEnd(in, u, c, i) /\ d = in.v[u * C + c][j]
    BY <2>2, KeyToEndIs
  <2>4. PICK ke \in Int : ke = k * e
    OBVIOUS
  <2>5. a[c][i] = Res(ke) /\ v[c][j] = d
    BY <2>3, <2>4 DEF KRestIs
  <2>6. f[c] = a[c][i] * v[c][j]
    BY <1>0
  <2>7. PICK z \in Int : z = Res(ke) /\ Res(z) = Res(ke)
    BY ResRes
  <2>8. Res(Times(z, d)) = Res(Times(ke, d))
    BY <2>7, ResTimes
  <2>10. Times(z, d) \in Int
    BY DEF Times
  <2>9. f[c] = Times(z, d) /\ Times(ke, d) = k * e * d
    BY <2>4, <2>5, <2>6, <2>7 DEF Times
  <2> QED
    BY <2>3, <2>8, <2>9, <2>10
<1> HIDE DEF f
<1>3. Adds(in, u, i, j, SumOf(C, f))
  BY <1>2, ChunkAdds
<1> QED
  BY <1>1, <1>3, AddsRes

\* The state of a walk that starts from zero at rank r, after n chunks.
LocalAt(in, r, n, i, j, x) ==
  /\ x \in Int
  /\ Res(StateAt(in, FirstOf(r) + n, i, j))
       = Res(DecayOf(in, FirstOf(r), n, i) * StateAt(in, FirstOf(r), i, j) + x)

LocalIs(in, r, n, x) == \A i \in Keys, j \in Values : LocalAt(in, r, n, i, j, x[i][j])

LEMMA FirstIs ==
  ASSUME NEW r \in Ranks, NEW n \in 0..N
  PROVE  /\ FirstOf(r) \in Nat /\ FirstOf(r) \in 0..(P * N) /\ FirstOf(r) + 0 = FirstOf(r)
         /\ FirstOf(r) + n \in 0..(P * N) /\ FirstOf(r) + n <= P * N /\ n \in Nat
         /\ n < N => /\ n \in Chunks /\ n + 1 \in 0..N
                     /\ FirstOf(r) + n \in 0..(P * N - 1)
                     /\ FirstOf(r) + (n + 1) = (FirstOf(r) + n) + 1
<1>1. PICK f \in Nat, q \in Nat : f = FirstOf(r) /\ q = P * N /\ f + N <= q
  BY ChunksAre
<1>2. N \in Nat \ {0} /\ Chunks = 0..(N - 1)
  BY ChunksAre
<1>3. /\ f \in Nat /\ f \in 0..q /\ f + 0 = f
      /\ f + n \in 0..q /\ f + n <= q /\ n \in Nat
      /\ n < N => /\ n \in Chunks /\ n + 1 \in 0..N
                  /\ f + n \in 0..(q - 1)
                  /\ f + (n + 1) = (f + n) + 1
  BY <1>1, <1>2
<1> QED
  BY <1>1, <1>3

LEMMA LocalZero ==
  ASSUME NEW in, IsInput(in), NEW r \in Ranks, NEW x, \A i \in Keys, j \in Values : x[i][j] = 0
  PROVE  LocalIs(in, r, 0, x)
<1> SUFFICES ASSUME NEW i \in Keys, NEW j \in Values
             PROVE  Res(StateAt(in, FirstOf(r) + 0, i, j))
                      = Res(DecayOf(in, FirstOf(r), 0, i) * StateAt(in, FirstOf(r), i, j) + 0)
  BY DEF LocalIs, LocalAt
<1>0. 0 \in 0..N
  BY ChunksAre
<1>1. FirstOf(r) \in Nat /\ FirstOf(r) + 0 = FirstOf(r) /\ FirstOf(r) \in 0..(P * N)
      /\ FirstOf(r) + 0 <= P * N
  BY <1>0, FirstIs
<1>2. DecayOf(in, FirstOf(r), 0, i) = 1
  BY <1>1, DecayOfIs
<1>3. PICK y \in Int : y = StateAt(in, FirstOf(r), i, j) /\ 1 * y + 0 = y
  BY <1>1, StateAtIs
<1> QED
  BY <1>1, <1>2, <1>3

LEMMA LocalStep ==
  ASSUME NEW in, IsInput(in), NEW r \in Ranks, NEW n \in Chunks, NEW i \in Keys, NEW j \in Values,
         NEW x, LocalAt(in, r, n, i, j, x), NEW y, Adds(in, FirstOf(r) + n, i, j, y),
         NEW z \in Int, Res(z) = Res(Affine(ChunkDecayAt(in, FirstOf(r) + n, i), x, y))
  PROVE  LocalAt(in, r, n + 1, i, j, z)
<1> DEFINE u == FirstOf(r)
<1>0. x \in Int /\ y \in Int
  BY DEF LocalAt, Adds
<1>1. /\ u \in Nat /\ n \in Nat /\ u + n \in 0..(P * N - 1) /\ u + n \in 0..(P * N)
      /\ u \in 0..(P * N) /\ u + (n + 1) = (u + n) + 1 /\ u + (n + 1) <= P * N
      /\ n \in 0..(n + 1 - 1) /\ n \in 0..(n + 1) /\ n + 1 \in Nat
  <2>1. n \in 0..N /\ n < N /\ n + 1 \in 0..N
    BY ChunksAre
  <2>2. /\ u \in Nat /\ n \in Nat /\ u + n \in 0..(P * N - 1) /\ u + n \in 0..(P * N)
        /\ u \in 0..(P * N) /\ u + (n + 1) = (u + n) + 1
    BY <2>1, FirstIs
  <2>3. u + (n + 1) <= P * N
    BY <2>1, FirstIs
  <2>4. n \in 0..(n + 1 - 1) /\ n \in 0..(n + 1) /\ n + 1 \in Nat
    BY <2>2
  <2> HIDE DEF u
  <2> QED
    BY <2>2, <2>3, <2>4
<1>2. /\ DecayOf(in, u, n, i) \in 0..(Prime - 1) /\ ChunkDecayAt(in, u + n, i) \in Int
      /\ DecayOf(in, u, n + 1, i) = Res(DecayOf(in, u, n, i) * ChunkDecayAt(in, u + n, i))
  <2> HIDE DEF u
  <2>0. PICK w \in Nat : w = n + 1 /\ u + w <= P * N
    BY <1>1
  <2>1. \A m \in 0..w : DecayOf(in, u, m, i) \in 0..(Prime - 1)
    BY <1>1, <2>0, DecayOfIs
  <2>2. \A m \in 0..(w - 1) :
          /\ ChunkDecayAt(in, u + m, i) \in Int
          /\ DecayOf(in, u, m + 1, i) = Res(DecayOf(in, u, m, i) * ChunkDecayAt(in, u + m, i))
    <3>1. u \in Nat /\ w \in Nat /\ u + w <= P * N /\ IsInput(in) /\ i \in Keys
      BY <1>1, <2>0
    <3> QED
      BY <3>1, DecayOfIs, Zenon
  <2> QED
    BY <1>1, <2>0, <2>1, <2>2
<1>3. StateAt(in, u, i, j) \in Int /\ StateAt(in, u + n, i, j) \in Int
  BY <1>1, StateAtIs
<1>4. PICK d \in Int, c \in Int, s \in Int, t \in Int :
        /\ d = DecayOf(in, u, n, i) /\ c = ChunkDecayAt(in, u + n, i)
        /\ s = StateAt(in, u, i, j) /\ t = StateAt(in, u + n, i, j)
  BY <1>2, <1>3
<1> HIDE DEF u
<1>5. PICK dc \in Int, ds \in Int, cx \in Int :
        dc = d * c /\ ds = d * s + x /\ cx = c * x + y
  BY <1>0
<1>6. Res(t) = Res(ds)
  BY <1>4, <1>5 DEF u, LocalAt
<1>7. Res(StateAt(in, u + (n + 1), i, j)) = Res(Affine(c, t, y))
  BY <1>1, <1>4 DEF u, Adds, Affine
<1>8. Res(Affine(c, t, y)) = Res(Affine(c, ds, y))
  BY <1>0, <1>6, ResAffine
<1>9. Affine(c, ds, y) = Affine(dc, s, cx)
  <2>1. c * (d * s + x) + y = (d * c) * s + (c * x + y)
    BY <1>0
  <2> QED
    BY <1>5, <2>1 DEF Affine
<1>10. Res(Affine(dc, s, cx)) = Res(Affine(Res(dc), s, z))
  <2>1. Res(dc) \in Int /\ Res(Res(dc)) = Res(dc)
    BY ResRes
  <2>2. Res(z) = Res(cx)
    BY <1>4, <1>5 DEF Affine, u
  <2> QED
    BY <2>1, <2>2, ResAffine
<1>11. DecayOf(in, u, n + 1, i) = Res(dc)
  BY <1>2, <1>4, <1>5
<1> QED
  BY <1>4, <1>7, <1>8, <1>9, <1>10, <1>11 DEF Affine, u, LocalAt

\* One chunk further: what is held is decayed, and what the chunk adds is added.
Advanced(in, u, x, y, z) ==
  \A i \in Keys, j \in Values :
    z[i][j] \in Int /\ Res(z[i][j]) = Res(Affine(ChunkDecayAt(in, u, i), x[i][j], y[i][j]))

LEMMA LocalNext ==
  ASSUME NEW in, IsInput(in), NEW r \in Ranks, NEW n \in Chunks, NEW x, LocalIs(in, r, n, x),
         NEW y, KVIs(in, FirstOf(r) + n, y), NEW z, Advanced(in, FirstOf(r) + n, x, y, z)
  PROVE  LocalIs(in, r, n + 1, z)
  BY LocalStep DEF LocalIs, KVIs, Advanced

\* The first update ignores what its operand holds.
LEMMA FirstUpdate ==
  ASSUME NEW in, IsInput(in), NEW r \in Ranks, NEW y, KVIs(in, FirstOf(r), y), NEW d, NEW s
  PROVE  /\ LocalIs(in, r, 1, Simpler!Update(TRUE, y, d, s)[1])
         /\ LocalIs(in, r, 0, Simpler!Update(TRUE, y, d, s)[2])
<1> DEFINE z == [i \in Keys |-> [j \in Values |-> 0 % Prime]]
<1>1. Simpler!Update(TRUE, y, d, s)[1] = y /\ Simpler!Update(TRUE, y, d, s)[2] = z
  BY SameSets DEF Simpler!Update, Simpler!Matrix
<1>2. \A i \in Keys, j \in Values : z[i][j] = 0
  <2>1. Prime \in Nat /\ Prime > 1
    BY Field
  <2> QED
    BY <2>1
<1> HIDE DEF z
<1>3. LocalIs(in, r, 0, z)
  BY <1>2, LocalZero
<1>4. 0 \in Chunks /\ 0 + 1 = 1 /\ 0 \in 0..N
  BY ChunksAre
<1>5. KVIs(in, FirstOf(r) + 0, y)
  BY <1>4, FirstIs
<1>6. Advanced(in, FirstOf(r) + 0, z, y, y)
  <2> SUFFICES ASSUME NEW i \in Keys, NEW j \in Values
               PROVE  /\ y[i][j] \in Int
                      /\ Res(y[i][j])
                           = Res(Affine(ChunkDecayAt(in, FirstOf(r) + 0, i), z[i][j], y[i][j]))
    BY DEF Advanced
  <2>1. y[i][j] \in Int
    BY DEF KVIs, Adds
  <2>2. FirstOf(r) + 0 \in 0..(P * N - 1)
    BY <1>4, ChunksAre
  <2>3. ChunkDecayAt(in, FirstOf(r) + 0, i) \in Int
    BY <2>2, ChunkDecayTyped
  <2>4. PICK a \in Int, b \in Int : a = ChunkDecayAt(in, FirstOf(r) + 0, i) /\ b = y[i][j]
    BY <2>1, <2>3
  <2>5. Affine(a, 0, b) = b
    BY DEF Affine
  <2> QED
    BY <1>2, <2>1, <2>4, <2>5
<1>7. LocalIs(in, r, 0 + 1, y)
  BY <1>3, <1>4, <1>5, <1>6, LocalNext
<1> QED
  BY <1>1, <1>3, <1>4, <1>7

\* The local state is advanced over the chunk n, and its snapshot is the state before.
Moves(in, r, n, s, both) == LocalIs(in, r, n + 1, both[1]) /\ both[2] = s

LEMMA LaterUpdate ==
  ASSUME NEW in, IsInput(in), NEW r \in Ranks, NEW n \in Chunks, NEW y, KVIs(in, FirstOf(r) + n, y),
         NEW d, DecayIs(in, FirstOf(r) + n, d), NEW s, LocalIs(in, r, n, s)
  PROVE  Moves(in, r, n, s, Simpler!Update(FALSE, y, d, s))
<1> DEFINE z == [i \in Keys |-> [j \in Values |-> (d[i] * s[i][j] + y[i][j]) % Prime]]
<1>1. Simpler!Update(FALSE, y, d, s)[1] = z /\ Simpler!Update(FALSE, y, d, s)[2] = s
  BY SameSets DEF Simpler!Update, Simpler!Matrix
<1>2. Advanced(in, FirstOf(r) + n, s, y, z)
  <2> SUFFICES ASSUME NEW i \in Keys, NEW j \in Values
               PROVE  /\ z[i][j] \in Int
                      /\ Res(z[i][j])
                           = Res(Affine(ChunkDecayAt(in, FirstOf(r) + n, i), s[i][j], y[i][j]))
    BY DEF Advanced
  <2>1. y[i][j] \in Int
    BY DEF KVIs, Adds
  <2>2. FirstOf(r) + n \in 0..(P * N - 1)
    BY ChunksAre
  <2>3. ChunkDecayAt(in, FirstOf(r) + n, i) \in Int
    BY <2>2, ChunkDecayTyped
  <2>4. s[i][j] \in Int
    BY DEF LocalIs, LocalAt
  <2>5. PICK a \in Int, b \in Int, c \in Int :
          a = ChunkDecayAt(in, FirstOf(r) + n, i) /\ b = y[i][j] /\ c = s[i][j]
    BY <2>1, <2>3, <2>4
  <2>6. d[i] = a
    BY <2>5 DEF DecayIs
  <2>7. z[i][j] = (a * c + b) % Prime
    BY <2>5, <2>6
  <2>8. PICK w \in Int : w = a * c + b
    OBVIOUS
  <2>9. z[i][j] = Res(w)
    BY <2>7, <2>8 DEF Res, Residue
  <2> QED
    BY <2>5, <2>8, <2>9, ResRes DEF Affine
<1> HIDE DEF z
<1>3. LocalIs(in, r, n + 1, z)
  BY <1>2, LocalNext
<1> QED
  BY <1>1, <1>3 DEF Moves

\* The state at the end of the rank, from the snapshot before its last chunk.
LEMMA S_totalIs ==
  ASSUME NEW in, IsInput(in), NEW r \in Ranks, NEW n, n = N - 1, NEW x, GcsIs(in, FirstOf(r) + n, x),
         NEW k, \A c \in Rows, i \in Keys : k[c][i] = in.k[(FirstOf(r) + n) * C + c][i],
         NEW v, \A c \in Rows, j \in Values : v[c][j] = in.v[(FirstOf(r) + n) * C + c][j],
         NEW s, LocalIs(in, r, n, s)
  PROVE  LocalIs(in, r, N, Simpler!S_total(x, k, v, s))
<1> DEFINE u == FirstOf(r) + n
           f(i, j) == [c \in 0..(C - 1) |-> k[c][i] * Simpler!Rest(x, c, i) * v[c][j]]
           t(i, j) == SumOf(C, f(i, j))
           y == [i \in Keys |-> [j \in Values |-> t(i, j)]]
           e(i, j) == (Exp(x[C - 1][i]) * s[i][j] + t(i, j)) % Prime
           z == [i \in Keys |-> [j \in Values |-> e(i, j)]]
<1>0. n \in Chunks /\ u \in 0..(P * N - 1) /\ Rows = 0..(C - 1) /\ n + 1 = N
  BY ChunksAre
<1>1. Simpler!S_total(x, k, v, s) = z
  <2> DEFINE w == [i \in Simpler!Keys |-> [j \in Simpler!Values |->
                     (Simpler!Exp(x[C - 1][i]) * s[i][j] + Simpler!SumOf(C, f(i, j))) % Prime]]
  <2>1. Simpler!S_total(x, k, v, s) = w
    BY Zenon DEF Simpler!S_total, Simpler!Matrix, Simpler!Total
  <2> HIDE DEF f
  <2>2. w = z
    BY SameSets, SameExp, SameSum
  <2> QED
    BY <2>1, <2>2
<1>2. KVIs(in, u, y)
  <2> SUFFICES ASSUME NEW i \in Keys, NEW j \in Values PROVE Adds(in, u, i, j, t(i, j))
    BY DEF KVIs
  <2>1. ASSUME NEW c \in Rows
        PROVE  /\ f(i, j)[c] \in Int
               /\ Res(f(i, j)[c])
                    = Res(in.k[u * C + c][i] * KeyToEnd(in, u, c, i) * in.v[u * C + c][j])
    <3>1. u * C + c \in Tokens
      BY <1>0, TokenOf
    <3>2. in.k[u * C + c][i] \in Int /\ in.v[u * C + c][j] \in Int
      BY <3>1 DEF IsInput
    <3>3. KeyToEnd(in, u, c, i) \in Int
      BY <1>0, KeyToEndIs
    <3>4. f(i, j)[c] = k[c][i] * Simpler!Rest(x, c, i) * v[c][j]
      BY <1>0
    <3>5. Simpler!Rest(x, c, i) = KeyToEnd(in, u, c, i)
      BY <1>0, RestIs
    <3>6. f(i, j)[c] = in.k[u * C + c][i] * KeyToEnd(in, u, c, i) * in.v[u * C + c][j]
      BY <3>4, <3>5
    <3> QED
      BY <3>2, <3>3, <3>6
  <2> DEFINE ff == f(i, j)
  <2> HIDE DEF f
  <2>2. \A c \in Rows :
          /\ ff[c] \in Int
          /\ Res(ff[c]) = Res(in.k[u * C + c][i] * KeyToEnd(in, u, c, i) * in.v[u * C + c][j])
    BY <2>1
  <2>3. u \in 0..(P * N - 1)
    BY <1>0
  <2> HIDE DEF u, ff
  <2>4. Adds(in, u, i, j, SumOf(C, ff))
    BY <2>2, <2>3, ChunkAdds
  <2> QED
    BY <2>4 DEF ff
<1> HIDE DEF f
<1>3. Advanced(in, u, s, y, z)
  <2> SUFFICES ASSUME NEW i \in Keys, NEW j \in Values
               PROVE  /\ z[i][j] \in Int
                      /\ Res(z[i][j]) = Res(Affine(ChunkDecayAt(in, u, i), s[i][j], y[i][j]))
    BY DEF Advanced
  <2>1. y[i][j] \in Int
    BY <1>2 DEF KVIs, Adds
  <2>2. ChunkDecayAt(in, u, i) \in Int
    BY <1>0, ChunkDecayTyped
  <2>3. s[i][j] \in Int
    BY DEF LocalIs, LocalAt
  <2>4. PICK a \in Int, b \in Int, c \in Int :
          a = ChunkDecayAt(in, u, i) /\ b = y[i][j] /\ c = s[i][j]
    BY <2>1, <2>2, <2>3
  <2>5. Exp(x[C - 1][i]) = a
    BY <1>0, <2>4, RestIs
  <2>6. PICK w \in Int : w = a * c + b
    OBVIOUS
  <2>7. y[i][j] = t(i, j) /\ z[i][j] = e(i, j)
    OBVIOUS
  <2> HIDE DEF t
  <2>8. z[i][j] = Res(w)
    BY <2>4, <2>5, <2>6, <2>7 DEF Res, Residue
  <2> QED
    BY <2>4, <2>6, <2>8, ResRes DEF Affine
<1> HIDE DEF z, y
<1>4. LocalIs(in, r, n + 1, z)
  BY <1>0, <1>2, <1>3, LocalNext
<1> QED
  BY <1>0, <1>1, <1>4

-----------------------------------------------------------------------------
(* The gates, as the host of the simpler backend multiplies them *)

\* The gates of a chunk multiply to the decay of the chunk.
LEMMA GateProduct ==
  ASSUME NEW in, IsInput(in), NEW u \in 0..(P * N - 1), NEW i \in Keys, NEW f,
         \A c \in Rows : f[c] = Gate(in, u * C + c, i)
  PROVE  ProductOf(C, f) = ChunkDecayAt(in, u, i)
<1> DEFINE e == [m \in 0..C |-> Exp(LogSums(in, u, i)[m])]
<1>0. C \in Nat \ {0} /\ Rows = 0..(C - 1)
  BY ChunksAre
<1>1. \A c \in Rows : f[c] \in Int /\ e[c + 1] = Res(f[c] * e[c])
  <2> TAKE c \in Rows
  <2>1. c \in 0..C /\ c + 1 \in 0..C
    BY <1>0
  <2>2. Gate(in, u * C + c, i) \in Int
        /\ Exp(LogSums(in, u, i)[c + 1]) = Res(Gate(in, u * C + c, i) * Exp(LogSums(in, u, i)[c]))
    BY ChunkGates
  <2> QED
    BY <2>1, <2>2
<1>2. e[0] = 1 /\ \A m \in 0..C : e[m] \in Int
  <2>1. LogSums(in, u, i)[0] = 0
    BY LogSumsIs
  <2>2. 0 \in 0..C
    BY <1>0
  <2>3. \A m \in 0..C : Exp(LogSums(in, u, i)[m]) \in Int
    BY ChunkGates
  <2> QED
    BY <2>1, <2>2, <2>3, ExpZero
<1>3. e[C] = ChunkDecayAt(in, u, i)
  BY <1>0 DEF ChunkDecayAt
<1> HIDE DEF e
<1>4. PICK s : ModProduct(s, C, f) /\ s[C] = ProductOf(C, f)
  <2>1. IntsBelow(C, f)
    BY <1>0, <1>1 DEF IntsBelow
  <2> QED
    BY <1>0, <2>1, ProductIs
<1>5. /\ s[0] = 1 /\ \A m \in 0..C : s[m] \in Int
      /\ \A m \in 0..(C - 1) : s[m + 1] = Res(s[m] * f[m])
  BY <1>4 DEF ModProduct
<1>6. \A m \in Nat : m <= C => s[m] = e[m]
  <2> DEFINE S == {m \in Nat : m <= C => s[m] = e[m]}
  <2>1. 0 \in S
    BY <1>2, <1>5
  <2>2. ASSUME NEW m \in Nat, m \in S PROVE m + 1 \in S
    <3> SUFFICES ASSUME m + 1 <= C PROVE s[m + 1] = e[m + 1]
      OBVIOUS
    <3>1. m \in Rows /\ m \in 0..(C - 1) /\ m \in 0..C
      BY <1>0
    <3>2. s[m] = e[m]
      BY <1>0, <2>2
    <3>3. PICK x \in Int, y \in Int : x = f[m] /\ y = e[m]
      BY <1>1, <1>2, <3>1
    <3>4. y * x = x * y
      OBVIOUS
    <3> QED
      BY <1>1, <1>5, <3>1, <3>2, <3>3, <3>4
  <2> HIDE DEF S
  <2>3. Nat \subseteq S
    BY <2>1, <2>2, SetInduction
  <2> QED
    BY <2>3 DEF S
<1> QED
  BY <1>0, <1>3, <1>4, <1>6

\* A product of decays of chunks is the decay over them.
LEMMA DecayProduct ==
  ASSUME NEW in, NEW u, NEW n, NEW i, NEW f,
         f = [m \in 0..(n - 1) |-> f[m]], \A m \in 0..(n - 1) : f[m] = ChunkDecayAt(in, u + m, i)
  PROVE  ProductOf(n, f) = DecayOf(in, u, n, i)
<1> DEFINE g == [m \in 0..(n - 1) |-> ChunkDecayAt(in, u + m, i)]
<1>1. f = g
  OBVIOUS
<1>2. DecayOf(in, u, n, i) = ProductOf(n, g)
  BY DEF DecayOf
<1> HIDE DEF g
<1> QED
  BY <1>1, <1>2

Given == {"q", "k", "v", "g", "dO"}

\* The shards of the inputs stay where the host put them.
InputsKept ==
  \A nm \in Given, r \in Ranks, n \in Chunks :
    /\ <<nm, r, n>> \in DOMAIN heap
    /\ heap[<<nm, r, n>>] = [c \in Rows |-> input[nm][Token(r, n, c)]]

LEMMA ChunkGateIs ==
  ASSUME IsInput(input), InputsKept, NEW r \in Ranks, NEW n \in Chunks, NEW i \in Keys
  PROVE  Simpler!ChunkGate(r, n, i) = ChunkDecayAt(input, FirstOf(r) + n, i)
<1> DEFINE u == FirstOf(r) + n
           f == [c \in 0..(C - 1) |-> Simpler!Exp(heap[<<"g", r, n>>][c][i])]
<1>1. Simpler!ChunkGate(r, n, i) = Simpler!ProductOf(C, f)
  BY Zenon DEF Simpler!ChunkGate, Simpler!Product
<1>2. u \in 0..(P * N - 1) /\ Rows = 0..(C - 1)
  BY ChunksAre
<1>3. \A c \in Rows : f[c] = Gate(input, u * C + c, i)
  <2> TAKE c \in Rows
  <2>1. heap[<<"g", r, n>>][c] = input["g"][Token(r, n, c)]
    <3>1. "g" \in Given
      BY DEF Given
    <3>2. heap[<<"g", r, n>>] = [x \in Rows |-> input["g"][Token(r, n, x)]]
      BY <3>1, Zenon DEF InputsKept
    <3> DEFINE t(x) == input["g"][Token(r, n, x)]
    <3>3. heap[<<"g", r, n>>] = [x \in Rows |-> t(x)]
      BY <3>2
    <3> HIDE DEF t
    <3>4. heap[<<"g", r, n>>][c] = t(c)
      BY <3>3
    <3> QED
      BY <3>4 DEF t
  <2>2. Token(r, n, c) = u * C + c
    BY ChunksAre
  <2>3. f[c] = Simpler!Exp(heap[<<"g", r, n>>][c][i])
    BY <1>2
  <2> HIDE DEF f, u
  <2> QED
    BY <2>1, <2>2, <2>3, SameExp DEF Gate
<1> HIDE DEF f, u
<1>4. ProductOf(C, f) = ChunkDecayAt(input, u, i)
  BY <1>2, <1>3, GateProduct
<1> QED
  BY <1>1, <1>4, SameProduct DEF u

LEMMA BeforeIs ==
  ASSUME IsInput(input), InputsKept, NEW r \in Ranks, NEW n \in 0..N, NEW i \in Keys
  PROVE  Simpler!Before(r, n, i) = DecayOf(input, FirstOf(r), n, i)
<1> DEFINE f == [m \in 0..(n - 1) |-> Simpler!ChunkGate(r, m, i)]
<1>1. Simpler!Before(r, n, i) = Simpler!ProductOf(n, f)
  BY Zenon DEF Simpler!Before, Simpler!Product
<1>2. \A m \in 0..(n - 1) : m \in Chunks
  BY ChunksAre
<1>3. \A m \in 0..(n - 1) : f[m] = ChunkDecayAt(input, FirstOf(r) + m, i)
  BY <1>2, ChunkGateIs
<1>4. f = [m \in 0..(n - 1) |-> f[m]]
  OBVIOUS
<1> HIDE DEF f
<1>5. ProductOf(n, f) = DecayOf(input, FirstOf(r), n, i)
  BY <1>3, <1>4, DecayProduct
<1> QED
  BY <1>1, <1>5, SameProduct

LEMMA RankGateIs ==
  ASSUME IsInput(input), InputsKept, NEW r \in Ranks, NEW i \in Keys
  PROVE  Simpler!RankGate(r, i) = DecayOf(input, FirstOf(r), N, i)
<1>1. Simpler!RankGate(r, i) = Simpler!Before(r, N, i)
  BY Zenon DEF Simpler!RankGate, Simpler!Before
<1>2. N \in 0..N
  BY ChunksAre
<1> QED
  BY <1>1, <1>2, BeforeIs

LEMMA CPrevIs ==
  ASSUME IsInput(input), NEW r \in Ranks, Simpler!Rank = r,
         \A m \in Chunks : GcsIs(input, FirstOf(r) + m, heap[<<"g_cs", r, m>>]),
         NEW n \in 0..N, NEW i \in Keys
  PROVE  Simpler!CPrev(n, i) = DecayOf(input, FirstOf(r), n, i)
<1> DEFINE f == [m \in 0..(n - 1) |-> Simpler!Gamma(m, i)]
<1>1. Simpler!CPrev(n, i) = Simpler!ProductOf(n, f)
  BY Zenon DEF Simpler!CPrev, Simpler!Product
<1>2. \A m \in 0..(n - 1) : m \in Chunks
  BY ChunksAre
<1>3. ASSUME NEW m \in 0..(n - 1) PROVE f[m] = ChunkDecayAt(input, FirstOf(r) + m, i)
  <2>1. m \in Chunks /\ FirstOf(r) + m \in 0..(P * N - 1)
    BY <1>2, ChunksAre
  <2>2. GcsIs(input, FirstOf(r) + m, heap[<<"g_cs", r, m>>])
    BY <2>1
  <2>3. Exp(heap[<<"g_cs", r, m>>][C - 1][i]) = ChunkDecayAt(input, FirstOf(r) + m, i)
    BY <2>1, <2>2, RestIs
  <2>4. f[m] = Simpler!Exp(heap[<<"g_cs", r, m>>][C - 1][i])
    BY DEF Simpler!Gamma, Simpler!Tensor
  <2> HIDE DEF f
  <2> QED
    BY <2>3, <2>4, SameExp
<1>4. f = [m \in 0..(n - 1) |-> f[m]]
  OBVIOUS
<1> HIDE DEF f
<1>5. ProductOf(n, f) = DecayOf(input, FirstOf(r), n, i)
  BY <1>3, <1>4, DecayProduct
<1> QED
  BY <1>1, <1>5, SameProduct

-----------------------------------------------------------------------------
(* What the outputs of a chunk pull back through its state *)

GradAt(in, u, i, j, x) ==
  /\ x \in Int
  /\ Res(IntoAt(in, u, i, j)) = Res(Affine(ChunkDecayAt(in, u, i), IntoAt(in, u + 1, i, j), x))

GradIs(in, u, x) == \A i \in Keys, j \in Values : GradAt(in, u, i, j, x[i][j])

LEMMA ChunkGrad ==
  ASSUME NEW in, IsInput(in), NEW u \in 0..(P * N - 1), NEW i \in Keys, NEW j \in Values, NEW f,
         \A c \in Rows :
           /\ f[c] \in Int
           /\ Res(f[c]) = Res(in.q[u * C + c][i] * Exp(LogSums(in, u, i)[c + 1])
                                * in.dO[u * C + c][j])
  PROVE  GradAt(in, u, i, j, Res(SumOf(C, f)))
<1> DEFINE e(c) == in.q[u * C + c][i] * Exp(LogSums(in, u, i)[c + 1]) * in.dO[u * C + c][j]
<1>0. C \in Nat \ {0} /\ Rows = 0..(C - 1)
  BY ChunksAre
<1>1. PICK s : ModSum(s, C, f) /\ s[C] = SumOf(C, f)
  <2>1. IntsBelow(C, f)
    BY <1>0 DEF IntsBelow
  <2> QED
    BY <1>0, <2>1, SumIs
<1>2. /\ s[0] = 0 /\ \A c \in 0..C : s[c] \in Int
      /\ \A c \in Rows : s[c + 1] = Res(s[c] + f[c])
  BY <1>0, <1>1 DEF ModSum
<1>3. ASSUME NEW c \in Rows PROVE Res(s[c + 1]) = Res(s[c] + e(c))
  <2>1. e(c) \in Int
    <3>1. u * C + c \in Tokens
      BY TokenOf
    <3>2. in.q[u * C + c][i] \in Int /\ in.dO[u * C + c][j] \in Int
      BY <3>1 DEF IsInput
    <3>3. c + 1 \in 0..C
      BY <1>0
    <3>4. Exp(LogSums(in, u, i)[c + 1]) \in Int
      BY <3>3, ChunkGates
    <3>5. PICK x \in Int, y \in Int, z \in Int :
            /\ x = in.q[u * C + c][i] /\ y = Exp(LogSums(in, u, i)[c + 1])
            /\ z = in.dO[u * C + c][j]
      BY <3>2, <3>4
    <3>6. x * y * z \in Int
      OBVIOUS
    <3> QED
      BY <3>5, <3>6
  <2>2. Res(f[c]) = Res(e(c)) /\ f[c] \in Int
    OBVIOUS
  <2>3. s[c] \in Int /\ s[c + 1] = Res(s[c] + f[c])
    BY <1>0, <1>2
  <2> HIDE DEF e
  <2>4. PICK x \in Int, y \in Int, z \in Int, w \in Int :
          x = s[c] /\ y = f[c] /\ z = e(c) /\ w = x + y
    BY <2>1, <2>2, <2>3
  <2>5. Res(Plus(x, y)) = Res(Plus(x, z))
    BY <2>2, <2>4, ResPlus
  <2>6. Res(Res(w)) = Res(w)
    BY ResRes
  <2> QED
    BY <2>3, <2>4, <2>5, <2>6 DEF Plus
<1>4. Res(AdjointInto(in, i, j, u * C))
        = Res(Exp(LogSums(in, u, i)[C]) * AdjointInto(in, i, j, u * C + C) + s[C])
  BY <1>2, <1>3, ChunkAdjoint
<1>5. (u + 1) * C = u * C + C /\ u \in 0..(P * N) /\ u + 1 \in 0..(P * N)
  <2>1. P * N \in Nat
    BY ChunksAre
  <2>2. PICK w \in Int : w = u
    BY <2>1
  <2>3. (w + 1) * C = w * C + C
    BY <1>0
  <2> QED
    BY <2>1, <2>2, <2>3
<1>6. PICK a \in Int, y \in Int, z \in Int :
        a = ChunkDecayAt(in, u, i) /\ y = IntoAt(in, u + 1, i, j) /\ z = SumOf(C, f)
  <2>1. s[C] \in Int
    BY <1>0, <1>2
  <2> QED
    BY <1>1, <1>5, <2>1, ChunkDecayTyped, IntoAtIs
<1>7. Res(z) \in Int /\ Res(Res(z)) = Res(z)
  BY ResRes
<1>8. Res(Affine(a, y, z)) = Res(Affine(a, y, Res(z)))
  BY <1>7, ResAffine
<1> QED
  BY <1>1, <1>4, <1>5, <1>6, <1>7, <1>8 DEF GradAt, Affine, IntoAt, ChunkDecayAt

LEMMA GradProduct ==
  ASSUME NEW in, IsInput(in), NEW u \in 0..(P * N - 1), NEW a, QEffIs(in, u, a), NEW d,
         DOMAIN d[0] = Values, \A c \in Rows, j \in Values : d[c][j] = in.dO[u * C + c][j]
  PROVE  GradIs(in, u, Simpler!MatMul("TN", a, d))
<1> SUFFICES ASSUME NEW i \in Keys, NEW j \in Values
             PROVE  GradAt(in, u, i, j, Simpler!MatMul("TN", a, d)[i][j])
  BY DEF GradIs
<1> DEFINE f == [x \in 0..(C - 1) |-> a[x][i] * d[x][j]]
<1>0. Rows = 0..(C - 1)
  BY ChunksAre
<1>1. Simpler!MatMul("TN", a, d)[i][j] = Res(SumOf(C, f))
  <2>1. DOMAIN a = Rows /\ DOMAIN a[0] = Keys
    BY DEF QEffIs
  <2>2. \A x \in Keys, y \in Values :
          Simpler!MatMul("TN", a, d)[x][y] = Res(RowProduct(a, d, x, y))
    BY <2>1, MatMulIs
  <2>3. RowProduct(a, d, i, j) = SumOf(C, f)
    BY DEF RowProduct
  <2> HIDE DEF f
  <2> QED
    BY <2>2, <2>3
<1>2. ASSUME NEW c \in Rows
      PROVE  /\ f[c] \in Int
             /\ Res(f[c]) = Res(in.q[u * C + c][i] * Exp(LogSums(in, u, i)[c + 1])
                                  * in.dO[u * C + c][j])
  <2>0. C \in Nat \ {0} /\ Rows = 0..(C - 1)
    BY ChunksAre
  <2>1. u * C + c \in Tokens /\ c + 1 \in 0..C
    BY <2>0, TokenOf
  <2>2. in.q[u * C + c][i] \in Int /\ in.dO[u * C + c][j] \in Int
    BY <2>1 DEF IsInput
  <2>3. PICK k \in Int, e \in Int, o \in Int :
          k = in.q[u * C + c][i] /\ e = Exp(LogSums(in, u, i)[c + 1]) /\ o = in.dO[u * C + c][j]
    BY <2>1, <2>2, ChunkGates
  <2>4. PICK ke \in Int : ke = k * e
    OBVIOUS
  <2>5. a[c][i] = Res(ke) /\ d[c][j] = o
    BY <2>3, <2>4 DEF QEffIs
  <2>6. f[c] = a[c][i] * d[c][j]
    BY <1>0
  <2>7. PICK z \in Int : z = Res(ke) /\ Res(z) = Res(ke)
    BY ResRes
  <2>8. Res(Times(z, o)) = Res(Times(ke, o))
    BY <2>7, ResTimes
  <2>10. Times(z, o) \in Int
    BY DEF Times
  <2>9. f[c] = Times(z, o) /\ Times(ke, o) = k * e * o
    BY <2>4, <2>5, <2>6, <2>7 DEF Times
  <2> QED
    BY <2>3, <2>8, <2>9, <2>10
<1> HIDE DEF f
<1>3. GradAt(in, u, i, j, Res(SumOf(C, f)))
  BY <1>2, ChunkGrad
<1> QED
  BY <1>1, <1>3

-----------------------------------------------------------------------------
(* The boundary exchanges *)

BoundaryAt(in, u, x) == \A i \in Keys, j \in Values : x[i][j] = StateAt(in, u, i, j)

\* Folding a rank's total into what the previous rank ended with.
LEMMA RingForward ==
  ASSUME NEW in, IsInput(in), NEW i \in Keys, NEW j \in Values, NEW a, NEW b,
         \A r \in Ranks : LocalAt(in, r, N, i, j, a[r]) /\ b[r] = DecayOf(in, FirstOf(r), N, i),
         NEW f,
         f = CHOOSE g :
               g = [r \in Ranks |-> (a[r] + (IF r = 0 THEN 0 ELSE b[r] * g[r - 1])) % Prime]
  PROVE  \A r \in Ranks : f[r] = StateAt(in, FirstOf(r + 1), i, j)
<1> DEFINE body(g) == [r \in Ranks |-> (a[r] + (IF r = 0 THEN 0 ELSE b[r] * g[r - 1])) % Prime]
           h == [r \in Ranks |-> StateAt(in, FirstOf(r + 1), i, j)]
<1>0. P \in Nat \ {0} /\ Ranks = 0..(P - 1)
  BY ChunksAre
<1>1. ASSUME NEW r \in Ranks
      PROVE  h[r] = (a[r] + (IF r = 0 THEN 0 ELSE b[r] * h[r - 1])) % Prime
  <2>1. N \in 0..N
    BY ChunksAre
  <2>2. FirstOf(r) + N = FirstOf(r + 1) /\ FirstOf(r) \in 0..(P * N) /\ FirstOf(r) + N \in 0..(P * N)
        /\ FirstOf(r) \in Nat /\ FirstOf(r) + N <= P * N /\ N \in Nat
    BY <2>1, ChunksAre, FirstIs
  <2>3. Res(StateAt(in, FirstOf(r + 1), i, j)) = StateAt(in, FirstOf(r + 1), i, j)
        /\ StateAt(in, FirstOf(r), i, j) \in Int
    BY <2>2, StateAtIs
  <2>4. DecayOf(in, FirstOf(r), N, i) \in Int
    <3>1. PICK n \in Nat : n = N /\ n \in 0..n
      BY <2>2
    <3>2. FirstOf(r) + n <= P * N
      BY <2>2, <3>1
    <3>3. DecayOf(in, FirstOf(r), n, i) \in 0..(Prime - 1)
      BY <2>2, <3>1, <3>2, DecayOfIs
    <3>4. 0..(Prime - 1) \subseteq Int
      OBVIOUS
    <3> QED
      BY <3>1, <3>3, <3>4
  <2>5. /\ a[r] \in Int /\ b[r] = DecayOf(in, FirstOf(r), N, i)
        /\ Res(StateAt(in, FirstOf(r + 1), i, j))
             = Res(DecayOf(in, FirstOf(r), N, i) * StateAt(in, FirstOf(r), i, j) + a[r])
    BY <2>2 DEF LocalAt
  <2>6. PICK x \in Int, d \in Int, s \in Int :
          /\ x = a[r] /\ d = DecayOf(in, FirstOf(r), N, i) /\ s = StateAt(in, FirstOf(r), i, j)
    BY <2>3, <2>4, <2>5
  <2>7. h[r] = (d * s + x) % Prime
    BY <2>3, <2>5, <2>6 DEF Res, Residue
  <2>8. CASE r = 0
    <3>1. s = 0
      <4>1. FirstOf(r) = 0
        BY <2>8, ChunksAre
      <4> QED
        BY <2>6, <4>1, StateAtIs
    <3>2. d * s + x = x + 0
      BY <3>1
    <3> QED
      BY <2>6, <2>7, <2>8, <3>2
  <2>9. CASE r # 0
    <3>1. r - 1 \in Ranks /\ (r - 1) + 1 = r
      BY <1>0, <2>9
    <3>2. h[r - 1] = s
      BY <2>6, <3>1
    <3>3. d * s + x = x + d * s
      OBVIOUS
    <3> QED
      BY <2>5, <2>6, <2>7, <2>9, <3>2, <3>3
  <2> QED
    BY <2>8, <2>9
<1>2. h = body(h)
  <2> DEFINE e(r) == (a[r] + (IF r = 0 THEN 0 ELSE b[r] * h[r - 1])) % Prime
  <2>1. \A r \in Ranks : h[r] = e(r)
    BY <1>1
  <2>2. body(h) = [r \in Ranks |-> e(r)]
    OBVIOUS
  <2>3. h = [r \in Ranks |-> h[r]]
    OBVIOUS
  <2> HIDE DEF h, e, body
  <2> QED
    BY <2>1, <2>2, <2>3
<1>3. f = CHOOSE g : g = body(g)
  OBVIOUS
<1>4. f = body(f)
  <2> HIDE DEF body, h
  <2> QED
    BY <1>2, <1>3
<1>5. \A r \in Ranks : f[r] = (a[r] + (IF r = 0 THEN 0 ELSE b[r] * f[r - 1])) % Prime
  BY <1>4
<1>6. \A r \in Ranks : h[r] = (a[r] + (IF r = 0 THEN 0 ELSE b[r] * h[r - 1])) % Prime
  BY <1>1
<1>7. \A r \in Ranks : h[r] = StateAt(in, FirstOf(r + 1), i, j)
  OBVIOUS
<1> HIDE DEF body, h
<1>8. \A r \in Nat : r \in Ranks => f[r] = h[r]
  <2> DEFINE S == {r \in Nat : r \in Ranks => f[r] = h[r]}
  <2>1. 0 \in S
    BY <1>5, <1>6
  <2>2. ASSUME NEW r \in Nat, r \in S PROVE r + 1 \in S
    <3> SUFFICES ASSUME r + 1 \in Ranks PROVE f[r + 1] = h[r + 1]
      OBVIOUS
    <3>1. r \in Ranks /\ (r + 1) - 1 = r /\ r + 1 # 0
      BY <1>0
    <3>2. f[r] = h[r]
      BY <2>2, <3>1
    <3> QED
      BY <1>5, <1>6, <3>1, <3>2
  <2> HIDE DEF S
  <2>3. Nat \subseteq S
    BY <2>1, <2>2, SetInduction
  <2> QED
    BY <2>3 DEF S
<1> QED
  <2> TAKE r \in Ranks
  <2>1. r \in Nat
    BY <1>0
  <2> QED
    BY <1>7, <1>8, <2>1

\* The gradient with respect to the state a rank starts from.
CrossAt(in, r, i, j, x) ==
  /\ x \in Int
  /\ Res(IntoAt(in, FirstOf(r), i, j))
       = Res(Affine(DecayOf(in, FirstOf(r), N, i), IntoAt(in, FirstOf(r + 1), i, j), x))

CrossIs(in, r, x) == \A i \in Keys, j \in Values : CrossAt(in, r, i, j, x[i][j])

LEMMA DecayTyped ==
  ASSUME NEW in, IsInput(in), NEW r \in Ranks, NEW n \in 0..N, NEW i \in Keys
  PROVE  DecayOf(in, FirstOf(r), n, i) \in Int
<1>1. PICK m \in Nat : m = n /\ m \in 0..m
  BY ChunksAre
<1>2. FirstOf(r) \in Nat /\ FirstOf(r) + m <= P * N
  BY <1>1, FirstIs
<1>3. DecayOf(in, FirstOf(r), m, i) \in 0..(Prime - 1)
  BY <1>1, <1>2, DecayOfIs
<1>4. 0..(Prime - 1) \subseteq Int
  OBVIOUS
<1> QED
  BY <1>1, <1>3, <1>4

LEMMA CrossSum ==
  ASSUME NEW in, IsInput(in), NEW r \in Ranks, NEW i \in Keys, NEW j \in Values, NEW dh,
         \A n \in Chunks : GradAt(in, FirstOf(r) + n, i, j, dh[n]),
         NEW f, \A n \in Chunks : f[n] = DecayOf(in, FirstOf(r), n, i) * dh[n]
  PROVE  CrossAt(in, r, i, j, Res(SumOf(N, f)))
<1>0. N \in 0..N /\ N \in Nat /\ Chunks = 0..(N - 1) /\ FirstOf(r) + N = FirstOf(r + 1)
  BY ChunksAre
<1>1. FirstOf(r) \in Nat /\ FirstOf(r) + N <= P * N /\ FirstOf(r) + N \in 0..(P * N)
  BY <1>0, FirstIs
<1>2. StateGrads(in, FirstOf(r), N, i, j, dh)
  BY <1>0 DEF StateGrads, GradAt, Affine
<1>3. \A n \in 0..(N - 1) : f[n] = dh[n] * DecayOf(in, FirstOf(r), n, i)
  <2> TAKE n \in 0..(N - 1)
  <2>1. n \in Chunks /\ n \in 0..N
    BY <1>0
  <2>2. PICK x \in Int, y \in Int : x = DecayOf(in, FirstOf(r), n, i) /\ y = dh[n]
    BY <2>1, DecayTyped DEF GradAt
  <2>3. x * y = y * x
    OBVIOUS
  <2> QED
    BY <2>1, <2>2, <2>3
<1>4. /\ SumOf(N, f) \in Int
      /\ Res(IntoAt(in, FirstOf(r), i, j))
           = Res(DecayOf(in, FirstOf(r), N, i) * IntoAt(in, FirstOf(r) + N, i, j) + SumOf(N, f))
  <2>1. PICK u \in Nat, m \in Nat : u = FirstOf(r) /\ m = N
    BY <1>0, <1>1
  <2>2. u + m <= P * N /\ StateGrads(in, u, m, i, j, dh)
    BY <1>1, <1>2, <2>1
  <2>3. \A n \in 0..(m - 1) : f[n] = dh[n] * DecayOf(in, u, n, i)
    BY <1>3, <2>1
  <2>4. /\ SumOf(m, f) \in Int
        /\ Res(IntoAt(in, u, i, j))
             = Res(DecayOf(in, u, m, i) * IntoAt(in, u + m, i, j) + SumOf(m, f))
    BY <2>2, <2>3, AdjointComposes
  <2> QED
    BY <2>1, <2>4
<1>5. PICK d \in Int, y \in Int, z \in Int :
        /\ d = DecayOf(in, FirstOf(r), N, i) /\ y = IntoAt(in, FirstOf(r) + N, i, j)
        /\ z = SumOf(N, f)
  BY <1>0, <1>1, <1>4, DecayTyped, IntoAtIs
<1>6. Res(z) \in Int /\ Res(Res(z)) = Res(z)
  BY ResRes
<1>7. Res(Affine(d, y, z)) = Res(Affine(d, y, Res(z)))
  BY <1>6, ResAffine
<1> QED
  BY <1>0, <1>4, <1>5, <1>6, <1>7 DEF CrossAt, Affine

\* What rank r ends with, from what the rank after it starts with.
LEMMA RingReverse ==
  ASSUME NEW in, IsInput(in), NEW i \in Keys, NEW j \in Values, NEW a, NEW b,
         \A r \in Ranks : \/ r = P - 1 /\ a[r] = 0
                          \/ /\ r + 1 \in Ranks /\ CrossAt(in, r + 1, i, j, a[r])
                             /\ b[r] = DecayOf(in, FirstOf(r + 1), N, i),
         NEW f,
         f = CHOOSE g :
               g = [r \in Ranks |-> (a[r] + (IF r = P - 1 THEN 0 ELSE b[r] * g[r + 1])) % Prime]
  PROVE  \A r \in Ranks : f[r] = IntoAt(in, FirstOf(r + 1), i, j)
<1> DEFINE body(g) ==
             [r \in Ranks |-> (a[r] + (IF r = P - 1 THEN 0 ELSE b[r] * g[r + 1])) % Prime]
           h == [r \in Ranks |-> IntoAt(in, FirstOf(r + 1), i, j)]
<1>0. P \in Nat \ {0} /\ Ranks = 0..(P - 1)
  BY ChunksAre
<1>1. ASSUME NEW r \in Ranks
      PROVE  h[r] = (a[r] + (IF r = P - 1 THEN 0 ELSE b[r] * h[r + 1])) % Prime
  <2>1. CASE r = P - 1
    <3>1. FirstOf(r + 1) = P * N
      BY <1>0, <2>1, ChunksAre
    <3>2. a[r] = 0 /\ h[r] = 0
      <4>1. r + 1 \notin Ranks
        BY <1>0, <2>1
      <4> QED
        BY <3>1, <4>1, IntoAtIs
    <3>3. (0 + 0) % Prime = 0
      <4>1. Prime \in Nat /\ Prime > 1
        BY Field
      <4> QED
        BY <4>1
    <3> QED
      BY <2>1, <3>2, <3>3
  <2>2. CASE r # P - 1
    <3>1. r + 1 \in Ranks /\ CrossAt(in, r + 1, i, j, a[r]) /\ b[r] = DecayOf(in, FirstOf(r + 1), N, i)
      BY <2>2
    <3>2. PICK q \in Ranks : q = r + 1
      BY <3>1
    <3>3. N \in 0..N /\ FirstOf(q) + N = FirstOf(q + 1)
      BY ChunksAre
    <3>4. FirstOf(q) \in 0..(P * N) /\ FirstOf(q + 1) \in 0..(P * N)
      BY <3>3, FirstIs
    <3>5. PICK d \in Int, y \in Int, x \in Int :
            d = DecayOf(in, FirstOf(q), N, i) /\ y = IntoAt(in, FirstOf(q + 1), i, j) /\ x = a[r]
      BY <3>1, <3>3, <3>4, DecayTyped, IntoAtIs DEF CrossAt
    <3>6. IntoAt(in, FirstOf(q), i, j) = Res(Affine(d, y, x))
      BY <3>1, <3>2, <3>4, <3>5, IntoAtIs DEF CrossAt
    <3>7. h[r] = IntoAt(in, FirstOf(q), i, j) /\ h[r + 1] = y
      BY <3>2, <3>5
    <3>8. Res(Affine(d, y, x)) = (x + d * y) % Prime
      <4>1. d * y + x = x + d * y
        OBVIOUS
      <4> QED
        BY <4>1 DEF Res, Residue, Affine
    <3> HIDE DEF h
    <3> QED
      BY <2>2, <3>1, <3>2, <3>5, <3>6, <3>7, <3>8
  <2> QED
    BY <2>1, <2>2
<1>2. h = body(h)
  <2> DEFINE e(r) == (a[r] + (IF r = P - 1 THEN 0 ELSE b[r] * h[r + 1])) % Prime
  <2>1. \A r \in Ranks : h[r] = e(r)
    BY <1>1
  <2>2. body(h) = [r \in Ranks |-> e(r)]
    OBVIOUS
  <2>3. h = [r \in Ranks |-> h[r]]
    OBVIOUS
  <2> HIDE DEF h, e, body
  <2> QED
    BY <2>1, <2>2, <2>3
<1>3. f = CHOOSE g : g = body(g)
  OBVIOUS
<1>4. f = body(f)
  <2> HIDE DEF body, h
  <2> QED
    BY <1>2, <1>3
<1>5. \A r \in Ranks : f[r] = (a[r] + (IF r = P - 1 THEN 0 ELSE b[r] * f[r + 1])) % Prime
  BY <1>4
<1>6. \A r \in Ranks : h[r] = (a[r] + (IF r = P - 1 THEN 0 ELSE b[r] * h[r + 1])) % Prime
  BY <1>1
<1>7. \A r \in Ranks : h[r] = IntoAt(in, FirstOf(r + 1), i, j)
  OBVIOUS
<1> HIDE DEF body, h
<1>8. \A k \in Nat : k < P => f[P - 1 - k] = h[P - 1 - k]
  <2> DEFINE S == {k \in Nat : k < P => f[P - 1 - k] = h[P - 1 - k]}
  <2>1. 0 \in S
    <3>1. P - 1 - 0 = P - 1 /\ P - 1 \in Ranks
      BY <1>0
    <3> QED
      BY <1>5, <1>6, <3>1
  <2>2. ASSUME NEW k \in Nat, k \in S PROVE k + 1 \in S
    <3> SUFFICES ASSUME k + 1 < P PROVE f[P - 1 - (k + 1)] = h[P - 1 - (k + 1)]
      OBVIOUS
    <3>1. PICK r \in Ranks : r = P - 1 - (k + 1) /\ r + 1 = P - 1 - k /\ r # P - 1
      BY <1>0
    <3>2. f[r + 1] = h[r + 1]
      BY <1>0, <2>2, <3>1
    <3>3. f[r] = h[r]
      <4> DEFINE e(x) == (a[r] + (IF r = P - 1 THEN 0 ELSE b[r] * x)) % Prime
      <4>1. f[r] = e(f[r + 1])
        BY <1>5
      <4>2. h[r] = e(h[r + 1])
        BY <1>6
      <4> HIDE DEF e
      <4> QED
        BY <3>2, <4>1, <4>2, Zenon
    <3> QED
      BY <3>1, <3>3
  <2> HIDE DEF S
  <2>3. Nat \subseteq S
    BY <2>1, <2>2, SetInduction
  <2> QED
    BY <2>3 DEF S
<1> QED
  <2> TAKE r \in Ranks
  <2>1. PICK k \in Nat : k < P /\ r = P - 1 - k
    <3>1. P - 1 - r \in Nat /\ P - 1 - r < P /\ r = P - 1 - (P - 1 - r)
      BY <1>0
    <3> QED
      BY <3>1
  <2> QED
    BY <1>7, <1>8, <2>1

-----------------------------------------------------------------------------
(* What the tensors of the simpler backend hold *)

\* The tensor called nm of rank r, chunk n.
Means(nm, r, n, x) ==
  /\ nm \in Given => x = [c \in Rows |-> input[nm][Token(r, n, c)]]
  /\ nm = "g_cs" => GcsIs(input, FirstOf(r) + n, x)
  /\ nm = "k_rest" => KRestIs(input, FirstOf(r) + n, x)
  /\ nm = "decay" => DecayIs(input, FirstOf(r) + n, x)
  /\ nm = "KV" => KVIs(input, FirstOf(r) + n, x)
  /\ nm = "s_snap" => LocalIs(input, r, n, x)
  /\ nm = "S_total" => LocalIs(input, r, N, x)
  /\ nm = "S_recv" => BoundaryAt(input, FirstOf(r), x)
  /\ nm = "snap" => BoundaryAt(input, FirstOf(r) + n, x)
  /\ nm = "q_eff" => QEffIs(input, FirstOf(r) + n, x)
  /\ nm = "dH" => GradIs(input, FirstOf(r) + n, x)
  /\ nm = "dS_recv" => CrossIs(input, r, x)
  /\ nm = "dS_total" => \A i \in Keys, j \in Values : x[i][j] = IntoAt(input, FirstOf(r + 1), i, j)

\* The snapshots of a rank are folded together.
Together(h) ==
  \A r \in Ranks, n \in Chunks :
    <<"snap", r, 0>> \in DOMAIN h => <<"snap", r, n>> \in DOMAIN h

Good(h) ==
  /\ Together(h)
  /\ \A key \in DOMAIN h :
       key[2] \in Ranks /\ key[3] \in Chunks /\ Means(key[1], key[2], key[3], h[key])

InHeap(nm, r, n) == <<nm, r, n>> \in DOMAIN heap

\* What is there, by the place of the host in its script.
Present ==
  \A r \in Ranks, n \in Chunks :
    /\ \A nm \in Given : InHeap(nm, r, n)
    /\ place > 3 * r + 1 => InHeap("g_cs", r, n)
    /\ place > 3 * r + 2 => InHeap("s_snap", r, n)
    /\ place > 3 * r + 3 => InHeap("S_total", r, 0)
    /\ place > 3 * P + 1 => InHeap("S_recv", r, 0)
    /\ op = "backward" /\ place > 3 * P + 3 * r + 3 => InHeap("dH", r, n)
    /\ op = "backward" /\ place > 3 * P + 3 * r + 4 => InHeap("dS_recv", r, 0)

Holding == input \in Inputs /\ op \in Ops /\ place \in Nat \ {0} /\ Good(heap) /\ Present

LEMMA Held ==
  ASSUME Good(heap), NEW nm, NEW r, NEW n, InHeap(nm, r, n)
  PROVE  r \in Ranks /\ n \in Chunks /\ Means(nm, r, n, heap[<<nm, r, n>>])
  BY DEF Good, InHeap

LEMMA GoodOver ==
  ASSUME NEW t, NEW h, Good(t), Good(h)
  PROVE  Good(Over(t, h))
<1>1. /\ DOMAIN Over(t, h) = DOMAIN t \cup DOMAIN h
      /\ \A key \in DOMAIN t : Over(t, h)[key] = t[key]
      /\ \A key \in DOMAIN h \ DOMAIN t : Over(t, h)[key] = h[key]
  BY OverAt
<1>2. Together(Over(t, h))
  BY <1>1 DEF Good, Together
<1> QED
  BY <1>1, <1>2 DEF Good

LEMMA InputTyped ==
  ASSUME Holding
  PROVE  /\ IsInput(input) /\ op \in {"forward", "backward"}
         /\ \A r \in Ranks, n \in Chunks, c \in Rows :
              /\ input["q"][Token(r, n, c)] \in [Keys -> Int]
              /\ input["k"][Token(r, n, c)] \in [Keys -> Int]
              /\ input["v"][Token(r, n, c)] \in [Values -> Int]
              /\ input["dO"][Token(r, n, c)] \in [Values -> Int]
<1>1. op \in {"forward", "backward"} /\ IsInput(input)
  BY CallAssumption DEF Holding, IsInput
<1>2. {input.q, input.k} \subseteq [Tokens -> [Keys -> Int]]
      /\ {input.v, input.dO} \subseteq [Tokens -> [Values -> Int]]
  BY <1>1 DEF IsInput
<1>3. \A r \in Ranks, n \in Chunks, c \in Rows : Token(r, n, c) \in Tokens
  BY TokenTyped
<1> QED
  BY <1>1, <1>2, <1>3

LEMMA KeepsInputs ==
  ASSUME Holding
  PROVE  InputsKept
<1> SUFFICES ASSUME NEW nm \in Given, NEW r \in Ranks, NEW n \in Chunks
             PROVE  /\ InHeap(nm, r, n)
                    /\ heap[<<nm, r, n>>] = [c \in Rows |-> input[nm][Token(r, n, c)]]
  BY DEF InputsKept, InHeap
<1>1. InHeap(nm, r, n)
  BY DEF Holding, Present
<1>2. Means(nm, r, n, heap[<<nm, r, n>>])
  BY <1>1, Held DEF Holding
<1> QED
  BY <1>1, <1>2, Zenon DEF Means

\* An element of a shard.
LEMMA ShardAt ==
  ASSUME Holding, NEW nm \in Given, NEW r \in Ranks, NEW n \in Chunks, NEW c \in Rows
  PROVE  heap[<<nm, r, n>>][c] = input[nm][(FirstOf(r) + n) * C + c]
<1> DEFINE e(x) == input[nm][Token(r, n, x)]
<1>1. heap[<<nm, r, n>>] = [x \in Rows |-> e(x)]
  BY KeepsInputs DEF InputsKept
<1>2. e(c) = input[nm][(FirstOf(r) + n) * C + c]
  BY ChunksAre
<1> HIDE DEF e
<1> QED
  BY <1>1, <1>2

-----------------------------------------------------------------------------
(* The host steps *)

HostStep(stage, t) ==
  /\ ~Simpler!Ended /\ Simpler!Stage = stage
  /\ heap' = Over(t, heap) /\ place' = place + 1
  /\ UNCHANGED <<input, op, done>>

LEMMA STotalStep ==
  ASSUME Holding, Simpler!STotal
  PROVE  \E t : /\ HostStep("S_total", t) /\ Good(t) /\ <<"S_total", Simpler!Rank, 0>> \in DOMAIN t
                /\ place = 3 * Simpler!Rank + 3
<1> DEFINE r == Simpler!Rank
           n == N - 1
           x == Simpler!S_total(heap[<<"g_cs", r, n>>], heap[<<"k", r, n>>], heap[<<"v", r, n>>],
                                heap[<<"s_snap", r, n>>])
           t == Named(<<"S_total", r, 0>>, x)
<1>1. /\ ~Simpler!Ended /\ Simpler!Stage = "S_total" /\ place' = place + 1
      /\ UNCHANGED <<input, op, done>>
      /\ heap' = Simpler!Over(Simpler!Named(<<"S_total", r, 0>>, x), heap)
  BY Zenon DEF Simpler!STotal, Simpler!Perform, Simpler!Tensor
<1>2. HostStep("S_total", t)
  <2> HIDE DEF x
  <2> QED
    BY <1>1, SameOver, SameNamed DEF HostStep
<1>3. r \in Ranks /\ place = 3 * r + 3
  <2>1. r \in Ranks /\ Where(Simpler!Stage, r)
    BY <1>1, PlaceIs, InputTyped DEF Holding
  <2> QED
    BY <1>1, <2>1 DEF Where
<1> HIDE DEF r
<1>4. n \in Chunks /\ Rows = 0..(C - 1) /\ 0 \in Chunks
  BY ChunksAre
<1>5. r \in Nat
  BY <1>3, ChunksAre
<1>6. InHeap("g_cs", r, n) /\ InHeap("s_snap", r, n)
  BY <1>3, <1>4, <1>5 DEF Holding, Present
<1>7. GcsIs(input, FirstOf(r) + n, heap[<<"g_cs", r, n>>])
  <2>1. Means("g_cs", r, n, heap[<<"g_cs", r, n>>])
    BY <1>6, Held DEF Holding
  <2> QED
    BY <2>1 DEF Means
<1>8. LocalIs(input, r, n, heap[<<"s_snap", r, n>>])
  <2>1. Means("s_snap", r, n, heap[<<"s_snap", r, n>>])
    BY <1>6, Held DEF Holding
  <2> QED
    BY <2>1 DEF Means
<1>9. "k" \in Given /\ "v" \in Given
  BY DEF Given
<1>10. \A c \in Rows, i \in Keys :
         heap[<<"k", r, n>>][c][i] = input.k[(FirstOf(r) + n) * C + c][i]
  BY <1>3, <1>4, <1>9, ShardAt
<1>11. \A c \in Rows, j \in Values :
         heap[<<"v", r, n>>][c][j] = input.v[(FirstOf(r) + n) * C + c][j]
  BY <1>3, <1>4, <1>9, ShardAt
<1>12. LocalIs(input, r, N, x)
  <2>1. IsInput(input)
    BY InputTyped
  <2> QED
    BY <1>3, <1>7, <1>8, <1>10, <1>11, <2>1, S_totalIs
<1> HIDE DEF x
<1>13. Means("S_total", r, 0, x)
  BY <1>12 DEF Means, Given
<1>14. DOMAIN t = {<<"S_total", r, 0>>} /\ t[<<"S_total", r, 0>>] = x
  BY DEF Named
<1>15. Good(t)
  <2> HIDE DEF t
  <2>1. Together(t)
    BY <1>14 DEF Together
  <2> QED
    BY <1>3, <1>4, <1>13, <1>14, <2>1 DEF Good
<1> QED
  BY <1>2, <1>3, <1>14, <1>15 DEF r

\* The place of a host step in the script.
LEMMA HostPlace ==
  ASSUME Holding, ~Simpler!Ended
  PROVE  Simpler!Rank \in Ranks /\ Where(Simpler!Stage, Simpler!Rank)
  BY PlaceIs, InputTyped DEF Holding

\* Some residues are residues already.
LEMMA ResOf ==
  ASSUME NEW x
  PROVE  Res(x) = x % Prime
  BY DEF Res, Residue

LEMMA BoundaryStep ==
  ASSUME Holding, Simpler!Boundary
  PROVE  \E t : /\ HostStep("boundary", t) /\ Good(t) /\ place = 3 * P + 1
                /\ \A p \in Ranks : <<"S_recv", p, 0>> \in DOMAIN t
<1> DEFINE ent(g, r, i, j) == (heap[<<"S_total", r, 0>>][i][j]
                                 + (IF r = 0 THEN 0 ELSE Simpler!RankGate(r, i) * g[r - 1])) % Prime
           out(i, j) == CHOOSE g : g = [r \in Simpler!Ranks |-> ent(g, r, i, j)]
           Out(p) == [i \in Simpler!Keys |-> [j \in Simpler!Values |-> out(i, j)[p] % Prime]]
           zero == [i \in Simpler!Keys |-> [j \in Simpler!Values |-> 0 % Prime]]
           Recv(p) == IF p = 0 THEN zero ELSE Out(p - 1)
           t == [key \in {<<"S_recv", p, 0>> : p \in Simpler!Ranks} |-> Recv(key[2])]
<1>1. /\ ~Simpler!Ended /\ Simpler!Stage = "boundary" /\ place' = place + 1
      /\ UNCHANGED <<input, op, done>>
      /\ heap' = Simpler!Over(t, heap)
  BY Zenon DEF Simpler!Boundary, Simpler!Perform, Simpler!ByRank, Simpler!Matrix
<1>2. HostStep("boundary", t)
  <2> HIDE DEF t
  <2> QED
    BY <1>1, SameOver DEF HostStep
<1>3. place = 3 * P + 1
  <2>1. Where("boundary", Simpler!Rank)
    BY <1>1, HostPlace
  <2> QED
    BY <2>1 DEF Where
<1>4. IsInput(input) /\ InputsKept
  BY InputTyped, KeepsInputs
<1>5. P \in Nat \ {0} /\ Ranks = 0..(P - 1) /\ 0 \in Chunks
  BY ChunksAre
<1>6. \A r \in Ranks : LocalIs(input, r, N, heap[<<"S_total", r, 0>>])
  <2> TAKE r \in Ranks
  <2>1. InHeap("S_total", r, 0)
    BY <1>3, <1>5 DEF Holding, Present
  <2>2. Means("S_total", r, 0, heap[<<"S_total", r, 0>>])
    BY <2>1, Held DEF Holding
  <2> QED
    BY <2>2 DEF Means
<1>7. ASSUME NEW i \in Keys, NEW j \in Values
      PROVE  \A r \in Ranks : out(i, j)[r] = StateAt(input, FirstOf(r + 1), i, j)
  <2> DEFINE a == [r \in Ranks |-> heap[<<"S_total", r, 0>>][i][j]]
             b == [r \in Ranks |-> Simpler!RankGate(r, i)]
             body(g) == [r \in Ranks |-> (a[r] + (IF r = 0 THEN 0 ELSE b[r] * g[r - 1])) % Prime]
             f == CHOOSE g : g = body(g)
  <2>1. ASSUME NEW r \in Ranks
        PROVE  LocalAt(input, r, N, i, j, a[r]) /\ b[r] = DecayOf(input, FirstOf(r), N, i)
    BY <1>4, <1>6, RankGateIs DEF LocalIs
  <2>2. ASSUME NEW g PROVE [r \in Simpler!Ranks |-> ent(g, r, i, j)] = body(g)
    BY SameSets
  <2>3. out(i, j) = f
    <3> DEFINE c(g) == [r \in Simpler!Ranks |-> ent(g, r, i, j)]
    <3>1. \A g : c(g) = body(g)
      BY <2>2
    <3>2. out(i, j) = CHOOSE g : g = c(g)
      OBVIOUS
    <3> HIDE DEF c, body, out
    <3> QED
      BY <3>1, <3>2
  <2>4. f = CHOOSE g : g = [r \in Ranks |-> (a[r] + (IF r = 0 THEN 0 ELSE b[r] * g[r - 1])) % Prime]
    OBVIOUS
  <2> HIDE DEF f, body, a, b, out
  <2>5. \A r \in Ranks : f[r] = StateAt(input, FirstOf(r + 1), i, j)
    BY <1>4, <2>1, <2>4, RingForward
  <2> QED
    BY <2>3, <2>5
<1> HIDE DEF out
<1>8. ASSUME NEW p \in Ranks PROVE BoundaryAt(input, FirstOf(p), Recv(p))
  <2> SUFFICES ASSUME NEW i \in Keys, NEW j \in Values
               PROVE  Recv(p)[i][j] = StateAt(input, FirstOf(p), i, j)
    BY DEF BoundaryAt
  <2>1. CASE p = 0
    <3>1. Recv(p)[i][j] = 0 % Prime
      BY <2>1, SameSets
    <3>2. 0 % Prime = 0
      <4>1. Prime \in Nat /\ Prime > 1
        BY Field
      <4> QED
        BY <4>1
    <3>3. FirstOf(p) = 0
      BY <2>1, ChunksAre
    <3> QED
      BY <1>4, <3>1, <3>2, <3>3, StateAtIs
  <2>2. CASE p # 0
    <3>1. p - 1 \in Ranks /\ (p - 1) + 1 = p
      BY <1>5, <2>2
    <3>2. Recv(p)[i][j] = out(i, j)[p - 1] % Prime
      BY <2>2, SameSets
    <3>3. out(i, j)[p - 1] = StateAt(input, FirstOf(p), i, j)
      BY <1>7, <3>1
    <3>4. Res(StateAt(input, FirstOf(p), i, j)) = StateAt(input, FirstOf(p), i, j)
      <4>1. FirstOf(p) \in 0..(P * N)
        <5>1. 0 \in 0..N
          BY ChunksAre
        <5> QED
          BY <5>1, FirstIs
      <4> QED
        BY <1>4, <4>1, StateAtIs
    <3> HIDE DEF Recv
    <3> QED
      BY <3>2, <3>3, <3>4, ResOf
  <2> QED
    BY <2>1, <2>2
<1>9. /\ DOMAIN t = {<<"S_recv", p, 0>> : p \in Ranks}
      /\ \A p \in Ranks : t[<<"S_recv", p, 0>>] = Recv(p)
  <2> HIDE DEF Recv
  <2> QED
    BY SameSets
<1> HIDE DEF t, Recv
<1>10. Good(t)
  <2>1. Together(t)
    BY <1>9 DEF Together
  <2> SUFFICES ASSUME NEW p \in Ranks PROVE Means("S_recv", p, 0, t[<<"S_recv", p, 0>>])
    BY <1>5, <1>9, <2>1 DEF Good
  <2> QED
    BY <1>8, <1>9 DEF Means, Given
<1> QED
  BY <1>2, <1>3, <1>9, <1>10

LEMMA ShiftStep ==
  ASSUME Holding, Simpler!ShiftSnaps
  PROVE  \E t : HostStep("shift_snaps", t) /\ Good(t) /\ place > 3 * P + 1
<1> DEFINE r == Simpler!Rank
           e(n, i, j) == (heap[<<"s_snap", r, n>>][i][j]
                            + Simpler!Before(r, n, i) * heap[<<"S_recv", r, 0>>][i][j]) % Prime
           Fold(n) == [i \in Simpler!Keys |-> [j \in Simpler!Values |-> e(n, i, j)]]
           t == [key \in {<<"snap", r, n>> : n \in Simpler!Chunks} |-> Fold(key[3])]
<1>1. /\ ~Simpler!Ended /\ Simpler!Stage = "shift_snaps" /\ place' = place + 1
      /\ UNCHANGED <<input, op, done>>
      /\ heap' = Simpler!Over(t, heap)
  BY Zenon DEF Simpler!ShiftSnaps, Simpler!Perform, Simpler!Chunked, Simpler!Matrix, Simpler!Tensor
<1>2. HostStep("shift_snaps", t)
  <2> HIDE DEF t
  <2> QED
    BY <1>1, SameOver DEF HostStep
<1>3. r \in Ranks /\ place > 3 * P + 1
  <2>1. r \in Ranks /\ Where("shift_snaps", r)
    BY <1>1, HostPlace
  <2>2. P \in Nat /\ r \in Nat
    BY <2>1, ChunksAre
  <2> QED
    BY <2>1, <2>2 DEF Where
<1> HIDE DEF r
<1>4. IsInput(input) /\ InputsKept
  BY InputTyped, KeepsInputs
<1>5. 0 \in Chunks /\ P \in Nat \ {0} /\ Ranks = 0..(P - 1)
  BY ChunksAre
<1>6. ASSUME NEW n \in Chunks PROVE BoundaryAt(input, FirstOf(r) + n, Fold(n))
  <2> SUFFICES ASSUME NEW i \in Keys, NEW j \in Values
               PROVE  e(n, i, j) = StateAt(input, FirstOf(r) + n, i, j)
    <3> HIDE DEF e
    <3> QED
      BY SameSets DEF BoundaryAt
  <2>1. n \in 0..N
    BY ChunksAre
  <2>2. LocalAt(input, r, n, i, j, heap[<<"s_snap", r, n>>][i][j])
    <3>1. InHeap("s_snap", r, n)
      BY <1>3, <1>5 DEF Holding, Present
    <3>2. Means("s_snap", r, n, heap[<<"s_snap", r, n>>])
      BY <3>1, Held DEF Holding
    <3> QED
      BY <3>2 DEF Means, LocalIs
  <2>3. heap[<<"S_recv", r, 0>>][i][j] = StateAt(input, FirstOf(r), i, j)
    <3>1. InHeap("S_recv", r, 0)
      BY <1>3, <1>5 DEF Holding, Present
    <3>2. Means("S_recv", r, 0, heap[<<"S_recv", r, 0>>])
      BY <3>1, Held DEF Holding
    <3> QED
      BY <3>2 DEF Means, BoundaryAt
  <2>4. Simpler!Before(r, n, i) = DecayOf(input, FirstOf(r), n, i)
    BY <1>3, <1>4, <2>1, BeforeIs
  <2>5. FirstOf(r) \in 0..(P * N) /\ FirstOf(r) + n \in 0..(P * N)
    BY <1>3, <2>1, FirstIs
  <2>6. PICK x \in Int, d \in Int, s \in Int :
          /\ x = heap[<<"s_snap", r, n>>][i][j] /\ d = DecayOf(input, FirstOf(r), n, i)
          /\ s = StateAt(input, FirstOf(r), i, j)
    BY <1>3, <1>4, <2>1, <2>2, <2>5, DecayTyped, StateAtIs DEF LocalAt
  <2>7. Res(StateAt(input, FirstOf(r) + n, i, j)) = Res(d * s + x)
    BY <2>2, <2>6 DEF LocalAt
  <2>8. Res(StateAt(input, FirstOf(r) + n, i, j)) = StateAt(input, FirstOf(r) + n, i, j)
    BY <1>4, <2>5, StateAtIs
  <2>9. e(n, i, j) = (x + d * s) % Prime
    BY <2>3, <2>4, <2>6
  <2>10. x + d * s = d * s + x
    OBVIOUS
  <2> HIDE DEF e
  <2> QED
    BY <2>7, <2>8, <2>9, <2>10, ResOf
<1>7. /\ DOMAIN t = {<<"snap", r, n>> : n \in Chunks}
      /\ \A n \in Chunks : t[<<"snap", r, n>>] = Fold(n)
  <2> HIDE DEF Fold
  <2> QED
    BY SameSets
<1> HIDE DEF t, Fold
<1>8. Good(t)
  <2>1. Together(t)
    BY <1>7 DEF Together
  <2> SUFFICES ASSUME NEW n \in Chunks PROVE Means("snap", r, n, t[<<"snap", r, n>>])
    BY <1>3, <1>7, <2>1 DEF Good
  <2> QED
    BY <1>6, <1>7 DEF Means, Given
<1> QED
  BY <1>2, <1>3, <1>8

\* Names the properties say nothing about.
Named13 ==
  Given \cup {"g_cs", "k_rest", "decay", "KV", "s_snap", "S_total", "S_recv", "snap", "q_eff", "dH",
              "dS_recv", "dS_total"}
Plain(nm) == nm \notin Named13

LEMMA PlainMeans ==
  ASSUME NEW nm, Plain(nm), NEW r, NEW n, NEW x
  PROVE  Means(nm, r, n, x)
  BY DEF Plain, Named13, Means

LEMMA PlainGood ==
  ASSUME NEW t,
         \A key \in DOMAIN t : key[2] \in Ranks /\ key[3] \in Chunks /\ Plain(key[1])
  PROVE  Good(t)
<1>1. Together(t)
  BY DEF Together, Plain, Named13
<1> QED
  BY <1>1, PlainMeans DEF Good

PlainChunks(t, nm) == Plain(nm) /\ DOMAIN t = {<<nm, Simpler!Rank, n>> : n \in Chunks}

LEMMA PlainChunksGood ==
  ASSUME NEW t, NEW nm, PlainChunks(t, nm), Simpler!Rank \in Ranks
  PROVE  Good(t)
  BY PlainGood DEF PlainChunks

LEMMA RecurrenceTensors ==
  ASSUME Simpler!Recurrence
  PROVE  \E t, s :
           /\ Simpler!Perform("recurrence", Simpler!Over(t, s))
           /\ DOMAIN t = {<<"dSloc", Simpler!Rank, n>> : n \in Simpler!Chunks}
           /\ DOMAIN s = {<<"dcvec", Simpler!Rank, n>> : n \in Simpler!Chunks}
<1> DEFINE dS(n) ==
             LET E(i, j) ==
                   LET cur[m \in Simpler!Chunks] ==
                         IF m = N - 1 THEN Simpler!Tensor("dS_total", 0)[i][j]
                         ELSE (Simpler!Gamma(m + 1, i) * cur[m + 1]
                                 + Simpler!Tensor("dH", m + 1)[i][j]) % Prime
                   IN cur[n]
             IN Simpler!Matrix(Simpler!Keys, Simpler!Values, E)
           dc(n) ==
             [i \in Simpler!Keys |->
                LET cur[m \in Simpler!Chunks] ==
                      IF m = N - 1 THEN Simpler!Tensor("dgamma", 0)[i]
                      ELSE (Simpler!Gamma(m + 1, i) * cur[m + 1]
                              + Simpler!Tensor("dcprev", m + 1)[i]) % Prime
                IN cur[n]]
           t == [key \in {<<"dSloc", Simpler!Rank, n>> : n \in Simpler!Chunks} |-> dS(key[3])]
           s == [key \in {<<"dcvec", Simpler!Rank, n>> : n \in Simpler!Chunks} |-> dc(key[3])]
<1>1. Simpler!Perform("recurrence", Simpler!Over(t, s))
  BY Zenon DEF Simpler!Recurrence, Simpler!Chunked
<1> HIDE DEF dS, dc
<1>2. /\ DOMAIN t = {<<"dSloc", Simpler!Rank, n>> : n \in Simpler!Chunks}
      /\ DOMAIN s = {<<"dcvec", Simpler!Rank, n>> : n \in Simpler!Chunks}
  OBVIOUS
<1> HIDE DEF t, s
<1> QED
  BY <1>1, <1>2, Zenon

LEMMA GateHTensors ==
  ASSUME Simpler!GateH
  PROVE  \E t, s, u :
           /\ Simpler!Perform("gate_h", Simpler!Over(t, Simpler!Over(s, u)))
           /\ DOMAIN t = {<<"dk", Simpler!Rank, n>> : n \in Simpler!Chunks}
           /\ DOMAIN s = {<<"dv", Simpler!Rank, n>> : n \in Simpler!Chunks}
           /\ DOMAIN u = {<<"dgcs", Simpler!Rank, n>> : n \in Simpler!Chunks}
<1> DEFINE dkh(n, c, i) ==
             Simpler!Tensor("dKstate", n)[c][i] * Simpler!Rest(Simpler!Tensor("g_cs", n), c, i)
           dk(n) ==
             LET E(c, i) == Simpler!Tensor("dk_o", n)[c][i] + dkh(n, c, i)
             IN Simpler!Matrix(Simpler!Rows, Simpler!Keys, E)
           dv(n) == Simpler!Add(Simpler!Tensor("dv", n), Simpler!Tensor("dVs", n))
           dgs(n, i) ==
             LET Term(j) == Simpler!Tensor("dSloc", n)[i][j] * Simpler!Tensor("s_snap", n)[i][j]
             IN Simpler!Total(DV, Term)
           dgc(n, i) == Simpler!Tensor("dcvec", n)[i] * Simpler!CPrev(n, i)
           Correction(n, i) ==
             LET Term(c) == dkh(n, c, i) * Simpler!Tensor("k", n)[c][i]
             IN (dgs(n, i) + dgc(n, i)) * Simpler!Gamma(n, i) + Simpler!Total(C, Term)
           dgcs(n) ==
             LET E(c, i) == Simpler!Tensor("dgcs_o", n)[c][i]
                              - dkh(n, c, i) * Simpler!Tensor("k", n)[c][i]
                              + (IF c = C - 1 THEN Correction(n, i) ELSE 0)
             IN Simpler!Matrix(Simpler!Rows, Simpler!Keys, E)
           t == [key \in {<<"dk", Simpler!Rank, n>> : n \in Simpler!Chunks} |-> dk(key[3])]
           s == [key \in {<<"dv", Simpler!Rank, n>> : n \in Simpler!Chunks} |-> dv(key[3])]
           u == [key \in {<<"dgcs", Simpler!Rank, n>> : n \in Simpler!Chunks} |-> dgcs(key[3])]
<1>1. Simpler!Perform("gate_h", Simpler!Over(t, Simpler!Over(s, u)))
  BY Zenon DEF Simpler!GateH, Simpler!Chunked
<1> HIDE DEF dk, dv, dgcs
<1>2. /\ DOMAIN t = {<<"dk", Simpler!Rank, n>> : n \in Simpler!Chunks}
      /\ DOMAIN s = {<<"dv", Simpler!Rank, n>> : n \in Simpler!Chunks}
      /\ DOMAIN u = {<<"dgcs", Simpler!Rank, n>> : n \in Simpler!Chunks}
  OBVIOUS
<1> HIDE DEF t, s, u
<1> QED
  BY <1>1, <1>2, Zenon

LEMMA GateGradTensors ==
  ASSUME Simpler!GateGrad
  PROVE  \E t : /\ Simpler!Perform("gate_grad", t)
                /\ DOMAIN t = {<<"dA", Simpler!Rank, n>> : n \in Simpler!Chunks}
<1>1. \E t, S : /\ Simpler!Perform("gate_grad", t)
                /\ DOMAIN t = S /\ S = {<<"dA", Simpler!Rank, n>> : n \in Simpler!Chunks}
  BY Zenon DEF Simpler!GateGrad, Simpler!Chunked, Simpler!Matrix, Simpler!Tensor
<1> QED
  BY <1>1

LEMMA GateOTensors ==
  ASSUME Simpler!GateO
  PROVE  LET r == Simpler!Rank
             f(i, j) == [n \in 0..(N - 1) |-> Simpler!CPrev(n, i) * heap[<<"dH", r, n>>][i][j]]
             x == [i \in Simpler!Keys |-> [j \in Simpler!Values |->
                     Simpler!SumOf(N, f(i, j)) % Prime]]
         IN \E t1, t2, t3, t4, t5 :
              /\ Simpler!Perform("gate_o",
                   Simpler!Over(t1, Simpler!Over(t2, Simpler!Over(t3, Simpler!Over(t4,
                     Simpler!Over(t5, Simpler!Named(<<"dS_recv", r, 0>>, x)))))))
              /\ DOMAIN t1 = {<<"dq", r, n>> : n \in Simpler!Chunks}
              /\ DOMAIN t2 = {<<"dk_o", r, n>> : n \in Simpler!Chunks}
              /\ DOMAIN t3 = {<<"dgcs_o", r, n>> : n \in Simpler!Chunks}
              /\ DOMAIN t4 = {<<"dv", r, n>> : n \in Simpler!Chunks}
              /\ DOMAIN t5 = {<<"dcprev", r, n>> : n \in Simpler!Chunks}
<1> DEFINE r == Simpler!Rank
           f(i, j) == [n \in 0..(N - 1) |-> Simpler!CPrev(n, i) * heap[<<"dH", r, n>>][i][j]]
           x == [i \in Simpler!Keys |-> [j \in Simpler!Values |->
                   Simpler!SumOf(N, f(i, j)) % Prime]]
           dq(n) ==
             LET E(c, i) == Simpler!Tensor("dQt", n)[c][i]
                              * Simpler!Exp(Simpler!Tensor("g_cs", n)[c][i])
             IN Simpler!Matrix(Simpler!Rows, Simpler!Keys, E)
           dko(n) ==
             LET E(c, i) == Simpler!Tensor("dKin", n)[c][i]
                              * Simpler!Exp(-Simpler!Tensor("g_cs", n)[c][i])
             IN Simpler!Matrix(Simpler!Rows, Simpler!Keys, E)
           dgcs(n) ==
             LET E(c, i) == dq(n)[c][i] * Simpler!Tensor("q", n)[c][i]
                              - dko(n)[c][i] * Simpler!Tensor("k", n)[c][i]
             IN Simpler!Matrix(Simpler!Rows, Simpler!Keys, E)
           dv(n) == Simpler!Tensor("dVi", n)
           dcp(n) ==
             [i \in Simpler!Keys |->
                LET Term(j) == Simpler!Tensor("dH", n)[i][j] * Simpler!Tensor("S_recv", 0)[i][j]
                IN Simpler!Total(DV, Term)]
           t1 == [key \in {<<"dq", r, n>> : n \in Simpler!Chunks} |-> dq(key[3])]
           t2 == [key \in {<<"dk_o", r, n>> : n \in Simpler!Chunks} |-> dko(key[3])]
           t3 == [key \in {<<"dgcs_o", r, n>> : n \in Simpler!Chunks} |-> dgcs(key[3])]
           t4 == [key \in {<<"dv", r, n>> : n \in Simpler!Chunks} |-> dv(key[3])]
           t5 == [key \in {<<"dcprev", r, n>> : n \in Simpler!Chunks} |-> dcp(key[3])]
           w == Simpler!Named(<<"dS_recv", r, 0>>, x)
<1>1. Simpler!Perform("gate_o",
        Simpler!Over(t1, Simpler!Over(t2, Simpler!Over(t3, Simpler!Over(t4, Simpler!Over(t5, w))))))
  BY Zenon DEF Simpler!GateO, Simpler!Chunked, Simpler!Matrix, Simpler!Tensor, Simpler!Total
<1> HIDE DEF dq, dko, dgcs, dv, dcp
<1>2. /\ DOMAIN t1 = {<<"dq", r, n>> : n \in Simpler!Chunks}
      /\ DOMAIN t2 = {<<"dk_o", r, n>> : n \in Simpler!Chunks}
      /\ DOMAIN t3 = {<<"dgcs_o", r, n>> : n \in Simpler!Chunks}
      /\ DOMAIN t4 = {<<"dv", r, n>> : n \in Simpler!Chunks}
      /\ DOMAIN t5 = {<<"dcprev", r, n>> : n \in Simpler!Chunks}
  OBVIOUS
<1> HIDE DEF t1, t2, t3, t4, t5
<1> QED
  BY <1>1, <1>2, Zenon

LEMMA GradGlueStep ==
  ASSUME Holding, Simpler!Recurrence \/ Simpler!GateH \/ Simpler!GateGrad
  PROVE  \E t : /\ HostStep(Simpler!Stage, t) /\ Good(t)
                /\ Simpler!Stage \in {"recurrence", "gate_h", "gate_grad"}
<1>1. CASE Simpler!Recurrence
  <2>0. PICK t, s :
          /\ Simpler!Perform("recurrence", Simpler!Over(t, s))
          /\ DOMAIN t = {<<"dSloc", Simpler!Rank, n>> : n \in Simpler!Chunks}
          /\ DOMAIN s = {<<"dcvec", Simpler!Rank, n>> : n \in Simpler!Chunks}
    BY <1>1, RecurrenceTensors
  <2>1. /\ ~Simpler!Ended /\ Simpler!Stage = "recurrence" /\ place' = place + 1
        /\ UNCHANGED <<input, op, done>>
        /\ heap' = Simpler!Over(Simpler!Over(t, s), heap)
    BY <2>0 DEF Simpler!Perform
  <2>2. PlainChunks(t, "dSloc") /\ PlainChunks(s, "dcvec")
    BY <2>0, SameSets DEF PlainChunks, Plain, Named13, Given
  <2>3. Simpler!Rank \in Ranks
    BY <2>1, HostPlace
  <2>4. Good(Over(t, s))
    BY <2>2, <2>3, PlainChunksGood, GoodOver
  <2>5. HostStep("recurrence", Over(t, s))
    BY <2>1, SameOver DEF HostStep
  <2> QED
    BY <2>1, <2>4, <2>5
<1>2. CASE Simpler!GateH
  <2>0. PICK t, s, u :
          /\ Simpler!Perform("gate_h", Simpler!Over(t, Simpler!Over(s, u)))
          /\ DOMAIN t = {<<"dk", Simpler!Rank, n>> : n \in Simpler!Chunks}
          /\ DOMAIN s = {<<"dv", Simpler!Rank, n>> : n \in Simpler!Chunks}
          /\ DOMAIN u = {<<"dgcs", Simpler!Rank, n>> : n \in Simpler!Chunks}
    BY <1>2, GateHTensors
  <2>1. /\ ~Simpler!Ended /\ Simpler!Stage = "gate_h" /\ place' = place + 1
        /\ UNCHANGED <<input, op, done>>
        /\ heap' = Simpler!Over(Simpler!Over(t, Simpler!Over(s, u)), heap)
    BY <2>0 DEF Simpler!Perform
  <2>2. PlainChunks(t, "dk") /\ PlainChunks(s, "dv") /\ PlainChunks(u, "dgcs")
    BY <2>0, SameSets DEF PlainChunks, Plain, Named13, Given
  <2>3. Simpler!Rank \in Ranks
    BY <2>1, HostPlace
  <2>4. Good(Over(t, Over(s, u)))
    BY <2>2, <2>3, PlainChunksGood, GoodOver
  <2>5. HostStep("gate_h", Over(t, Over(s, u)))
    BY <2>1, SameOver DEF HostStep
  <2> QED
    BY <2>1, <2>4, <2>5
<1>3. CASE Simpler!GateGrad
  <2>0. PICK t :
          /\ Simpler!Perform("gate_grad", t)
          /\ DOMAIN t = {<<"dA", Simpler!Rank, n>> : n \in Simpler!Chunks}
    BY <1>3, GateGradTensors
  <2>1. /\ ~Simpler!Ended /\ Simpler!Stage = "gate_grad" /\ place' = place + 1
        /\ UNCHANGED <<input, op, done>>
        /\ heap' = Simpler!Over(t, heap)
    BY <2>0 DEF Simpler!Perform
  <2>2. PlainChunks(t, "dA")
    BY <2>0, SameSets DEF PlainChunks, Plain, Named13, Given
  <2>3. Simpler!Rank \in Ranks
    BY <2>1, HostPlace
  <2>4. Good(t)
    BY <2>2, <2>3, PlainChunksGood
  <2>5. HostStep("gate_grad", t)
    BY <2>1, SameOver DEF HostStep
  <2> QED
    BY <2>1, <2>4, <2>5
<1> QED
  BY <1>1, <1>2, <1>3

LEMMA GateOStep ==
  ASSUME Holding, Simpler!GateO
  PROVE  \E t : /\ HostStep("gate_o", t) /\ Good(t) /\ <<"dS_recv", Simpler!Rank, 0>> \in DOMAIN t
                /\ Simpler!Rank \in Ranks /\ place = 3 * P + 3 * Simpler!Rank + 4
<1> DEFINE r == Simpler!Rank
           f(i, j) == [n \in 0..(N - 1) |-> Simpler!CPrev(n, i) * heap[<<"dH", r, n>>][i][j]]
           x == [i \in Simpler!Keys |-> [j \in Simpler!Values |->
                  Simpler!SumOf(N, f(i, j)) % Prime]]
           w == Simpler!Named(<<"dS_recv", r, 0>>, x)
<1>0. PICK t1, t2, t3, t4, t5 :
        /\ Simpler!Perform("gate_o",
             Simpler!Over(t1, Simpler!Over(t2, Simpler!Over(t3, Simpler!Over(t4,
               Simpler!Over(t5, w))))))
        /\ DOMAIN t1 = {<<"dq", r, n>> : n \in Simpler!Chunks}
        /\ DOMAIN t2 = {<<"dk_o", r, n>> : n \in Simpler!Chunks}
        /\ DOMAIN t3 = {<<"dgcs_o", r, n>> : n \in Simpler!Chunks}
        /\ DOMAIN t4 = {<<"dv", r, n>> : n \in Simpler!Chunks}
        /\ DOMAIN t5 = {<<"dcprev", r, n>> : n \in Simpler!Chunks}
  BY GateOTensors, Zenon
<1> HIDE DEF w
<1>1. /\ ~Simpler!Ended /\ Simpler!Stage = "gate_o" /\ place' = place + 1
      /\ UNCHANGED <<input, op, done>>
      /\ heap' = Simpler!Over(Simpler!Over(t1, Simpler!Over(t2, Simpler!Over(t3,
                   Simpler!Over(t4, Simpler!Over(t5, w))))), heap)
  BY <1>0 DEF Simpler!Perform
<1>2. /\ PlainChunks(t1, "dq") /\ PlainChunks(t2, "dk_o") /\ PlainChunks(t3, "dgcs_o")
      /\ PlainChunks(t4, "dv") /\ PlainChunks(t5, "dcprev")
  BY <1>0, SameSets DEF PlainChunks, Plain, Named13, Given
<1>3. r \in Ranks /\ place = 3 * P + 3 * r + 4
  <2>1. r \in Ranks /\ Where("gate_o", r)
    BY <1>1, HostPlace
  <2> QED
    BY <2>1 DEF Where
<1> DEFINE t == Over(t1, Over(t2, Over(t3, Over(t4, Over(t5, w)))))
<1>4. HostStep("gate_o", t)
  BY <1>1, SameOver DEF HostStep
<1>5. Good(t1) /\ Good(t2) /\ Good(t3) /\ Good(t4) /\ Good(t5)
  BY <1>2, <1>3, PlainChunksGood
<1>6. IsInput(input) /\ op = "backward"
  <2>1. Where("gate_o", r)
    BY <1>1, HostPlace
  <2> QED
    BY <2>1, InputTyped DEF Where
<1>7. 0 \in Chunks /\ Chunks = 0..(N - 1) /\ P \in Nat \ {0} /\ Ranks = 0..(P - 1)
  BY ChunksAre
<1>8. ASSUME NEW n \in Chunks
      PROVE  /\ GcsIs(input, FirstOf(r) + n, heap[<<"g_cs", r, n>>])
             /\ GradIs(input, FirstOf(r) + n, heap[<<"dH", r, n>>])
  <2>1. InHeap("g_cs", r, n) /\ InHeap("dH", r, n)
    BY <1>3, <1>6, <1>7 DEF Holding, Present
  <2>2. Means("g_cs", r, n, heap[<<"g_cs", r, n>>]) /\ Means("dH", r, n, heap[<<"dH", r, n>>])
    BY <2>1, Held DEF Holding
  <2> QED
    BY <2>2 DEF Means
<1>9. CrossIs(input, r, x)
  <2> SUFFICES ASSUME NEW i \in Keys, NEW j \in Values PROVE CrossAt(input, r, i, j, x[i][j])
    BY DEF CrossIs
  <2> DEFINE dh == [n \in Chunks |-> heap[<<"dH", r, n>>][i][j]]
             ff == f(i, j)
  <2>1. x[i][j] = Res(SumOf(N, ff))
    <3> HIDE DEF f
    <3>1. x[i][j] = Simpler!SumOf(N, f(i, j)) % Prime
      BY SameSets
    <3> QED
      BY <3>1, SameSum, ResOf
  <2>2. ASSUME NEW n \in Chunks
        PROVE  /\ GradAt(input, FirstOf(r) + n, i, j, dh[n])
               /\ ff[n] = DecayOf(input, FirstOf(r), n, i) * dh[n]
    <3>1. GradAt(input, FirstOf(r) + n, i, j, dh[n])
      BY <1>8 DEF GradIs
    <3>2. n \in 0..N
      BY ChunksAre
    <3>3. Simpler!CPrev(n, i) = DecayOf(input, FirstOf(r), n, i)
      BY <1>3, <1>6, <1>8, <3>2, CPrevIs
    <3>4. ff[n] = Simpler!CPrev(n, i) * dh[n]
      BY <1>7
    <3> QED
      BY <3>1, <3>3, <3>4
  <2> HIDE DEF dh, ff, r, x
  <2>3. CrossAt(input, r, i, j, Res(SumOf(N, ff)))
    BY <1>3, <1>6, <2>2, CrossSum
  <2> QED
    BY <2>1, <2>3
<1> HIDE DEF x
<1>10. Means("dS_recv", r, 0, x)
  BY <1>9 DEF Means, Given
<1>11. DOMAIN w = {<<"dS_recv", r, 0>>} /\ w[<<"dS_recv", r, 0>>] = x
  BY SameNamed DEF w, Named
<1> HIDE DEF r
<1>12. Good(w)
  <2>1. Together(w)
    BY <1>11 DEF Together
  <2> QED
    BY <1>3, <1>7, <1>10, <1>11, <2>1 DEF Good
<1>13. Good(t)
  BY <1>5, <1>12, GoodOver
<1>14. <<"dS_recv", r, 0>> \in DOMAIN t
  <2>1. \A a, b : DOMAIN b \subseteq DOMAIN Over(a, b)
    BY OverAt
  <2>2. DOMAIN w \subseteq DOMAIN t
    BY <2>1
  <2> QED
    BY <1>11, <2>2
<1> QED
  BY <1>3, <1>4, <1>13, <1>14 DEF r

LEMMA ReverseTensors ==
  ASSUME Simpler!BoundaryBackward
  PROVE  LET ent(g, r, i, j) ==
               (Simpler!GOut(r, i, j)
                  + (IF r = P - 1 THEN 0 ELSE Simpler!RankGate(r + 1, i) * g[r + 1])) % Prime
             ds(i, j) == CHOOSE g : g = [r \in Simpler!Ranks |-> ent(g, r, i, j)]
             Into(p) == [i \in Simpler!Keys |-> [j \in Simpler!Values |-> ds(i, j)[p] % Prime]]
             t == [key \in {<<"dS_total", p, 0>> : p \in Simpler!Ranks} |-> Into(key[2])]
         IN \E s : /\ Simpler!Perform("boundary_backward", Simpler!Over(t, s))
                   /\ DOMAIN s = {<<"dgamma", p, 0>> : p \in Simpler!Ranks}
<1> DEFINE ent(g, r, i, j) ==
             (Simpler!GOut(r, i, j)
                + (IF r = P - 1 THEN 0 ELSE Simpler!RankGate(r + 1, i) * g[r + 1])) % Prime
           ds(i, j) == CHOOSE g : g = [r \in Simpler!Ranks |-> ent(g, r, i, j)]
           Into(p) == [i \in Simpler!Keys |-> [j \in Simpler!Values |-> ds(i, j)[p] % Prime]]
           t == [key \in {<<"dS_total", p, 0>> : p \in Simpler!Ranks} |-> Into(key[2])]
           dS(p, i, j) ==
             LET g[r \in Simpler!Ranks] ==
                   (Simpler!GOut(r, i, j)
                      + (IF r = P - 1 THEN 0 ELSE Simpler!RankGate(r + 1, i) * g[r + 1])) % Prime
             IN g[p]
           dg(p) ==
             [i \in Simpler!Keys |->
                LET Term(j) == dS(p, i, j) * heap[<<"S_recv", p, 0>>][i][j]
                IN Simpler!Total(DV, Term)]
           s == [key \in {<<"dgamma", p, 0>> : p \in Simpler!Ranks} |-> dg(key[2])]
<1>1. Simpler!Perform("boundary_backward", Simpler!Over(t, s))
  BY Zenon DEF Simpler!BoundaryBackward, Simpler!ByRank, Simpler!Matrix
<1> HIDE DEF dg
<1>2. DOMAIN s = {<<"dgamma", p, 0>> : p \in Simpler!Ranks}
  OBVIOUS
<1> HIDE DEF s, t
<1> QED
  BY <1>1, <1>2, Zenon DEF t

LEMMA BoundaryBackwardStep ==
  ASSUME Holding, Simpler!BoundaryBackward
  PROVE  \E t : HostStep("boundary_backward", t) /\ Good(t) /\ place = 6 * P + 2
<1> DEFINE ent(g, r, i, j) ==
             (Simpler!GOut(r, i, j)
                + (IF r = P - 1 THEN 0 ELSE Simpler!RankGate(r + 1, i) * g[r + 1])) % Prime
           ds(i, j) == CHOOSE g : g = [r \in Simpler!Ranks |-> ent(g, r, i, j)]
           Into(p) == [i \in Simpler!Keys |-> [j \in Simpler!Values |-> ds(i, j)[p] % Prime]]
           t == [key \in {<<"dS_total", p, 0>> : p \in Simpler!Ranks} |-> Into(key[2])]
<1>0. PICK s : /\ Simpler!Perform("boundary_backward", Simpler!Over(t, s))
               /\ DOMAIN s = {<<"dgamma", p, 0>> : p \in Simpler!Ranks}
  BY ReverseTensors, Zenon
<1> HIDE DEF t
<1>1. /\ ~Simpler!Ended /\ Simpler!Stage = "boundary_backward" /\ place' = place + 1
      /\ UNCHANGED <<input, op, done>>
      /\ heap' = Simpler!Over(Simpler!Over(t, s), heap)
  BY <1>0 DEF Simpler!Perform
<1>2. HostStep("boundary_backward", Over(t, s))
  BY <1>1, SameOver DEF HostStep
<1>3. place = 6 * P + 2 /\ op = "backward"
  <2>1. Where("boundary_backward", Simpler!Rank)
    BY <1>1, HostPlace
  <2> QED
    BY <2>1 DEF Where
<1>4. IsInput(input) /\ InputsKept
  BY InputTyped, KeepsInputs
<1>5. P \in Nat \ {0} /\ Ranks = 0..(P - 1) /\ 0 \in Chunks
  BY ChunksAre
<1>6. \A r \in Ranks : CrossIs(input, r, heap[<<"dS_recv", r, 0>>])
  <2> TAKE r \in Ranks
  <2>1. InHeap("dS_recv", r, 0)
    <3>1. place > 3 * P + 3 * r + 4
      BY <1>3, <1>5
    <3> QED
      BY <1>3, <1>5, <3>1 DEF Holding, Present
  <2>2. Means("dS_recv", r, 0, heap[<<"dS_recv", r, 0>>])
    BY <2>1, Held DEF Holding
  <2> QED
    BY <2>2 DEF Means
<1>7. ASSUME NEW i \in Keys, NEW j \in Values
      PROVE  \A r \in Ranks : ds(i, j)[r] = IntoAt(input, FirstOf(r + 1), i, j)
  <2> DEFINE a == [r \in Ranks |-> Simpler!GOut(r, i, j)]
             b == [r \in Ranks |-> Simpler!RankGate(r + 1, i)]
             body(g) == [r \in Ranks |->
                           (a[r] + (IF r = P - 1 THEN 0 ELSE b[r] * g[r + 1])) % Prime]
             f == CHOOSE g : g = body(g)
  <2>1. ASSUME NEW r \in Ranks
        PROVE  \/ r = P - 1 /\ a[r] = 0
               \/ /\ r + 1 \in Ranks /\ CrossAt(input, r + 1, i, j, a[r])
                  /\ b[r] = DecayOf(input, FirstOf(r + 1), N, i)
    <3>1. CASE r = P - 1
      BY <3>1 DEF Simpler!GOut
    <3>2. CASE r # P - 1
      <4>1. r + 1 \in Ranks
        BY <1>5, <3>2
      <4>2. a[r] = heap[<<"dS_recv", r + 1, 0>>][i][j]
        BY <3>2 DEF Simpler!GOut
      <4>3. CrossAt(input, r + 1, i, j, a[r])
        BY <1>6, <4>1, <4>2 DEF CrossIs
      <4>4. Simpler!RankGate(r + 1, i) = DecayOf(input, FirstOf(r + 1), N, i)
        BY <1>4, <4>1, RankGateIs
      <4> QED
        BY <4>1, <4>3, <4>4
    <3> QED
      BY <3>1, <3>2
  <2>2. ASSUME NEW g PROVE [r \in Simpler!Ranks |-> ent(g, r, i, j)] = body(g)
    BY SameSets
  <2>3. ds(i, j) = f
    <3> DEFINE c(g) == [r \in Simpler!Ranks |-> ent(g, r, i, j)]
    <3>1. \A g : c(g) = body(g)
      BY <2>2
    <3>2. ds(i, j) = CHOOSE g : g = c(g)
      OBVIOUS
    <3> HIDE DEF c, body, ds
    <3> QED
      BY <3>1, <3>2
  <2>4. f = CHOOSE g :
              g = [r \in Ranks |-> (a[r] + (IF r = P - 1 THEN 0 ELSE b[r] * g[r + 1])) % Prime]
    OBVIOUS
  <2> HIDE DEF f, body, a, b, ds
  <2>5. \A r \in Ranks : f[r] = IntoAt(input, FirstOf(r + 1), i, j)
    BY <1>4, <2>1, <2>4, RingReverse
  <2> QED
    BY <2>3, <2>5
<1> HIDE DEF ds
<1>8. ASSUME NEW p \in Ranks, NEW i \in Keys, NEW j \in Values
      PROVE  Into(p)[i][j] = IntoAt(input, FirstOf(p + 1), i, j)
  <2>1. Into(p)[i][j] = ds(i, j)[p] % Prime
    BY SameSets
  <2>2. ds(i, j)[p] = IntoAt(input, FirstOf(p + 1), i, j)
    BY <1>7
  <2>3. Res(IntoAt(input, FirstOf(p + 1), i, j)) = IntoAt(input, FirstOf(p + 1), i, j)
    <3>1. FirstOf(p + 1) \in 0..(P * N)
      <4>1. N \in 0..N /\ FirstOf(p) + N = FirstOf(p + 1)
        BY ChunksAre
      <4> QED
        BY <4>1, FirstIs
    <3> QED
      BY <1>4, <3>1, IntoAtIs
  <2> HIDE DEF Into
  <2> QED
    BY <2>1, <2>2, <2>3, ResOf
<1>9. /\ DOMAIN t = {<<"dS_total", p, 0>> : p \in Ranks}
      /\ \A p \in Ranks : t[<<"dS_total", p, 0>>] = Into(p)
  <2> HIDE DEF Into
  <2> QED
    BY SameSets DEF t
<1> HIDE DEF Into
<1>10. Good(t)
  <2>1. Together(t)
    BY <1>9 DEF Together
  <2> SUFFICES ASSUME NEW p \in Ranks PROVE Means("dS_total", p, 0, t[<<"dS_total", p, 0>>])
    BY <1>5, <1>9, <2>1 DEF Good
  <2> QED
    BY <1>8, <1>9 DEF Means, Given
<1>11. Good(s)
  <2>1. Simpler!Ranks = Ranks
    BY SameSets
  <2>2. Plain("dgamma")
    BY DEF Plain, Named13, Given
  <2> QED
    BY <1>0, <1>5, <2>1, <2>2, PlainGood
<1> QED
  BY <1>2, <1>3, <1>10, <1>11, GoodOver

-----------------------------------------------------------------------------
(* The tasks of the orchestrations *)

\* The tasks whose results the properties depend on.
TaskCumsum == [kernel |-> "CUMSUM", mode |-> "tril", in |-> <<"g">>, out |-> <<"g_cs">>]
TaskPrepH  == [kernel |-> "PREP_H", mode |-> "", in |-> <<"g_cs", "k">>,
               out |-> <<"k_rest", "decay">>]
TaskPrepO  == [kernel |-> "PREP_O", mode |-> "", in |-> <<"q", "k", "g_cs">>,
               out |-> <<"q_eff", "k_eff">>]
TaskKV     == [kernel |-> "MM", mode |-> "TN", in |-> <<"k_rest", "v">>, out |-> <<"KV">>]
TaskUpdate == [kernel |-> "UPDATE", mode |-> "", in |-> <<"KV", "decay", "S">>,
               out |-> <<"S", "s_snap">>]
TaskGrad   == [kernel |-> "MM", mode |-> "TN", in |-> <<"q_eff", "dO">>, out |-> <<"dH">>]

LEMMA TaskResults ==
  ASSUME NEW n, NEW x
  PROVE  /\ Simpler!Results(TaskCumsum, n, x) = <<Simpler!GateCumsum("tril", x[1], Prime - 1)>>
         /\ Simpler!Results(TaskPrepH, n, x) = Simpler!PrepH(x[1], x[2])
         /\ Simpler!Results(TaskPrepO, n, x) = Simpler!PrepO(x[1], x[2], x[3])
         /\ Simpler!Results(TaskKV, n, x) = <<Simpler!MatMul("TN", x[1], x[2])>>
         /\ Simpler!Results(TaskUpdate, n, x) = Simpler!Update(n = 0, x[1], x[2], x[3])
         /\ Simpler!Results(TaskGrad, n, x) = <<Simpler!MatMul("TN", x[1], x[2])>>
  BY DEF Simpler!Results, TaskCumsum, TaskPrepH, TaskPrepO, TaskKV, TaskUpdate, TaskGrad

\* One output whose value no property mentions.
Silent(task) == \E nm : task.out = <<nm>> /\ Plain(nm)

\* What a run submits for a chunk.
BodyIs(stage, b) ==
  \/ stage = "gate_cumsum" /\ b = <<TaskCumsum>>
  \/ stage = "chunk_h" /\ b = <<TaskPrepH, TaskKV, TaskUpdate>>
  \/ /\ stage = "chunk_o" /\ Len(b) = 6 /\ DOMAIN b = 1..6 /\ b[1] = TaskPrepO
     /\ \A x \in 2..6 : Silent(b[x])
  \/ /\ stage = "grad_o" /\ Len(b) = 11 /\ DOMAIN b = 1..11 /\ b[1] = TaskPrepO /\ b[4] = TaskGrad
     /\ \A x \in 2..11 : x # 4 => Silent(b[x])
  \/ /\ stage = "grad_h" /\ Len(b) = 3 /\ DOMAIN b = 1..3 /\ b[1] = TaskPrepH
     /\ \A x \in 2..3 : Silent(b[x])
  \/ stage = "reverse_cumsum" /\ Len(b) = 1 /\ DOMAIN b = 1..1 /\ Silent(b[1])

LEMMA BodyOf ==
  ASSUME NEW stage \in Simpler!Runs
  PROVE  BodyIs(stage, Simpler!Orchestration(stage))
<1>1. /\ Plain("inter") /\ Plain("aqk") /\ Plain("aqkm") /\ Plain("intra") /\ Plain("o")
      /\ Plain("scores") /\ Plain("dsc_raw") /\ Plain("dsc") /\ Plain("dqt_recon")
      /\ Plain("dqt_intra") /\ Plain("dQt") /\ Plain("dKin") /\ Plain("dVi") /\ Plain("dKstate")
      /\ Plain("dVs") /\ Plain("dP")
  BY DEF Plain, Named13, Given
<1>2. CASE stage = "gate_cumsum"
  <2>1. Simpler!Orchestration(stage) = <<TaskCumsum>>
    BY <1>2 DEF Simpler!Orchestration, Simpler!CumsumOrch, Simpler!Task, TaskCumsum
  <2> QED
    BY <1>2, <2>1 DEF BodyIs
<1>3. CASE stage = "chunk_h"
  <2>1. Simpler!Orchestration(stage) = <<TaskPrepH, TaskKV, TaskUpdate>>
    BY <1>3 DEF Simpler!Orchestration, Simpler!ChunkHOrch, Simpler!Task, Simpler!PrepareH, Simpler!MM,
                TaskPrepH, TaskKV, TaskUpdate
  <2> QED
    BY <1>3, <2>1 DEF BodyIs
<1>4. CASE stage = "chunk_o"
  <2>1. Simpler!Orchestration(stage) = Simpler!ChunkOOrch
    BY <1>4 DEF Simpler!Orchestration
  <2> DEFINE b == Simpler!ChunkOOrch
  <2>2. Len(b) = 6 /\ DOMAIN b = 1..6
    BY DEF Simpler!ChunkOOrch
  <2>3. b[1] = TaskPrepO
    BY DEF Simpler!ChunkOOrch, Simpler!PrepareO, Simpler!Task, TaskPrepO
  <2>4. /\ b[2].out = <<"inter">> /\ b[3].out = <<"aqk">> /\ b[4].out = <<"aqkm">>
        /\ b[5].out = <<"intra">> /\ b[6].out = <<"o">>
    BY DEF Simpler!ChunkOOrch, Simpler!MM, Simpler!Masked, Simpler!Added, Simpler!Task
  <2> HIDE DEF b
  <2>5. \A x \in 2..6 : Silent(b[x])
    <3>1. \A x \in 2..6 : x = 2 \/ x = 3 \/ x = 4 \/ x = 5 \/ x = 6
      OBVIOUS
    <3> QED
      BY <1>1, <2>4, <3>1, Zenon DEF Silent
  <2> QED
    BY <1>4, <2>1, <2>2, <2>3, <2>5 DEF BodyIs, b
<1>5. CASE stage = "grad_o"
  <2>1. Simpler!Orchestration(stage) = Simpler!GradOOrch
    BY <1>5 DEF Simpler!Orchestration
  <2> DEFINE b == Simpler!GradOOrch
  <2>2. Len(b) = 11 /\ DOMAIN b = 1..11
    BY DEF Simpler!GradOOrch
  <2>3. b[1] = TaskPrepO /\ b[4] = TaskGrad
    BY DEF Simpler!GradOOrch, Simpler!PrepareO, Simpler!MM, Simpler!Task, TaskPrepO, TaskGrad
  <2>4. /\ b[2].out = <<"aqk">> /\ b[3].out = <<"scores">> /\ b[5].out = <<"dsc_raw">>
        /\ b[6].out = <<"dsc">> /\ b[7].out = <<"dqt_recon">> /\ b[8].out = <<"dqt_intra">>
        /\ b[9].out = <<"dQt">> /\ b[10].out = <<"dKin">> /\ b[11].out = <<"dVi">>
    BY DEF Simpler!GradOOrch, Simpler!MM, Simpler!Masked, Simpler!Added, Simpler!Task
  <2> HIDE DEF b
  <2>5. \A x \in 2..11 : x # 4 => Silent(b[x])
    <3>1. \A x \in 2..11 : \/ x = 2 \/ x = 3 \/ x = 4 \/ x = 5 \/ x = 6 \/ x = 7 \/ x = 8
                           \/ x = 9 \/ x = 10 \/ x = 11
      OBVIOUS
    <3> QED
      BY <1>1, <2>4, <3>1, Zenon DEF Silent
  <2> QED
    BY <1>5, <2>1, <2>2, <2>3, <2>5 DEF BodyIs, b
<1>6. CASE stage = "grad_h"
  <2>1. Simpler!Orchestration(stage) = Simpler!GradHOrch
    BY <1>6 DEF Simpler!Orchestration
  <2> DEFINE b == Simpler!GradHOrch
  <2>2. Len(b) = 3 /\ DOMAIN b = 1..3
    BY DEF Simpler!GradHOrch
  <2>3. b[1] = TaskPrepH
    BY DEF Simpler!GradHOrch, Simpler!PrepareH, Simpler!Task, TaskPrepH
  <2>4. b[2].out = <<"dKstate">> /\ b[3].out = <<"dVs">>
    BY DEF Simpler!GradHOrch, Simpler!MM, Simpler!Task
  <2> HIDE DEF b
  <2>5. \A x \in 2..3 : Silent(b[x])
    <3>1. \A x \in 2..3 : x = 2 \/ x = 3
      OBVIOUS
    <3> QED
      BY <1>1, <2>4, <3>1, Zenon DEF Silent
  <2> QED
    BY <1>6, <2>1, <2>2, <2>3, <2>5 DEF BodyIs, b
<1>7. CASE stage = "reverse_cumsum"
  <2>1. Simpler!Orchestration(stage) = Simpler!ReverseCumsumOrch
    BY <1>7 DEF Simpler!Orchestration
  <2> DEFINE b == Simpler!ReverseCumsumOrch
  <2>2. Len(b) = 1 /\ DOMAIN b = 1..1
    BY DEF Simpler!ReverseCumsumOrch
  <2>3. b[1].out = <<"dP">>
    BY DEF Simpler!ReverseCumsumOrch, Simpler!Task
  <2> HIDE DEF b
  <2>4. Silent(b[1])
    BY <1>1, <2>3, Zenon DEF Silent
  <2> QED
    BY <1>7, <2>1, <2>2, <2>4 DEF BodyIs, b
<1> QED
  BY <1>2, <1>3, <1>4, <1>5, <1>6, <1>7 DEF Simpler!Runs

\* What a task reads, computes and writes for the chunk n.
Operands(task, n) == [i \in DOMAIN task.in |-> Simpler!Operand(Simpler!Key(task.in[i], n))]
Outcome(task, n) == Simpler!Results(task, n, Operands(task, n))
Written(task, n) ==
  [key \in {Simpler!Key(task.out[i], n) : i \in DOMAIN task.out} |->
     Outcome(task, n)[CHOOSE i \in DOMAIN task.out : Simpler!Key(task.out[i], n) = key]]

LEMMA TaskStep ==
  ASSUME NEW t, Simpler!RunTask(t)
  PROVE  /\ t \notin done /\ Simpler!Ready(t) /\ done' = done \cup {t}
         /\ heap' = Over(Written(Simpler!Body[t[2]], t[1]), heap)
         /\ UNCHANGED <<input, op, place>>
<1> DEFINE w == Written(Simpler!Body[t[2]], t[1])
<1>1. /\ t \notin done /\ Simpler!Ready(t) /\ done' = done \cup {t}
      /\ heap' = Simpler!Over(w, heap) /\ UNCHANGED <<input, op, place>>
  BY Zenon DEF Simpler!RunTask, Written, Outcome, Operands, Simpler!Writes
<1> HIDE DEF w
<1>2. heap' = Over(w, heap)
  BY <1>1, SameOver
<1> QED
  BY <1>1, <1>2 DEF w

LEMMA WrittenOne ==
  ASSUME NEW task, NEW nm, task.out = <<nm>>, nm # "S", NEW n
  PROVE  /\ DOMAIN Written(task, n) = {<<nm, Simpler!Rank, n>>}
         /\ Written(task, n)[<<nm, Simpler!Rank, n>>] = Outcome(task, n)[1]
<1> DEFINE res == Outcome(task, n)
           k(x) == Simpler!Key(x, n)
           w == [key \in {k(task.out[i]) : i \in DOMAIN task.out} |->
                   res[CHOOSE i \in DOMAIN task.out : k(task.out[i]) = key]]
<1>1. k(nm) = <<nm, Simpler!Rank, n>>
  BY DEF Simpler!Key
<1>2. Written(task, n) = w
  BY Zenon DEF Written
<1> HIDE DEF k, res
<1>3. DOMAIN task.out = {1} /\ task.out[1] = nm
  OBVIOUS
<1>4. (CHOOSE i \in {1} : k(task.out[i]) = k(nm)) = 1
  BY <1>3
<1>5. DOMAIN w = {k(nm)}
  BY <1>3
<1>6. w[k(nm)] = res[1]
  BY <1>3, <1>4
<1> HIDE DEF w
<1> QED
  BY <1>1, <1>2, <1>5, <1>6 DEF res

LEMMA WrittenTwo ==
  ASSUME NEW task, NEW nm, NEW mm, task.out = <<nm, mm>>, nm # mm, NEW n
  PROVE  /\ DOMAIN Written(task, n) = {Simpler!Key(nm, n), Simpler!Key(mm, n)}
         /\ Written(task, n)[Simpler!Key(nm, n)] = Outcome(task, n)[1]
         /\ Written(task, n)[Simpler!Key(mm, n)] = Outcome(task, n)[2]
<1> DEFINE res == Outcome(task, n)
           k(x) == Simpler!Key(x, n)
           w == [key \in {k(task.out[i]) : i \in DOMAIN task.out} |->
                   res[CHOOSE i \in DOMAIN task.out : k(task.out[i]) = key]]
<1>1. k(nm) # k(mm)
  BY DEF Simpler!Key
<1>2. Written(task, n) = w
  BY Zenon DEF Written
<1> HIDE DEF k, res
<1>3. DOMAIN task.out = {1, 2} /\ task.out[1] = nm /\ task.out[2] = mm
  OBVIOUS
<1>4. /\ (CHOOSE i \in {1, 2} : k(task.out[i]) = k(nm)) = 1
      /\ (CHOOSE i \in {1, 2} : k(task.out[i]) = k(mm)) = 2
  BY <1>1, <1>3
<1>5. DOMAIN w = {k(nm), k(mm)}
  BY <1>3
<1>6. w[k(nm)] = res[1] /\ w[k(mm)] = res[2]
  BY <1>3, <1>4
<1> HIDE DEF w
<1> QED
  BY <1>2, <1>5, <1>6 DEF res, k

\* The operand of a task that an earlier task or stage has written.
LEMMA OperandIs ==
  ASSUME NEW nm, NEW n, nm # "S", InHeap(nm, Simpler!Rank, n)
  PROVE  Simpler!Operand(Simpler!Key(nm, n)) = heap[<<nm, Simpler!Rank, n>>]
  BY DEF Simpler!Operand, Simpler!Key, InHeap

LEMMA WrittenSilent ==
  ASSUME NEW task, Silent(task), Simpler!Rank \in Ranks, NEW n \in Chunks
  PROVE  Good(Written(task, n))
<1>1. PICK nm : task.out = <<nm>> /\ Plain(nm)
  BY DEF Silent
<1>2. \A key \in DOMAIN Written(task, n) :
        key[1] = nm /\ key[2] = Simpler!Rank /\ (key[3] = n \/ key[3] = 0)
  <2>1. \A key \in DOMAIN Written(task, n) : key = Simpler!Key(nm, n)
    BY <1>1 DEF Written
  <2> QED
    BY <2>1 DEF Simpler!Key
<1> QED
  BY <1>1, <1>2, PlainGood, ChunksAre

LEMMA WrittenCumsum ==
  ASSUME Holding, NEW r \in Ranks, r = Simpler!Rank, NEW n \in Chunks
  PROVE  Good(Written(TaskCumsum, n))
<1> DEFINE x == Operands(TaskCumsum, n)
           y == Simpler!GateCumsum("tril", x[1], Prime - 1)
<1>1. "g" \in Given
  BY DEF Given
<1>2. InHeap("g", r, n)
  BY <1>1 DEF Holding, Present
<1>3. x[1] = heap[<<"g", r, n>>]
  <2>1. TaskCumsum.in = <<"g">>
    BY DEF TaskCumsum
  <2>2. x[1] = Simpler!Operand(Simpler!Key("g", n))
    BY <2>1 DEF Operands
  <2> QED
    BY <1>2, <2>2, OperandIs
<1> HIDE DEF x
<1>4. \A c \in Rows, i \in Keys : x[1][c][i] = input.g[(FirstOf(r) + n) * C + c][i]
  BY <1>1, <1>3, ShardAt
<1>5. IsInput(input) /\ FirstOf(r) + n \in 0..(P * N - 1)
  BY InputTyped, ChunksAre
<1>6. GcsIs(input, FirstOf(r) + n, y)
  BY <1>4, <1>5, GateSums
<1>7. Outcome(TaskCumsum, n) = <<y>>
  BY TaskResults DEF Outcome, x
<1> HIDE DEF y
<1>8. Outcome(TaskCumsum, n)[1] = y
  BY <1>7
<1>9. /\ DOMAIN Written(TaskCumsum, n) = {<<"g_cs", r, n>>}
      /\ Written(TaskCumsum, n)[<<"g_cs", r, n>>] = y
  <2>1. TaskCumsum.out = <<"g_cs">>
    BY DEF TaskCumsum
  <2> QED
    BY <1>8, <2>1, WrittenOne
<1>10. Means("g_cs", r, n, y)
  BY <1>6 DEF Means, Given
<1>11. Together(Written(TaskCumsum, n))
  BY <1>9 DEF Together
<1> QED
  BY <1>9, <1>10, <1>11 DEF Good

\* Its meaning, for a tensor in the heap.
LEMMA Meaning ==
  ASSUME Holding, NEW nm, NEW n, InHeap(nm, Simpler!Rank, n)
  PROVE  Means(nm, Simpler!Rank, n, heap[<<nm, Simpler!Rank, n>>])
  BY Held DEF Holding

LEMMA ShardIs ==
  ASSUME Holding, NEW nm \in Given, NEW r \in Ranks, NEW n \in Chunks
  PROVE  InHeap(nm, r, n) /\ heap[<<nm, r, n>>] = [c \in Rows |-> input[nm][Token(r, n, c)]]
  BY KeepsInputs DEF InputsKept, InHeap

LEMMA WrittenPrepH ==
  ASSUME Holding, NEW r \in Ranks, r = Simpler!Rank, NEW n \in Chunks, InHeap("g_cs", r, n)
  PROVE  Good(Written(TaskPrepH, n))
<1> DEFINE x == Operands(TaskPrepH, n)
           y == Simpler!PrepH(x[1], x[2])
           u == FirstOf(r) + n
<1>1. "k" \in Given
  BY DEF Given
<1>0. InHeap("k", r, n)
  BY <1>1, ShardIs
<1>2. x[1] = heap[<<"g_cs", r, n>>] /\ x[2] = heap[<<"k", r, n>>]
  <2>1. TaskPrepH.in = <<"g_cs", "k">>
    BY DEF TaskPrepH
  <2>2. x[1] = Simpler!Operand(Simpler!Key("g_cs", n)) /\ x[2] = Simpler!Operand(Simpler!Key("k", n))
    BY <2>1 DEF Operands
  <2> QED
    BY <1>0, <2>2, OperandIs
<1> HIDE DEF x
<1>3. GcsIs(input, u, x[1])
  BY <1>2, Meaning DEF Means
<1>4. \A c \in Rows, i \in Keys : x[2][c][i] = input.k[u * C + c][i]
  BY <1>1, <1>2, ShardAt
<1>5. IsInput(input) /\ u \in 0..(P * N - 1)
  BY InputTyped, ChunksAre
<1> HIDE DEF u
<1>6. KRestIs(input, u, y[1]) /\ DecayIs(input, u, y[2])
  BY <1>3, <1>4, <1>5, PrepHIs
<1>7. Outcome(TaskPrepH, n) = y
  BY TaskResults DEF Outcome, x
<1> HIDE DEF y
<1>8. /\ DOMAIN Written(TaskPrepH, n) = {<<"k_rest", r, n>>, <<"decay", r, n>>}
      /\ Written(TaskPrepH, n)[<<"k_rest", r, n>>] = y[1]
      /\ Written(TaskPrepH, n)[<<"decay", r, n>>] = y[2]
  <2>1. TaskPrepH.out = <<"k_rest", "decay">>
    BY DEF TaskPrepH
  <2>2. Simpler!Key("k_rest", n) = <<"k_rest", r, n>> /\ Simpler!Key("decay", n) = <<"decay", r, n>>
    BY DEF Simpler!Key
  <2> QED
    BY <1>7, <2>1, <2>2, WrittenTwo
<1>9. Means("k_rest", r, n, y[1]) /\ Means("decay", r, n, y[2])
  BY <1>6 DEF Means, Given, u
<1>10. Together(Written(TaskPrepH, n))
  BY <1>8 DEF Together
<1> QED
  BY <1>8, <1>9, <1>10 DEF Good

LEMMA WrittenPrepO ==
  ASSUME Holding, NEW r \in Ranks, r = Simpler!Rank, NEW n \in Chunks, InHeap("g_cs", r, n)
  PROVE  Good(Written(TaskPrepO, n))
<1> DEFINE x == Operands(TaskPrepO, n)
           y == Simpler!PrepO(x[1], x[2], x[3])
           u == FirstOf(r) + n
<1>1. "q" \in Given
  BY DEF Given
<1>0. InHeap("q", r, n)
  BY <1>1, ShardIs
<1>2. x[1] = heap[<<"q", r, n>>] /\ x[3] = heap[<<"g_cs", r, n>>]
  <2>1. TaskPrepO.in = <<"q", "k", "g_cs">>
    BY DEF TaskPrepO
  <2>2. x[3] = Simpler!Operand(Simpler!Key("g_cs", n)) /\ x[1] = Simpler!Operand(Simpler!Key("q", n))
    BY <2>1 DEF Operands
  <2> QED
    BY <1>0, <2>2, OperandIs
<1> HIDE DEF x
<1>3. GcsIs(input, u, x[3])
  BY <1>2, Meaning DEF Means
<1>4. \A c \in Rows, i \in Keys : x[1][c][i] = input.q[u * C + c][i]
  BY <1>1, <1>2, ShardAt
<1>5. IsInput(input) /\ u \in 0..(P * N - 1)
  BY InputTyped, ChunksAre
<1> HIDE DEF u
<1>6. QEffIs(input, u, y[1])
  BY <1>3, <1>4, <1>5, PrepOIs
<1>7. Outcome(TaskPrepO, n) = y
  BY TaskResults DEF Outcome, x
<1> HIDE DEF y
<1>8. /\ DOMAIN Written(TaskPrepO, n) = {<<"q_eff", r, n>>, <<"k_eff", r, n>>}
      /\ Written(TaskPrepO, n)[<<"q_eff", r, n>>] = y[1]
  <2>1. TaskPrepO.out = <<"q_eff", "k_eff">>
    BY DEF TaskPrepO
  <2>2. Simpler!Key("q_eff", n) = <<"q_eff", r, n>> /\ Simpler!Key("k_eff", n) = <<"k_eff", r, n>>
    BY DEF Simpler!Key
  <2> QED
    BY <1>7, <2>1, <2>2, WrittenTwo
<1>9. Means("q_eff", r, n, y[1])
  BY <1>6 DEF Means, Given, u
<1>10. \A z : Means("k_eff", r, n, z)
  <2>1. Plain("k_eff")
    BY DEF Plain, Named13, Given
  <2> QED
    BY <2>1, PlainMeans
<1>11. Together(Written(TaskPrepO, n))
  BY <1>8 DEF Together
<1> QED
  BY <1>8, <1>9, <1>10, <1>11 DEF Good

LEMMA WrittenKV ==
  ASSUME Holding, NEW r \in Ranks, r = Simpler!Rank, NEW n \in Chunks, InHeap("k_rest", r, n)
  PROVE  Good(Written(TaskKV, n))
<1> DEFINE x == Operands(TaskKV, n)
           y == Simpler!MatMul("TN", x[1], x[2])
           u == FirstOf(r) + n
<1>1. "v" \in Given
  BY DEF Given
<1>0. InHeap("v", r, n)
  BY <1>1, ShardIs
<1>2. x[1] = heap[<<"k_rest", r, n>>] /\ x[2] = heap[<<"v", r, n>>]
  <2>1. TaskKV.in = <<"k_rest", "v">>
    BY DEF TaskKV
  <2>2. x[1] = Simpler!Operand(Simpler!Key("k_rest", n)) /\ x[2] = Simpler!Operand(Simpler!Key("v", n))
    BY <2>1 DEF Operands
  <2> QED
    BY <1>0, <2>2, OperandIs
<1> HIDE DEF x
<1>3. KRestIs(input, u, x[1])
  BY <1>2, Meaning DEF Means
<1>4. \A c \in Rows, i \in Values : x[2][c][i] = input.v[u * C + c][i]
  BY <1>1, <1>2, ShardAt
<1>5. IsInput(input) /\ u \in 0..(P * N - 1)
  BY InputTyped, ChunksAre
<1>6. DOMAIN x[2][0] = Values
  <2>1. 0 \in Rows
    BY ChunksAre
  <2>0. x[2] = [c \in Rows |-> input["v"][Token(r, n, c)]]
    BY <1>1, <1>2, ShardIs
  <2>2. x[2][0] = input["v"][Token(r, n, 0)]
    BY <2>0, <2>1
  <2>3. input["v"][Token(r, n, 0)] \in [Values -> Int]
    BY <2>1, InputTyped
  <2> QED
    BY <2>2, <2>3
<1> HIDE DEF u
<1>7. KVIs(input, u, y)
  BY <1>3, <1>4, <1>5, <1>6, KeyValueProduct
<1>8. Outcome(TaskKV, n) = <<y>>
  BY TaskResults DEF Outcome, x
<1> HIDE DEF y
<1>9. Outcome(TaskKV, n)[1] = y
  BY <1>8
<1>10. /\ DOMAIN Written(TaskKV, n) = {<<"KV", r, n>>}
       /\ Written(TaskKV, n)[<<"KV", r, n>>] = y
  <2>1. TaskKV.out = <<"KV">>
    BY DEF TaskKV
  <2> QED
    BY <1>9, <2>1, WrittenOne
<1>11. Means("KV", r, n, y)
  BY <1>7 DEF Means, Given, u
<1>12. Together(Written(TaskKV, n))
  BY <1>10 DEF Together
<1> QED
  BY <1>10, <1>11, <1>12 DEF Good

LEMMA WrittenGrad ==
  ASSUME Holding, NEW r \in Ranks, r = Simpler!Rank, NEW n \in Chunks, InHeap("q_eff", r, n)
  PROVE  Good(Written(TaskGrad, n))
<1> DEFINE x == Operands(TaskGrad, n)
           y == Simpler!MatMul("TN", x[1], x[2])
           u == FirstOf(r) + n
<1>1. "dO" \in Given
  BY DEF Given
<1>0. InHeap("dO", r, n)
  BY <1>1, ShardIs
<1>2. x[1] = heap[<<"q_eff", r, n>>] /\ x[2] = heap[<<"dO", r, n>>]
  <2>1. TaskGrad.in = <<"q_eff", "dO">>
    BY DEF TaskGrad
  <2>2. x[1] = Simpler!Operand(Simpler!Key("q_eff", n)) /\ x[2] = Simpler!Operand(Simpler!Key("dO", n))
    BY <2>1 DEF Operands
  <2> QED
    BY <1>0, <2>2, OperandIs
<1> HIDE DEF x
<1>3. QEffIs(input, u, x[1])
  BY <1>2, Meaning DEF Means
<1>4. \A c \in Rows, i \in Values : x[2][c][i] = input.dO[u * C + c][i]
  BY <1>1, <1>2, ShardAt
<1>5. IsInput(input) /\ u \in 0..(P * N - 1)
  BY InputTyped, ChunksAre
<1>6. DOMAIN x[2][0] = Values
  <2>1. 0 \in Rows
    BY ChunksAre
  <2>0. x[2] = [c \in Rows |-> input["dO"][Token(r, n, c)]]
    BY <1>1, <1>2, ShardIs
  <2>2. x[2][0] = input["dO"][Token(r, n, 0)]
    BY <2>0, <2>1
  <2>3. input["dO"][Token(r, n, 0)] \in [Values -> Int]
    BY <2>1, InputTyped
  <2> QED
    BY <2>2, <2>3
<1> HIDE DEF u
<1>7. GradIs(input, u, y)
  BY <1>3, <1>4, <1>5, <1>6, GradProduct
<1>8. Outcome(TaskGrad, n) = <<y>>
  BY TaskResults DEF Outcome, x
<1> HIDE DEF y
<1>9. Outcome(TaskGrad, n)[1] = y
  BY <1>8
<1>10. /\ DOMAIN Written(TaskGrad, n) = {<<"dH", r, n>>}
       /\ Written(TaskGrad, n)[<<"dH", r, n>>] = y
  <2>1. TaskGrad.out = <<"dH">>
    BY DEF TaskGrad
  <2> QED
    BY <1>9, <2>1, WrittenOne
<1>11. Means("dH", r, n, y)
  BY <1>7 DEF Means, Given, u
<1>12. Together(Written(TaskGrad, n))
  BY <1>10 DEF Together
<1> QED
  BY <1>10, <1>11, <1>12 DEF Good

LEMMA WrittenUpdate ==
  ASSUME Holding, NEW r \in Ranks, r = Simpler!Rank, NEW n \in Chunks,
         InHeap("KV", r, n), InHeap("decay", r, n),
         n # 0 => InHeap("S", r, 0) /\ LocalIs(input, r, n, heap[<<"S", r, 0>>])
  PROVE  /\ Good(Written(TaskUpdate, n)) /\ <<"S", r, 0>> \in DOMAIN Written(TaskUpdate, n)
         /\ LocalIs(input, r, n + 1, Written(TaskUpdate, n)[<<"S", r, 0>>])
<1> DEFINE x == Operands(TaskUpdate, n)
           y == Simpler!Update(n = 0, x[1], x[2], x[3])
           u == FirstOf(r) + n
<1>1. /\ x[1] = heap[<<"KV", r, n>>] /\ x[2] = heap[<<"decay", r, n>>]
      /\ n # 0 => x[3] = heap[<<"S", r, 0>>]
  <2>1. TaskUpdate.in = <<"KV", "decay", "S">>
    BY DEF TaskUpdate
  <2>2. /\ x[1] = Simpler!Operand(Simpler!Key("KV", n))
        /\ x[2] = Simpler!Operand(Simpler!Key("decay", n))
        /\ x[3] = Simpler!Operand(Simpler!Key("S", n))
    BY <2>1 DEF Operands
  <2>3. n # 0 => Simpler!Operand(Simpler!Key("S", n)) = heap[<<"S", r, 0>>]
    BY DEF Simpler!Operand, Simpler!Key, InHeap
  <2> QED
    BY <2>2, <2>3, OperandIs
<1> HIDE DEF x
<1>2. KVIs(input, u, x[1]) /\ DecayIs(input, u, x[2])
  <2>1. Means("KV", r, n, heap[<<"KV", r, n>>]) /\ Means("decay", r, n, heap[<<"decay", r, n>>])
    BY Meaning
  <2> QED
    BY <1>1, <2>1 DEF Means
<1>3. IsInput(input)
  BY InputTyped
<1>4. LocalIs(input, r, n + 1, y[1]) /\ LocalIs(input, r, n, y[2])
  <2>1. CASE n = 0
    <3>1. u = FirstOf(r) /\ n + 1 = 1
      BY <2>1, ChunksAre
    <3>2. y = Simpler!Update(TRUE, x[1], x[2], x[3])
      BY <2>1
    <3> HIDE DEF u, y
    <3> QED
      BY <1>2, <1>3, <2>1, <3>1, <3>2, FirstUpdate
  <2>2. CASE n # 0
    <3>1. y = Simpler!Update(FALSE, x[1], x[2], x[3])
      BY <2>2
    <3>2. LocalIs(input, r, n, x[3])
      BY <1>1, <2>2
    <3>3. Moves(input, r, n, x[3], Simpler!Update(FALSE, x[1], x[2], x[3]))
      BY <1>2, <1>3, <3>2, LaterUpdate
    <3> HIDE DEF y
    <3> QED
      BY <3>1, <3>2, <3>3 DEF Moves
  <2> QED
    BY <2>1, <2>2
<1>5. Outcome(TaskUpdate, n) = y
  BY TaskResults DEF Outcome, x
<1> HIDE DEF y
<1>6. /\ DOMAIN Written(TaskUpdate, n) = {<<"S", r, 0>>, <<"s_snap", r, n>>}
      /\ Written(TaskUpdate, n)[<<"S", r, 0>>] = y[1]
      /\ Written(TaskUpdate, n)[<<"s_snap", r, n>>] = y[2]
  <2>1. TaskUpdate.out = <<"S", "s_snap">>
    BY DEF TaskUpdate
  <2>2. Simpler!Key("S", n) = <<"S", r, 0>> /\ Simpler!Key("s_snap", n) = <<"s_snap", r, n>>
    BY DEF Simpler!Key
  <2> QED
    BY <1>5, <2>1, <2>2, WrittenTwo
<1>7. Means("s_snap", r, n, y[2])
  BY <1>4 DEF Means, Given
<1>8. \A z : Means("S", r, 0, z)
  <2>1. Plain("S")
    BY DEF Plain, Named13, Given
  <2> QED
    BY <2>1, PlainMeans
<1>9. Together(Written(TaskUpdate, n))
  BY <1>6 DEF Together
<1>10. Good(Written(TaskUpdate, n))
  <2>1. 0 \in Chunks
    BY ChunksAre
  <2>2. ASSUME NEW key \in DOMAIN Written(TaskUpdate, n)
        PROVE  /\ key[2] \in Ranks /\ key[3] \in Chunks
               /\ Means(key[1], key[2], key[3], Written(TaskUpdate, n)[key])
    <3>1. CASE key = <<"S", r, 0>>
      BY <1>8, <2>1, <3>1
    <3>2. CASE key = <<"s_snap", r, n>>
      BY <1>6, <1>7, <3>2
    <3> QED
      BY <1>6, <3>1, <3>2
  <2> QED
    BY <1>9, <2>2 DEF Good
<1> QED
  BY <1>4, <1>6, <1>10

-----------------------------------------------------------------------------
(* Runs *)

\* The tasks of the run in hand, and what those that are done have written.
RunKept ==
  done # {} =>
    /\ ~Simpler!Ended /\ Simpler!Stage \in Simpler!Runs
    /\ \A t \in done : t \in Simpler!Submitted /\ Simpler!Writes(t) \subseteq DOMAIN heap

\* The updates of a rank are done in the order of its chunks, up to m, and S is
\* what they have accumulated.
UpdatedTo(m) ==
  /\ \A n \in Chunks : <<n, 3>> \in done <=> n < m
  /\ m > 0 => /\ InHeap("S", Simpler!Rank, 0)
              /\ LocalIs(input, Simpler!Rank, m, heap[<<"S", Simpler!Rank, 0>>])

Updating == ~Simpler!Ended /\ Simpler!Stage = "chunk_h" => \E m \in 0..N : UpdatedTo(m)

LEMMA BodyTyped ==
  ASSUME Simpler!Stage \in Simpler!Runs
  PROVE  /\ Len(Simpler!Body) \in Nat \ {0} /\ DOMAIN Simpler!Body = 1..Len(Simpler!Body)
         /\ BodyIs(Simpler!Stage, Simpler!Body)
<1>1. BodyIs(Simpler!Stage, Simpler!Body)
  BY BodyOf DEF Simpler!Body
<1> QED
  BY <1>1 DEF BodyIs

\* A task that is ready finds what earlier tasks write.
LEMMA Produced ==
  ASSUME RunKept, NEW e \in Simpler!Submitted, NEW t \in Simpler!Submitted, Simpler!Ready(t),
         Simpler!Order(e) < Simpler!Order(t), NEW key, key \in Simpler!Writes(e),
         key \in Simpler!Reads(t)
  PROVE  e \in done /\ key \in DOMAIN heap
<1>1. e \in done
  <2>1. Simpler!Writes(e) \cap Simpler!Reads(t) # {}
    OBVIOUS
  <2> QED
    BY <2>1 DEF Simpler!Ready
<1> QED
  BY <1>1 DEF RunKept

LEMMA Fed ==
  ASSUME RunKept, Simpler!Stage \in Simpler!Runs, NEW n \in Chunks,
         NEW x \in DOMAIN Simpler!Body, NEW y \in DOMAIN Simpler!Body, x < y,
         Simpler!Ready(<<n, y>>), NEW nm, nm # "S",
         NEW i \in DOMAIN Simpler!Body[x].out, Simpler!Body[x].out[i] = nm,
         NEW k \in DOMAIN Simpler!Body[y].in, Simpler!Body[y].in[k] = nm
  PROVE  InHeap(nm, Simpler!Rank, n)
<1> DEFINE e == <<n, x>>
           t == <<n, y>>
<1>1. e \in Simpler!Submitted /\ t \in Simpler!Submitted
  BY SameSets DEF Simpler!Submitted
<1>2. Simpler!Order(e) < Simpler!Order(t)
  <2>1. n \in Nat
    BY ChunksAre
  <2>2. x \in Nat /\ y \in Nat /\ Len(Simpler!Body) \in Nat
    BY BodyTyped
  <2>3. PICK z \in Nat : z = n * Len(Simpler!Body)
    BY <2>1, <2>2
  <2> QED
    BY <2>2, <2>3 DEF Simpler!Order
<1>3. Simpler!Key(nm, n) = <<nm, Simpler!Rank, n>>
  BY DEF Simpler!Key
<1>4. Simpler!Key(nm, n) \in Simpler!Writes(e)
  <2>1. e[1] = n /\ e[2] = x
    OBVIOUS
  <2> HIDE DEF e
  <2> QED
    BY <2>1, Zenon DEF Simpler!Writes
<1>5. Simpler!Key(nm, n) \in Simpler!Reads(t)
  <2>1. t[1] = n /\ t[2] = y
    OBVIOUS
  <2> HIDE DEF t
  <2> QED
    BY <2>1, Zenon DEF Simpler!Reads
<1> HIDE DEF e, t
<1>6. Simpler!Key(nm, n) \in DOMAIN heap
  BY <1>1, <1>2, <1>4, <1>5, Produced DEF t
<1> QED
  BY <1>3, <1>6 DEF InHeap

\* The update of a chunk follows that of the chunk before.
LEMMA UpdateFollows ==
  ASSUME RunKept, Simpler!Stage = "chunk_h", NEW n \in Chunks, n # 0, Simpler!Ready(<<n, 3>>)
  PROVE  n - 1 \in Chunks /\ <<n - 1, 3>> \in done
<1> DEFINE e == <<n - 1, 3>>
           t == <<n, 3>>
           b == Simpler!Body
<1>1. b = <<TaskPrepH, TaskKV, TaskUpdate>>
  <2>1. Simpler!Stage \in Simpler!Runs
    BY DEF Simpler!Runs
  <2> QED
    BY <2>1, BodyTyped DEF BodyIs
<1>2. DOMAIN b = 1..3 /\ Len(b) = 3 /\ b[3] = TaskUpdate
  BY <1>1
<1>3. n - 1 \in Chunks /\ n \in Nat
  BY ChunksAre
<1>4. e \in Simpler!Submitted /\ t \in Simpler!Submitted
  BY <1>2, <1>3, SameSets DEF Simpler!Submitted
<1>5. Simpler!Order(e) < Simpler!Order(t)
  BY <1>2, <1>3 DEF Simpler!Order
<1>6. /\ TaskUpdate.out = <<"S", "s_snap">> /\ TaskUpdate.in = <<"KV", "decay", "S">>
      /\ 1 \in DOMAIN TaskUpdate.out /\ TaskUpdate.out[1] = "S"
      /\ 3 \in DOMAIN TaskUpdate.in /\ TaskUpdate.in[3] = "S"
  BY DEF TaskUpdate
<1>7. Simpler!Key("S", n - 1) = Simpler!Key("S", n)
  BY DEF Simpler!Key
<1> HIDE DEF b
<1>8. Simpler!Key("S", n - 1) \in Simpler!Writes(e)
  <2>1. e[1] = n - 1 /\ e[2] = 3
    OBVIOUS
  <2> HIDE DEF e
  <2> QED
    BY <1>2, <1>6, <2>1, Zenon DEF Simpler!Writes, b
<1>9. Simpler!Key("S", n) \in Simpler!Reads(t)
  <2>1. t[1] = n /\ t[2] = 3
    OBVIOUS
  <2> HIDE DEF t
  <2> QED
    BY <1>2, <1>6, <2>1, Zenon DEF Simpler!Reads, b
<1> HIDE DEF e, t
<1>10. e \in done
  BY <1>4, <1>5, <1>7, <1>8, <1>9, Produced DEF t
<1> QED
  BY <1>3, <1>10 DEF e

LEMMA TaskGood ==
  ASSUME Holding, RunKept, ~Simpler!Ended, Simpler!Stage \in Simpler!Runs,
         NEW n \in Chunks, NEW y \in DOMAIN Simpler!Body, Simpler!Ready(<<n, y>>),
         Simpler!Stage = "chunk_h" /\ y = 3 => UpdatedTo(n)
  PROVE  /\ Good(Written(Simpler!Body[y], n))
         /\ Simpler!Stage = "chunk_h" /\ y = 3 =>
              /\ <<"S", Simpler!Rank, 0>> \in DOMAIN Written(Simpler!Body[y], n)
              /\ LocalIs(input, Simpler!Rank, n + 1,
                         Written(Simpler!Body[y], n)[<<"S", Simpler!Rank, 0>>])
         /\ Simpler!Stage = "chunk_h" /\ y # 3 =>
              <<"S", Simpler!Rank, 0>> \notin DOMAIN Written(Simpler!Body[y], n)
<1> DEFINE b == Simpler!Body
           r == Simpler!Rank
<1>1. /\ BodyIs(Simpler!Stage, b) /\ r \in Ranks /\ Where(Simpler!Stage, r)
      /\ Len(b) \in Nat /\ DOMAIN b = 1..Len(b)
  BY BodyTyped, HostPlace
<1>2. P \in Nat /\ r \in Nat /\ r <= P - 1 /\ n \in Nat /\ place \in Nat
  BY <1>1, ChunksAre DEF Holding
<1>3. Simpler!Stage # "gate_cumsum" => InHeap("g_cs", r, n)
  <2>1. Simpler!Stage # "gate_cumsum" => place > 3 * r + 1
    BY <1>1, <1>2 DEF Where, Simpler!Runs
  <2> QED
    BY <1>1, <2>1 DEF Holding, Present
<1> HIDE DEF b
<1>4. CASE Simpler!Stage = "gate_cumsum"
  <2>1. b = <<TaskCumsum>>
    BY <1>1, <1>4 DEF BodyIs
  <2>2. y = 1 /\ b[y] = TaskCumsum
    BY <2>1 DEF b
  <2> QED
    BY <1>1, <1>4, <2>2, WrittenCumsum DEF b
<1>5. CASE Simpler!Stage = "chunk_h"
  <2>1. b = <<TaskPrepH, TaskKV, TaskUpdate>>
    BY <1>1, <1>5 DEF BodyIs
  <2>2. /\ DOMAIN b = {1, 2, 3} /\ b[1] = TaskPrepH /\ b[2] = TaskKV /\ b[3] = TaskUpdate
    BY <2>1
  <2>3. /\ TaskPrepH.out = <<"k_rest", "decay">> /\ TaskKV.out = <<"KV">>
        /\ TaskKV.in = <<"k_rest", "v">> /\ TaskUpdate.in = <<"KV", "decay", "S">>
    BY DEF TaskPrepH, TaskKV, TaskUpdate
  <2>4. CASE y = 1
    <3>1. Good(Written(TaskPrepH, n))
      BY <1>1, <1>3, <1>5, WrittenPrepH
    <3>2. <<"S", r, 0>> \notin DOMAIN Written(TaskPrepH, n)
      <4>1. DOMAIN Written(TaskPrepH, n) = {Simpler!Key("k_rest", n), Simpler!Key("decay", n)}
        BY <2>3, WrittenTwo
      <4> QED
        BY <4>1 DEF Simpler!Key
    <3> QED
      BY <2>2, <2>4, <3>1, <3>2 DEF b
  <2>5. CASE y = 2
    <3>1. InHeap("k_rest", r, n)
      <4>1. 1 \in DOMAIN Simpler!Body /\ 1 < y
        BY <2>2, <2>5 DEF b
      <4>2. 1 \in DOMAIN Simpler!Body[1].out /\ Simpler!Body[1].out[1] = "k_rest"
        BY <2>2, <2>3 DEF b
      <4>3. 1 \in DOMAIN Simpler!Body[y].in /\ Simpler!Body[y].in[1] = "k_rest"
        BY <2>2, <2>3, <2>5 DEF b
      <4> QED
        BY <4>1, <4>2, <4>3, Fed
    <3>2. Good(Written(TaskKV, n))
      BY <1>1, <3>1, WrittenKV
    <3>3. <<"S", r, 0>> \notin DOMAIN Written(TaskKV, n)
      <4>1. DOMAIN Written(TaskKV, n) = {<<"KV", r, n>>}
        BY <2>3, WrittenOne
      <4> QED
        BY <4>1
    <3> QED
      BY <2>2, <2>5, <3>2, <3>3 DEF b
  <2>6. CASE y = 3
    <3>1. InHeap("KV", r, n)
      <4>1. 2 \in DOMAIN Simpler!Body /\ 2 < y
        BY <2>2, <2>6 DEF b
      <4>2. 1 \in DOMAIN Simpler!Body[2].out /\ Simpler!Body[2].out[1] = "KV"
        BY <2>2, <2>3 DEF b
      <4>3. 1 \in DOMAIN Simpler!Body[y].in /\ Simpler!Body[y].in[1] = "KV"
        BY <2>2, <2>3, <2>6 DEF b
      <4> QED
        BY <4>1, <4>2, <4>3, Fed
    <3>2. InHeap("decay", r, n)
      <4>1. 1 \in DOMAIN Simpler!Body /\ 1 < y
        BY <2>2, <2>6 DEF b
      <4>2. 2 \in DOMAIN Simpler!Body[1].out /\ Simpler!Body[1].out[2] = "decay"
        BY <2>2, <2>3 DEF b
      <4>3. 2 \in DOMAIN Simpler!Body[y].in /\ Simpler!Body[y].in[2] = "decay"
        BY <2>2, <2>3, <2>6 DEF b
      <4> QED
        BY <4>1, <4>2, <4>3, Fed
    <3>3. n # 0 => InHeap("S", r, 0) /\ LocalIs(input, r, n, heap[<<"S", r, 0>>])
      BY <1>2, <1>5, <2>6 DEF UpdatedTo
    <3>4. /\ Good(Written(TaskUpdate, n)) /\ <<"S", r, 0>> \in DOMAIN Written(TaskUpdate, n)
          /\ LocalIs(input, r, n + 1, Written(TaskUpdate, n)[<<"S", r, 0>>])
      BY <1>1, <3>1, <3>2, <3>3, WrittenUpdate
    <3> QED
      BY <2>2, <2>6, <3>4 DEF b
  <2> QED
    BY <2>2, <2>4, <2>5, <2>6 DEF b
<1>6. CASE Simpler!Stage = "chunk_o"
  <2>1. /\ DOMAIN b = 1..6 /\ b[1] = TaskPrepO /\ \A x \in 2..6 : Silent(b[x])
    BY <1>1, <1>6 DEF BodyIs
  <2>2. CASE y = 1
    BY <1>1, <1>3, <1>6, <2>1, <2>2, WrittenPrepO DEF b
  <2>3. CASE y # 1
    <3>1. Silent(b[y])
      BY <2>1, <2>3 DEF b
    <3> QED
      BY <1>1, <1>6, <3>1, WrittenSilent DEF b
  <2> QED
    BY <2>2, <2>3
<1>7. CASE Simpler!Stage = "grad_o"
  <2>1. /\ DOMAIN b = 1..11 /\ b[1] = TaskPrepO /\ b[4] = TaskGrad
        /\ \A x \in 2..11 : x # 4 => Silent(b[x])
    BY <1>1, <1>7 DEF BodyIs
  <2>2. CASE y = 1
    BY <1>1, <1>3, <1>7, <2>1, <2>2, WrittenPrepO DEF b
  <2>3. CASE y = 4
    <3>1. TaskPrepO.out = <<"q_eff", "k_eff">> /\ TaskGrad.in = <<"q_eff", "dO">>
      BY DEF TaskPrepO, TaskGrad
    <3>2. InHeap("q_eff", r, n)
      <4>1. 1 \in DOMAIN Simpler!Body /\ 1 < y
        BY <2>1, <2>3 DEF b
      <4>2. 1 \in DOMAIN Simpler!Body[1].out /\ Simpler!Body[1].out[1] = "q_eff"
        BY <2>1, <3>1 DEF b
      <4>3. 1 \in DOMAIN Simpler!Body[y].in /\ Simpler!Body[y].in[1] = "q_eff"
        BY <2>1, <2>3, <3>1 DEF b
      <4> QED
        BY <4>1, <4>2, <4>3, Fed
    <3> QED
      BY <1>1, <1>7, <2>1, <2>3, <3>2, WrittenGrad DEF b
  <2>4. CASE y # 1 /\ y # 4
    <3>1. Silent(b[y])
      BY <2>1, <2>4 DEF b
    <3> QED
      BY <1>1, <1>7, <3>1, WrittenSilent DEF b
  <2> QED
    BY <2>2, <2>3, <2>4
<1>8. CASE Simpler!Stage = "grad_h"
  <2>1. /\ DOMAIN b = 1..3 /\ b[1] = TaskPrepH /\ \A x \in 2..3 : Silent(b[x])
    BY <1>1, <1>8 DEF BodyIs
  <2>2. CASE y = 1
    BY <1>1, <1>3, <1>8, <2>1, <2>2, WrittenPrepH DEF b
  <2>3. CASE y # 1
    <3>1. Silent(b[y])
      BY <2>1, <2>3 DEF b
    <3> QED
      BY <1>1, <1>8, <3>1, WrittenSilent DEF b
  <2> QED
    BY <2>2, <2>3
<1>9. CASE Simpler!Stage = "reverse_cumsum"
  <2>1. DOMAIN b = 1..1 /\ Silent(b[1])
    BY <1>1, <1>9 DEF BodyIs
  <2>2. Silent(b[y])
    BY <2>1 DEF b
  <2> QED
    BY <1>1, <1>9, <2>2, WrittenSilent DEF b
<1> QED
  BY <1>4, <1>5, <1>6, <1>7, <1>8, <1>9 DEF Simpler!Runs

-----------------------------------------------------------------------------
(* The invariant of a call of the simpler backend *)

SimplerInv == Holding /\ RunKept /\ Updating

LEMMA GoodNext ==
  ASSUME input' = input, NEW x, heap' = x, Good(x)
  PROVE  Good(heap)'
  BY DEF Good, Together, Means

LEMMA StagesKept ==
  ASSUME UNCHANGED <<op, place>>
  PROVE  /\ Simpler!Ended' <=> Simpler!Ended
         /\ Simpler!Stage' = Simpler!Stage /\ Simpler!Rank' = Simpler!Rank
         /\ Simpler!Body' = Simpler!Body /\ Simpler!Submitted' = Simpler!Submitted
         /\ \A t : Simpler!Writes(t)' = Simpler!Writes(t)
<1>1. Simpler!Stage' = Simpler!Stage /\ Simpler!Rank' = Simpler!Rank
  BY DEF Simpler!Stage, Simpler!Rank
<1>2. Simpler!Ended' <=> Simpler!Ended
  BY DEF Simpler!Ended
<1>3. Simpler!Body' = Simpler!Body
  BY <1>1 DEF Simpler!Body
<1>4. Simpler!Submitted' = Simpler!Submitted
  BY <1>3 DEF Simpler!Submitted
<1>5. ASSUME NEW t PROVE Simpler!Writes(t)' = Simpler!Writes(t)
  <2>1. \A nm, n : Simpler!Key(nm, n)' = Simpler!Key(nm, n)
    BY <1>1 DEF Simpler!Key
  <2> QED
    BY <1>3, <2>1 DEF Simpler!Writes
<1> QED
  BY <1>1, <1>2, <1>3, <1>4, <1>5

LEMMA PresentKept ==
  ASSUME Present, UNCHANGED <<op, place>>, DOMAIN heap \subseteq DOMAIN heap'
  PROVE  Present'
<1>1. \A nm, r, n : InHeap(nm, r, n) => InHeap(nm, r, n)'
  BY DEF InHeap
<1> QED
  BY <1>1 DEF Present

LEMMA RunTaskKeeps ==
  ASSUME SimplerInv, ~Simpler!Ended, Simpler!Stage \in Simpler!Runs,
         NEW t \in Simpler!Submitted, Simpler!RunTask(t)
  PROVE  SimplerInv'
<1>1. PICK n \in Chunks, y \in DOMAIN Simpler!Body : t = <<n, y>>
  BY SameSets DEF Simpler!Submitted
<1>2. t[1] = n /\ t[2] = y
  BY <1>1
<1> DEFINE w == Written(Simpler!Body[y], n)
           stage == Simpler!Stage
           key == <<"S", Simpler!Rank, 0>>
<1>3. /\ t \notin done /\ Simpler!Ready(<<n, y>>) /\ done' = done \cup {t}
      /\ heap' = Over(w, heap) /\ UNCHANGED <<input, op, place>>
  BY <1>1, <1>2, TaskStep
<1>4. Holding /\ RunKept /\ Updating
  BY DEF SimplerInv
<1>5. ASSUME stage = "chunk_h", y = 3
      PROVE  n < N /\ UpdatedTo(n)
  <2>1. PICK m \in 0..N : UpdatedTo(m)
    BY <1>4, <1>5 DEF Updating
  <2>2. ~(n < m)
    BY <1>1, <1>3, <1>5, <2>1 DEF UpdatedTo
  <2>3. n # 0 => n - 1 < m
    BY <1>3, <1>4, <1>5, <2>1, UpdateFollows DEF UpdatedTo
  <2>4. n \in Nat /\ m \in Nat /\ n < N /\ N \in Nat
    BY <2>1, ChunksAre
  <2>5. m = n
    BY <2>2, <2>3, <2>4
  <2> QED
    BY <2>1, <2>4, <2>5
<1>6. /\ Good(w)
      /\ stage = "chunk_h" /\ y = 3 =>
           key \in DOMAIN w /\ LocalIs(input, Simpler!Rank, n + 1, w[key])
      /\ stage = "chunk_h" /\ y # 3 => key \notin DOMAIN w
  BY <1>3, <1>4, <1>5, TaskGood
<1>7. /\ DOMAIN heap' = DOMAIN w \cup DOMAIN heap
      /\ \A x \in DOMAIN w : heap'[x] = w[x]
      /\ \A x \in DOMAIN heap \ DOMAIN w : heap'[x] = heap[x]
  <2> HIDE DEF w
  <2>1. /\ DOMAIN Over(w, heap) = DOMAIN w \cup DOMAIN heap
        /\ \A x \in DOMAIN w : Over(w, heap)[x] = w[x]
        /\ \A x \in DOMAIN heap \ DOMAIN w : Over(w, heap)[x] = heap[x]
    BY OverAt
  <2> QED
    BY <1>3, <2>1
<1>8. DOMAIN w = Simpler!Writes(t)
  BY <1>2 DEF Written, Simpler!Writes
<1> HIDE DEF w
<1>9. Holding'
  <2>1. Good(heap)'
    <3>1. Good(Over(w, heap))
      BY <1>4, <1>6, GoodOver DEF Holding
    <3> QED
      BY <1>3, <3>1, GoodNext
  <2>2. Present'
    BY <1>3, <1>4, <1>7, PresentKept DEF Holding
  <2> QED
    BY <1>3, <1>4, <2>1, <2>2 DEF Holding
<1>10. RunKept'
  <2>1. \A e \in done : e \in Simpler!Submitted /\ Simpler!Writes(e) \subseteq DOMAIN heap
    BY <1>4 DEF RunKept
  <2>2. \A e \in done' : e \in Simpler!Submitted /\ Simpler!Writes(e) \subseteq DOMAIN heap'
    BY <1>3, <1>7, <1>8, <2>1
  <2>3. ~Simpler!Ended' /\ Simpler!Stage' \in Simpler!Runs'
    BY <1>3, StagesKept DEF Simpler!Runs
  <2>4. \A e \in done' : e \in Simpler!Submitted' /\ Simpler!Writes(e)' \subseteq DOMAIN heap'
    BY <1>3, <2>2, StagesKept
  <2> QED
    BY <2>3, <2>4 DEF RunKept
<1>11. Updating'
  <2> SUFFICES ASSUME stage = "chunk_h" PROVE (\E m \in 0..N : UpdatedTo(m))'
    BY <1>3, StagesKept DEF Updating
  <2>1. Simpler!Rank' = Simpler!Rank /\ input' = input
    BY <1>3, StagesKept
  <2>2. CASE y = 3
    <3>1. n < N /\ UpdatedTo(n) /\ n \in Nat /\ N \in Nat
      BY <1>5, <2>2, ChunksAre
    <3>2. \A x \in Chunks : <<x, 3>> \in done' <=> x < n + 1
      <4> TAKE x \in Chunks
      <4>1. <<x, 3>> \in done' <=> <<x, 3>> \in done \/ x = n
        BY <1>1, <1>3, <2>2
      <4>2. x \in Nat
        BY ChunksAre
      <4> QED
        BY <3>1, <4>1, <4>2 DEF UpdatedTo
    <3>3. key \in DOMAIN heap' /\ LocalIs(input, Simpler!Rank, n + 1, heap'[key])
      BY <1>6, <1>7, <2>2
    <3>4. UpdatedTo(n + 1)'
      BY <2>1, <3>2, <3>3 DEF UpdatedTo, InHeap
    <3>5. n + 1 \in 0..N
      BY <3>1
    <3> QED
      BY <3>4, <3>5
  <2>3. CASE y # 3
    <3>1. PICK m \in 0..N : UpdatedTo(m)
      BY <1>4 DEF Updating
    <3>2. \A x \in Chunks : <<x, 3>> \in done' <=> x < m
      <4> TAKE x \in Chunks
      <4>1. <<x, 3>> \in done' <=> <<x, 3>> \in done
        BY <1>1, <1>3, <2>3
      <4> QED
        BY <3>1, <4>1 DEF UpdatedTo
    <3>3. m > 0 => key \in DOMAIN heap' /\ LocalIs(input, Simpler!Rank, m, heap'[key])
      BY <1>6, <1>7, <2>3, <3>1 DEF UpdatedTo, InHeap
    <3>4. UpdatedTo(m)'
      BY <2>1, <3>2, <3>3 DEF UpdatedTo, InHeap
    <3> QED
      BY <3>4
  <2> QED
    BY <2>2, <2>3
<1> QED
  BY <1>9, <1>10, <1>11 DEF SimplerInv

\* Where the stages that produce what later ones need stand in the script.
LEMMA WhoseTurn ==
  ASSUME NEW s, NEW q \in Ranks, Where(s, q), NEW r \in Ranks, place \in Nat,
         op \in {"forward", "backward"}
  PROVE  /\ place = 3 * r + 1 => s = "gate_cumsum" /\ q = r
         /\ place = 3 * r + 2 => s = "chunk_h" /\ q = r
         /\ place = 3 * r + 3 => s = "S_total" /\ q = r
         /\ place = 3 * P + 1 => s = "boundary"
         /\ op = "backward" /\ place = 3 * P + 3 * r + 3 => s = "grad_o" /\ q = r
         /\ op = "backward" /\ place = 3 * P + 3 * r + 4 => s = "gate_o" /\ q = r
<1>1. P \in Nat /\ q \in Nat /\ q <= P - 1 /\ r \in Nat /\ r <= P - 1
  BY ChunksAre
<1>2. op = "forward" => op # "backward"
  OBVIOUS
<1> QED
  BY <1>1, <1>2 DEF Where

\* Tensors that stay where they are once they are there.
Lasting == Given \cup {"g_cs", "s_snap", "S_total", "S_recv", "dH", "dS_recv"}

LEMMA PresentNext ==
  ASSUME Holding, ~Simpler!Ended, op' = op, place' = place + 1,
         \A nm \in Lasting, r \in Ranks, n \in Chunks : InHeap(nm, r, n) => InHeap(nm, r, n)',
         \A r \in Ranks, n \in Chunks :
           /\ r = Simpler!Rank =>
                /\ Simpler!Stage = "gate_cumsum" => InHeap("g_cs", r, n)'
                /\ Simpler!Stage = "chunk_h" => InHeap("s_snap", r, n)'
                /\ Simpler!Stage = "S_total" => InHeap("S_total", r, 0)'
                /\ Simpler!Stage = "grad_o" => InHeap("dH", r, n)'
                /\ Simpler!Stage = "gate_o" => InHeap("dS_recv", r, 0)'
           /\ Simpler!Stage = "boundary" => InHeap("S_recv", r, 0)'
  PROVE  Present'
<1> SUFFICES ASSUME NEW r \in Ranks, NEW n \in Chunks
             PROVE  /\ \A nm \in Given : InHeap(nm, r, n)'
                    /\ place + 1 > 3 * r + 1 => InHeap("g_cs", r, n)'
                    /\ place + 1 > 3 * r + 2 => InHeap("s_snap", r, n)'
                    /\ place + 1 > 3 * r + 3 => InHeap("S_total", r, 0)'
                    /\ place + 1 > 3 * P + 1 => InHeap("S_recv", r, 0)'
                    /\ op = "backward" /\ place + 1 > 3 * P + 3 * r + 3 => InHeap("dH", r, n)'
                    /\ op = "backward" /\ place + 1 > 3 * P + 3 * r + 4 => InHeap("dS_recv", r, 0)'
  BY DEF Present
<1>1. /\ P \in Nat /\ r \in Nat /\ place \in Nat /\ 0 \in Chunks
      /\ op \in {"forward", "backward"}
  BY ChunksAre, InputTyped DEF Holding
<1>2. /\ Simpler!Rank \in Ranks /\ Where(Simpler!Stage, Simpler!Rank)
  BY HostPlace
<1>3. /\ place = 3 * r + 1 => Simpler!Stage = "gate_cumsum" /\ Simpler!Rank = r
      /\ place = 3 * r + 2 => Simpler!Stage = "chunk_h" /\ Simpler!Rank = r
      /\ place = 3 * r + 3 => Simpler!Stage = "S_total" /\ Simpler!Rank = r
      /\ place = 3 * P + 1 => Simpler!Stage = "boundary"
      /\ op = "backward" /\ place = 3 * P + 3 * r + 3 =>
           Simpler!Stage = "grad_o" /\ Simpler!Rank = r
      /\ op = "backward" /\ place = 3 * P + 3 * r + 4 =>
           Simpler!Stage = "gate_o" /\ Simpler!Rank = r
  BY <1>1, <1>2, WhoseTurn
<1>4. /\ \A nm \in Given : InHeap(nm, r, n)
      /\ place > 3 * r + 1 => InHeap("g_cs", r, n)
      /\ place > 3 * r + 2 => InHeap("s_snap", r, n)
      /\ place > 3 * r + 3 => InHeap("S_total", r, 0)
      /\ place > 3 * P + 1 => InHeap("S_recv", r, 0)
      /\ op = "backward" /\ place > 3 * P + 3 * r + 3 => InHeap("dH", r, n)
      /\ op = "backward" /\ place > 3 * P + 3 * r + 4 => InHeap("dS_recv", r, 0)
  BY DEF Holding, Present
<1>5. /\ \A nm \in Given : InHeap(nm, r, n)'
      /\ InHeap("g_cs", r, n) => InHeap("g_cs", r, n)'
      /\ InHeap("s_snap", r, n) => InHeap("s_snap", r, n)'
      /\ InHeap("S_total", r, 0) => InHeap("S_total", r, 0)'
      /\ InHeap("S_recv", r, 0) => InHeap("S_recv", r, 0)'
      /\ InHeap("dH", r, n) => InHeap("dH", r, n)'
      /\ InHeap("dS_recv", r, 0) => InHeap("dS_recv", r, 0)'
  BY <1>1, <1>4 DEF Lasting
<1> QED
  BY <1>1, <1>3, <1>4, <1>5

LEMMA NothingDone ==
  ASSUME done' = {}
  PROVE  RunKept' /\ Updating'
<1>1. RunKept'
  BY DEF RunKept
<1>2. UpdatedTo(0)'
  BY ChunksAre DEF UpdatedTo
<1>3. 0 \in 0..N
  BY ChunksAre
<1> QED
  BY <1>1, <1>2, <1>3 DEF Updating

\* A finished run has written what its tasks write.
LEMMA Wrote ==
  ASSUME RunKept, Simpler!Stage \in Simpler!Runs, done = Simpler!Submitted, NEW n \in Chunks,
         NEW x \in DOMAIN Simpler!Body, NEW nm, nm # "S",
         NEW i \in DOMAIN Simpler!Body[x].out, Simpler!Body[x].out[i] = nm
  PROVE  InHeap(nm, Simpler!Rank, n)
<1> DEFINE e == <<n, x>>
<1>1. e \in Simpler!Submitted
  BY SameSets DEF Simpler!Submitted
<1>2. Simpler!Key(nm, n) = <<nm, Simpler!Rank, n>>
  BY DEF Simpler!Key
<1>3. Simpler!Key(nm, n) \in Simpler!Writes(e)
  <2>1. e[1] = n /\ e[2] = x
    OBVIOUS
  <2> HIDE DEF e
  <2> QED
    BY <2>1, Zenon DEF Simpler!Writes
<1> HIDE DEF e
<1>4. Simpler!Writes(e) \subseteq DOMAIN heap
  BY <1>1 DEF RunKept
<1> QED
  BY <1>2, <1>3, <1>4 DEF InHeap

LEMMA RunOutputs ==
  ASSUME RunKept, Simpler!Stage \in Simpler!Runs, done = Simpler!Submitted, NEW n \in Chunks
  PROVE  /\ Simpler!Stage = "gate_cumsum" => InHeap("g_cs", Simpler!Rank, n)
         /\ Simpler!Stage = "chunk_h" => InHeap("s_snap", Simpler!Rank, n)
         /\ Simpler!Stage = "grad_o" => InHeap("dH", Simpler!Rank, n)
<1> DEFINE b == Simpler!Body
<1>1. BodyIs(Simpler!Stage, b)
  BY BodyTyped
<1>2. /\ TaskCumsum.out = <<"g_cs">> /\ TaskUpdate.out = <<"S", "s_snap">>
      /\ TaskGrad.out = <<"dH">>
  BY DEF TaskCumsum, TaskUpdate, TaskGrad
<1> HIDE DEF b
<1>3. ASSUME Simpler!Stage = "gate_cumsum" PROVE InHeap("g_cs", Simpler!Rank, n)
  <2>1. b = <<TaskCumsum>>
    BY <1>1, <1>3 DEF BodyIs
  <2>2. 1 \in DOMAIN b /\ 1 \in DOMAIN b[1].out /\ b[1].out[1] = "g_cs"
    BY <1>2, <2>1
  <2> QED
    BY <2>2, Wrote DEF b
<1>4. ASSUME Simpler!Stage = "chunk_h" PROVE InHeap("s_snap", Simpler!Rank, n)
  <2>1. b = <<TaskPrepH, TaskKV, TaskUpdate>>
    BY <1>1, <1>4 DEF BodyIs
  <2>2. 3 \in DOMAIN b /\ 2 \in DOMAIN b[3].out /\ b[3].out[2] = "s_snap"
    BY <1>2, <2>1
  <2> QED
    BY <2>2, Wrote DEF b
<1>5. ASSUME Simpler!Stage = "grad_o" PROVE InHeap("dH", Simpler!Rank, n)
  <2>1. DOMAIN b = 1..11 /\ b[4] = TaskGrad
    BY <1>1, <1>5 DEF BodyIs
  <2>2. 4 \in DOMAIN b /\ 1 \in DOMAIN b[4].out /\ b[4].out[1] = "dH"
    BY <1>2, <2>1
  <2> QED
    BY <2>2, Wrote DEF b
<1> QED
  BY <1>3, <1>4, <1>5

LEMMA EndRunKeeps ==
  ASSUME SimplerInv, ~Simpler!Ended, Simpler!Stage \in Simpler!Runs, Simpler!EndRun
  PROVE  SimplerInv'
<1> DEFINE S == {x \in DOMAIN heap : x[1] \notin Simpler!Temporaries}
           h == [key \in S |-> heap[key]]
<1>1. /\ done = Simpler!Submitted /\ done' = {} /\ place' = place + 1 /\ heap' = h
      /\ UNCHANGED <<input, op>>
  BY DEF Simpler!EndRun
<1>2. Holding /\ RunKept
  BY DEF SimplerInv
<1>3. \A nm \in Lasting \cup {"snap"} : nm \notin Simpler!Temporaries
  BY DEF Lasting, Given, Simpler!Temporaries
<1>4. /\ DOMAIN h = S /\ S \subseteq DOMAIN heap /\ \A key \in S : h[key] = heap[key]
  OBVIOUS
<1>5. \A nm \in Lasting \cup {"snap"} : \A r, n :
        <<nm, r, n>> \in DOMAIN heap => <<nm, r, n>> \in DOMAIN h
  BY <1>3
<1> HIDE DEF h, S
<1>6. Good(h)
  <2>1. Good(heap)
    BY <1>2 DEF Holding
  <2>2. Together(h)
    BY <1>4, <1>5, <2>1 DEF Good, Together
  <2> QED
    BY <1>4, <2>1, <2>2 DEF Good
<1>7. Good(heap)'
  BY <1>1, <1>6, GoodNext
<1>8. \A nm \in Lasting, r \in Ranks, n \in Chunks : InHeap(nm, r, n) => InHeap(nm, r, n)'
  BY <1>1, <1>5 DEF InHeap
<1>9. ASSUME NEW r \in Ranks, r = Simpler!Rank, NEW n \in Chunks
      PROVE  /\ Simpler!Stage = "gate_cumsum" => InHeap("g_cs", r, n)'
             /\ Simpler!Stage = "chunk_h" => InHeap("s_snap", r, n)'
             /\ Simpler!Stage = "grad_o" => InHeap("dH", r, n)'
  <2>1. "g_cs" \in Lasting /\ "s_snap" \in Lasting /\ "dH" \in Lasting
    BY DEF Lasting
  <2>2. /\ Simpler!Stage = "gate_cumsum" => InHeap("g_cs", r, n)
        /\ Simpler!Stage = "chunk_h" => InHeap("s_snap", r, n)
        /\ Simpler!Stage = "grad_o" => InHeap("dH", r, n)
    BY <1>1, <1>2, <1>9, RunOutputs
  <2> QED
    BY <1>8, <2>1, <2>2
<1>10. /\ Simpler!Stage # "S_total" /\ Simpler!Stage # "boundary" /\ Simpler!Stage # "gate_o"
  BY DEF Simpler!Runs
<1>11. Present'
  BY <1>1, <1>2, <1>8, <1>9, <1>10, PresentNext
<1>12. Holding'
  BY <1>1, <1>2, <1>7, <1>11 DEF Holding
<1> QED
  BY <1>1, <1>12, NothingDone DEF SimplerInv

LEMMA HostKeeps ==
  ASSUME SimplerInv, NEW stage, stage \notin Simpler!Runs, NEW t, HostStep(stage, t), Good(t),
         stage = "S_total" => <<"S_total", Simpler!Rank, 0>> \in DOMAIN t,
         stage = "boundary" => \A r \in Ranks : <<"S_recv", r, 0>> \in DOMAIN t,
         stage = "gate_o" => <<"dS_recv", Simpler!Rank, 0>> \in DOMAIN t
  PROVE  SimplerInv'
<1>1. /\ ~Simpler!Ended /\ Simpler!Stage = stage
      /\ heap' = Over(t, heap) /\ place' = place + 1 /\ UNCHANGED <<input, op, done>>
  BY DEF HostStep
<1>2. Holding /\ RunKept
  BY DEF SimplerInv
<1>3. done' = {}
  BY <1>1, <1>2 DEF RunKept
<1>4. DOMAIN heap' = DOMAIN t \cup DOMAIN heap
  <2>1. DOMAIN Over(t, heap) = DOMAIN t \cup DOMAIN heap
    BY OverAt
  <2> QED
    BY <1>1, <2>1
<1>5. Good(heap)'
  <2>1. Good(Over(t, heap))
    BY <1>2, GoodOver DEF Holding
  <2> QED
    BY <1>1, <2>1, GoodNext
<1>6. \A nm \in Lasting, r \in Ranks, n \in Chunks : InHeap(nm, r, n) => InHeap(nm, r, n)'
  BY <1>4 DEF InHeap
<1>7. ASSUME NEW r \in Ranks, NEW n \in Chunks
      PROVE  /\ r = Simpler!Rank =>
                  /\ Simpler!Stage = "gate_cumsum" => InHeap("g_cs", r, n)'
                  /\ Simpler!Stage = "chunk_h" => InHeap("s_snap", r, n)'
                  /\ Simpler!Stage = "S_total" => InHeap("S_total", r, 0)'
                  /\ Simpler!Stage = "grad_o" => InHeap("dH", r, n)'
                  /\ Simpler!Stage = "gate_o" => InHeap("dS_recv", r, 0)'
             /\ Simpler!Stage = "boundary" => InHeap("S_recv", r, 0)'
  <2>1. stage # "gate_cumsum" /\ stage # "chunk_h" /\ stage # "grad_o"
    BY DEF Simpler!Runs
  <2>2. /\ r = Simpler!Rank => (stage = "S_total" => <<"S_total", r, 0>> \in DOMAIN heap')
        /\ r = Simpler!Rank => (stage = "gate_o" => <<"dS_recv", r, 0>> \in DOMAIN heap')
        /\ stage = "boundary" => <<"S_recv", r, 0>> \in DOMAIN heap'
    BY <1>4
  <2> QED
    BY <1>1, <2>1, <2>2 DEF InHeap
<1>8. Present'
  BY <1>1, <1>2, <1>6, <1>7, PresentNext
<1>9. Holding'
  BY <1>1, <1>2, <1>5, <1>8 DEF Holding
<1> QED
  BY <1>3, <1>9, NothingDone DEF SimplerInv

LEMMA OnHostKeeps ==
  ASSUME SimplerInv, Simpler!OnHost
  PROVE  SimplerInv'
<1>0. Holding
  BY DEF SimplerInv
<1>1. /\ "S_total" \notin Simpler!Runs /\ "boundary" \notin Simpler!Runs
      /\ "shift_snaps" \notin Simpler!Runs /\ "gate_o" \notin Simpler!Runs
      /\ "boundary_backward" \notin Simpler!Runs /\ "recurrence" \notin Simpler!Runs
      /\ "gate_h" \notin Simpler!Runs /\ "gate_grad" \notin Simpler!Runs
  BY DEF Simpler!Runs
<1>2. CASE Simpler!STotal
  <2>1. PICK t : /\ HostStep("S_total", t) /\ Good(t)
                 /\ <<"S_total", Simpler!Rank, 0>> \in DOMAIN t
    BY <1>0, <1>2, STotalStep
  <2> QED
    BY <1>1, <2>1, HostKeeps
<1>3. CASE Simpler!Boundary
  <2>1. PICK t : /\ HostStep("boundary", t) /\ Good(t)
                 /\ \A p \in Ranks : <<"S_recv", p, 0>> \in DOMAIN t
    BY <1>0, <1>3, BoundaryStep
  <2> QED
    BY <1>1, <2>1, HostKeeps
<1>4. CASE Simpler!ShiftSnaps
  <2>1. PICK t : HostStep("shift_snaps", t) /\ Good(t)
    BY <1>0, <1>4, ShiftStep
  <2> QED
    BY <1>1, <2>1, HostKeeps
<1>5. CASE Simpler!GateO
  <2>1. PICK t : /\ HostStep("gate_o", t) /\ Good(t)
                 /\ <<"dS_recv", Simpler!Rank, 0>> \in DOMAIN t
    BY <1>0, <1>5, GateOStep
  <2> QED
    BY <1>1, <2>1, HostKeeps
<1>6. CASE Simpler!BoundaryBackward
  <2>1. PICK t : HostStep("boundary_backward", t) /\ Good(t)
    BY <1>0, <1>6, BoundaryBackwardStep
  <2> QED
    BY <1>1, <2>1, HostKeeps
<1>7. CASE Simpler!Recurrence \/ Simpler!GateH \/ Simpler!GateGrad
  <2>1. PICK t : /\ HostStep(Simpler!Stage, t) /\ Good(t)
                 /\ Simpler!Stage \in {"recurrence", "gate_h", "gate_grad"}
    BY <1>0, <1>7, GradGlueStep
  <2>2. PICK stage : stage = Simpler!Stage /\ stage \in {"recurrence", "gate_h", "gate_grad"}
    BY <2>1
  <2>3. stage # "S_total" /\ stage # "boundary" /\ stage # "gate_o" /\ stage \notin Simpler!Runs
    BY <1>1, <2>2
  <2>4. HostStep(stage, t)
    BY <2>1, <2>2
  <2> QED
    BY <2>1, <2>3, <2>4, HostKeeps
<1> QED
  BY <1>2, <1>3, <1>4, <1>5, <1>6, <1>7 DEF Simpler!OnHost

LEMMA SimplerInit ==
  ASSUME Simpler!Init
  PROVE  SimplerInv
<1>1. input \in Inputs /\ op \in Ops /\ place = 1 /\ done = {} /\ heap = Simpler!Shard(input)
  BY DEF Simpler!Init
<1>2. Simpler!Shard(input) =
        [key \in Given \X Ranks \X Chunks |->
           [c \in Rows |-> input[key[1]][Token(key[2], key[3], c)]]]
  <2>1. \A p, n, c : Simpler!Token(p, n, c) = Token(p, n, c)
    BY DEF Simpler!Token, Simpler!L, Token, L
  <2> QED
    BY <2>1, SameSets DEF Simpler!Shard, Given
<1>3. DOMAIN heap = Given \X Ranks \X Chunks
  BY <1>1, <1>2
<1>4. ASSUME NEW key \in DOMAIN heap
      PROVE  /\ key[2] \in Ranks /\ key[3] \in Chunks
             /\ Means(key[1], key[2], key[3], heap[key])
  <2>1. PICK nm \in Given, r \in Ranks, n \in Chunks : key = <<nm, r, n>>
    BY <1>3, <1>4
  <2>2. heap[key] = [c \in Rows |-> input[nm][Token(r, n, c)]]
    BY <1>1, <1>2, <2>1
  <2>3. \A x : x = [c \in Rows |-> input[nm][Token(r, n, c)]] => Means(nm, r, n, x)
    BY DEF Means, Given
  <2> QED
    BY <2>1, <2>2, <2>3
<1>5. Together(heap)
  BY <1>3 DEF Together, Given
<1>6. Good(heap)
  BY <1>4, <1>5 DEF Good
<1>7. Present
  <2> SUFFICES ASSUME NEW r \in Ranks, NEW n \in Chunks
               PROVE  /\ \A nm \in Given : InHeap(nm, r, n)
                      /\ ~(place > 3 * r + 1) /\ ~(place > 3 * r + 2) /\ ~(place > 3 * r + 3)
                      /\ ~(place > 3 * P + 1) /\ ~(place > 3 * P + 3 * r + 3)
                      /\ ~(place > 3 * P + 3 * r + 4)
    BY DEF Present
  <2>1. P \in Nat /\ r \in Nat
    BY ChunksAre
  <2> QED
    BY <1>1, <1>3, <2>1 DEF InHeap
<1>8. Holding
  BY <1>1, <1>6, <1>7 DEF Holding
<1>9. RunKept
  BY <1>1 DEF RunKept
<1>10. Updating
  <2>1. UpdatedTo(0)
    BY <1>1, ChunksAre DEF UpdatedTo
  <2>2. 0 \in 0..N
    BY ChunksAre
  <2> QED
    BY <2>1, <2>2 DEF Updating
<1> QED
  BY <1>8, <1>9, <1>10 DEF SimplerInv

LEMMA SimplerStep ==
  ASSUME SimplerInv, Simpler!Next
  PROVE  SimplerInv'
<1>1. CASE Simpler!OnDevice
  <2>1. CASE Simpler!EndRun
    BY <1>1, <2>1, EndRunKeeps DEF Simpler!OnDevice
  <2>2. CASE \E t \in Simpler!Submitted : Simpler!RunTask(t)
    BY <1>1, <2>2, RunTaskKeeps DEF Simpler!OnDevice
  <2> QED
    BY <1>1, <2>1, <2>2 DEF Simpler!OnDevice
<1>2. CASE Simpler!OnHost
  BY <1>2, OnHostKeeps
<1> QED
  BY <1>1, <1>2 DEF Simpler!Next

LEMMA SimplerStutter ==
  ASSUME SimplerInv, UNCHANGED <<input, heap, op, place, done>>
  PROVE  SimplerInv'
<1>1. Holding /\ RunKept /\ Updating
  BY DEF SimplerInv
<1>2. Holding'
  <2>1. Good(heap)'
    BY <1>1, GoodNext DEF Holding
  <2>2. Present'
    BY <1>1, PresentKept DEF Holding
  <2> QED
    BY <1>1, <2>1, <2>2 DEF Holding
<1>3. RunKept'
  BY <1>1, StagesKept DEF RunKept, Simpler!Runs
<1>4. Updating'
  <2>1. \A m : UpdatedTo(m) => UpdatedTo(m)'
    BY StagesKept DEF UpdatedTo, InHeap
  <2> QED
    BY <1>1, <2>1, StagesKept DEF Updating
<1> QED
  BY <1>2, <1>3, <1>4 DEF SimplerInv

-----------------------------------------------------------------------------
(* What the properties say of the heap *)

LEMMA BoundaryTokens ==
  ASSUME NEW in, NEW r \in Ranks, NEW i, NEW j
  PROVE  /\ StateAt(in, FirstOf(r), i, j) = RunningState(in, i, j)[r * L - 1]
         /\ IntoAt(in, FirstOf(r + 1), i, j) =
              IF r = P - 1 THEN 0
              ELSE (Gate(in, (r + 1) * L, i) * AdjointState(in, i, j)[(r + 1) * L]) % Prime
<1>1. r \in Nat /\ r <= P - 1 /\ P \in Nat /\ N \in Nat \ {0} /\ C \in Nat \ {0}
  BY ChunksAre
<1>2. \A x \in Nat : (x * N) * C = x * L
  BY <1>1 DEF L
<1>3. FirstOf(r) * C = r * L /\ FirstOf(r + 1) * C = (r + 1) * L
  BY <1>1, <1>2 DEF FirstOf
<1>4. T = P * L /\ L \in Nat \ {0}
  BY <1>1 DEF T, L
<1>5. (r + 1) * L = T <=> r = P - 1
  <2>1. CASE r = P - 1
    <3>1. r + 1 = P
      BY <1>1, <2>1
    <3> QED
      BY <1>4, <2>1, <3>1
  <2>2. CASE r # P - 1
    <3>1. PICK d \in Nat : P = (r + 1) + (d + 1)
      <4>1. P - (r + 2) \in Nat /\ P = (r + 1) + ((P - (r + 2)) + 1)
        BY <1>1, <2>2
      <4> QED
        BY <4>1
    <3>2. PICK a \in Nat, b \in Nat : a = (r + 1) * L /\ b = d * L
      BY <1>1, <1>4
    <3>3. P * L = (a + b) + L
      <4>1. P * L = ((r + 1) + (d + 1)) * L
        BY <3>1
      <4>2. ((r + 1) + (d + 1)) * L = (r + 1) * L + (d + 1) * L
        BY <1>1, <1>4, <3>1
      <4>3. (d + 1) * L = d * L + L
        BY <1>4, <3>1
      <4> QED
        BY <1>4, <3>2, <4>1, <4>2, <4>3
    <3> QED
      BY <1>4, <2>2, <3>2, <3>3
  <2> QED
    BY <2>1, <2>2
<1>6. StateAt(in, FirstOf(r), i, j) = RunningState(in, i, j)[r * L - 1]
  BY <1>3 DEF StateAt
<1>7. IntoAt(in, FirstOf(r + 1), i, j) = AdjointInto(in, i, j, (r + 1) * L)
  BY <1>3 DEF IntoAt
<1> QED
  BY <1>5, <1>6, <1>7 DEF AdjointInto, Res, Residue

LEMMA BoundariesHold ==
  ASSUME SimplerInv
  PROVE  Simpler!BoundaryIsState
<1>0. Holding
  BY DEF SimplerInv
<1>1. ASSUME NEW p \in Ranks, NEW i \in Keys, NEW j \in Values
      PROVE  /\ InHeap("S_recv", p, 0) =>
                  heap[<<"S_recv", p, 0>>][i][j] = RunningState(input, i, j)[p * L - 1]
             /\ InHeap("dS_total", p, 0) =>
                  heap[<<"dS_total", p, 0>>][i][j] =
                    IF p = P - 1 THEN 0
                    ELSE (Gate(input, (p + 1) * L, i) * AdjointState(input, i, j)[(p + 1) * L])
                           % Prime
  <2>1. ASSUME InHeap("S_recv", p, 0)
        PROVE  heap[<<"S_recv", p, 0>>][i][j] = RunningState(input, i, j)[p * L - 1]
    <3>1. Means("S_recv", p, 0, heap[<<"S_recv", p, 0>>])
      BY <1>0, <2>1, Held DEF Holding
    <3>2. heap[<<"S_recv", p, 0>>][i][j] = StateAt(input, FirstOf(p), i, j)
      BY <3>1 DEF Means, BoundaryAt
    <3> QED
      BY <3>2, BoundaryTokens
  <2>2. ASSUME InHeap("dS_total", p, 0)
        PROVE  heap[<<"dS_total", p, 0>>][i][j] =
                 IF p = P - 1 THEN 0
                 ELSE (Gate(input, (p + 1) * L, i) * AdjointState(input, i, j)[(p + 1) * L]) % Prime
    <3>1. Means("dS_total", p, 0, heap[<<"dS_total", p, 0>>])
      BY <1>0, <2>2, Held DEF Holding
    <3>2. heap[<<"dS_total", p, 0>>][i][j] = IntoAt(input, FirstOf(p + 1), i, j)
      BY <3>1 DEF Means
    <3> QED
      BY <3>2, BoundaryTokens
  <2> QED
    BY <2>1, <2>2
<1>2. Simpler!Ranks = Ranks /\ Simpler!Keys = Keys /\ Simpler!Values = Values /\ Simpler!L = L
  BY SameSets DEF Simpler!L, L
<1>3. \A p : /\ Simpler!Defined("S_recv", p) <=> InHeap("S_recv", p, 0)
             /\ Simpler!Defined("dS_total", p) <=> InHeap("dS_total", p, 0)
  BY DEF Simpler!Defined, InHeap
<1> SUFFICES ASSUME NEW p \in Ranks, NEW i \in Keys, NEW j \in Values
             PROVE  /\ Simpler!Defined("S_recv", p) =>
                         heap[<<"S_recv", p, 0>>][i][j]
                           = Simpler!RunningState(input, i, j)[p * Simpler!L - 1]
                    /\ Simpler!Defined("dS_total", p) =>
                         heap[<<"dS_total", p, 0>>][i][j] =
                           IF p = P - 1 THEN 0
                           ELSE (Simpler!Gate(input, (p + 1) * Simpler!L, i)
                                   * Simpler!AdjointState(input, i, j)[(p + 1) * Simpler!L]) % Prime
  BY <1>2, Zenon DEF Simpler!BoundaryIsState
<1> QED
  BY <1>1, <1>2, <1>3, SameRunning, SameAdjoint, SameGate

LEMMA SnapshotsHold ==
  ASSUME SimplerInv
  PROVE  Simpler!SnapshotsAreStates
<1>0. Good(heap) /\ Together(heap)
  BY DEF SimplerInv, Holding, Good
<1>1. ASSUME NEW p \in Ranks, InHeap("snap", p, 0), NEW n \in Chunks, NEW i \in Keys, NEW j \in Values
      PROVE  heap[<<"snap", p, n>>][i][j] = RunningState(input, i, j)[Token(p, n, 0) - 1]
  <2>1. InHeap("snap", p, n)
    BY <1>0, <1>1 DEF Together, InHeap
  <2>2. Means("snap", p, n, heap[<<"snap", p, n>>])
    BY <1>0, <2>1, Held
  <2>3. heap[<<"snap", p, n>>][i][j] = StateAt(input, FirstOf(p) + n, i, j)
    BY <2>2 DEF Means, BoundaryAt
  <2>4. Token(p, n, 0) - 1 = (FirstOf(p) + n) * C - 1
    <3>1. 0 \in Rows /\ p \in Nat /\ n \in Nat /\ N \in Nat /\ C \in Nat
      BY ChunksAre
    <3>2. Token(p, n, 0) = (FirstOf(p) + n) * C + 0
      BY <3>1, ChunksAre
    <3>3. FirstOf(p) \in Nat
      BY ChunksAre
    <3>4. PICK x \in Int : x = (FirstOf(p) + n) * C
      BY <3>1, <3>3
    <3> QED
      BY <3>2, <3>4
  <2> QED
    BY <2>3, <2>4 DEF StateAt
<1>2. /\ Simpler!Ranks = Ranks /\ Simpler!Chunks = Chunks
      /\ Simpler!Keys = Keys /\ Simpler!Values = Values
  BY SameSets
<1>3. \A p : Simpler!Defined("snap", p) <=> InHeap("snap", p, 0)
  BY DEF Simpler!Defined, InHeap
<1> SUFFICES ASSUME NEW p \in Ranks, Simpler!Defined("snap", p),
                    NEW n \in Chunks, NEW i \in Keys, NEW j \in Values
             PROVE  heap[<<"snap", p, n>>][i][j]
                      = Simpler!RunningState(input, i, j)[Simpler!Token(p, n, 0) - 1]
  BY <1>2 DEF Simpler!SnapshotsAreStates
<1> QED
  BY <1>1, <1>3, SameRunning, SameToken

-----------------------------------------------------------------------------
(* Calls of either backend *)

CallInv ==
  /\ backend = "pypto" => PyptoInv
  /\ backend = "simpler" => SimplerInv

\* What every device of a fused program holds, wherever it stands in its
\* script and whatever block its rings are at, and what every tensor of the
\* simpler backend holds, in any order of its tasks, is what sequential GLA
\* gives: an invariant of every call.
THEOREM CallInvariant == CallSpec => []CallInv
<1>1. InitCall => CallInv
  <2> SUFFICES ASSUME InitCall PROVE CallInv
    OBVIOUS
  <2>1. CASE backend = "simpler" /\ Simpler!Init
    BY <2>1, SimplerInit DEF CallInv
  <2>2. CASE backend = "pypto" /\ Init
    BY <2>2, PyptoInit DEF CallInv
  <2> QED
    BY <2>1, <2>2 DEF InitCall
<1>2. CallInv /\ [NextCall]_callVars => CallInv'
  <2> SUFFICES ASSUME CallInv, [NextCall]_callVars PROVE CallInv'
    OBVIOUS
  <2>1. CASE SimplerCall
    <3>1. backend = "simpler" /\ Simpler!Next /\ backend' = backend
      BY <2>1 DEF SimplerCall
    <3>2. SimplerInv'
      BY <3>1, SimplerStep DEF CallInv
    <3> QED
      BY <3>1, <3>2 DEF CallInv
  <2>2. CASE PyptoCall
    <3>1. backend = "pypto" /\ Next /\ backend' = backend
      BY <2>2 DEF PyptoCall
    <3>2. PyptoInv'
      BY <3>1, PyptoStep DEF CallInv
    <3> QED
      BY <3>1, <3>2 DEF CallInv
  <2>3. CASE UNCHANGED callVars
    <3>1. /\ backend' = backend /\ UNCHANGED vars
          /\ UNCHANGED <<input, heap, op, place, done>>
      BY <2>3 DEF callVars, vars, pyptoVars, simplerVars
    <3>2. backend = "pypto" => PyptoInv'
      BY <3>1, PyptoStutter DEF CallInv
    <3>3. backend = "simpler" => SimplerInv'
      BY <3>1, SimplerStutter DEF CallInv
    <3> QED
      BY <3>1, <3>2, <3>3 DEF CallInv
  <2> QED
    BY <2>1, <2>2, <2>3 DEF NextCall
<1> QED
  BY <1>1, <1>2, PTL DEF CallSpec

\* What the boundary exchange of the simpler backend gives a rank is the state
\* sequential GLA has at the start of its tokens, and backward the gradient of
\* the state at their end.
THEOREM BoundariesAreStates == CallSpec => []BoundaryIsState
<1>1. CallInv => BoundaryIsState
  BY BoundariesHold DEF CallInv, BoundaryIsState
<1> QED
  BY <1>1, CallInvariant, PTL

\* A folded snapshot of the simpler backend is the state before its chunk.
THEOREM FoldedSnapshots == CallSpec => []SnapshotsAreStates
<1>1. CallInv => SnapshotsAreStates
  BY SnapshotsHold DEF CallInv, SnapshotsAreStates
<1> QED
  BY <1>1, CallInvariant, PTL

\* What the first kernel of a fused program recorded from a zero state, and
\* the boundary that arrived, rebuild the state before every chunk.
THEOREM RecordsRebuild == CallSpec => []RecordsRebuildStates
<1>1. CallInv => RecordsRebuildStates
  BY PyptoRebuilds DEF CallInv, RecordsRebuildStates
<1> QED
  BY <1>1, CallInvariant, PTL

\* A block of the reverse ring is the gradient of the state its receiver ends
\* with, and the recorded reverse walk that of the states between chunks.
THEOREM ReverseIsAdjoint == CallSpec => []ReverseStatesAreAdjoints
<1>1. CallInv => ReverseStatesAreAdjoints
  BY PyptoAdjoints DEF CallInv, ReverseStatesAreAdjoints
<1> QED
  BY <1>1, CallInvariant, PTL

=============================================================================
