-------------------------- MODULE SimplerCoreProofs --------------------------
(***************************************************************************)
(* Proofs about SimplerCore: on every path the pipes can take, a kernel    *)
(* races on no cell, makes what its instructions make one at a time, and   *)
(* leaves no flag set; for every number of blocks.                         *)
(*                                                                         *)
(* The first half is about any program: what the order of its pipes, flags *)
(* and barriers implies (Ordered), and the invariant of the core under it. *)
(* The second half shows that each kernel is ordered and what it makes,    *)
(* block by block for the two that loop.  For a kernel or block X, XRows   *)
(* lists its instructions and XCells the cells they use; XIs says that the *)
(* program of SimplerKernels has these rows, and XTidy and XMakes say, of  *)
(* any program that has, that it is ordered and that XMade is what its     *)
(* instructions make.                                                      *)
(***************************************************************************)
EXTENDS SimplerCore, SequenceTheorems, FiniteSetTheorems, WellFoundedInduction, TLAPS

-----------------------------------------------------------------------------
(* What is ordered whatever the timing of the pipes *)

IsList(s) == \E S : s \in Seq(S)

\* Every set_flag is followed by its wait_flag and no wait_flag comes alone.
PairedAt(s, i) ==
  /\ s[i].kind = "set" =>
       /\ i + 1 \in 1..Len(s) /\ s[i + 1].kind = "wait" /\ s[i + 1].flag = s[i].flag
       /\ s[i].pipe = s[i].flag[1]
  /\ s[i].kind = "wait" =>
       /\ i - 1 \in 1..Len(s) /\ s[i - 1].kind = "set" /\ s[i - 1].flag = s[i].flag
       /\ s[i].pipe = s[i].flag[2]
Paired(s) == \A i \in 1..Len(s) : PairedAt(s, i)

\* R holds what the core guarantees: that an instruction has finished when
\* another one starts.
Closed(s, R) ==
  /\ \A a, b \in 1..Len(s) : a < b =>
       /\ s[a].pipe = s[b].pipe /\ s[a].kind # "detached" => <<a, b>> \in R
       /\ s[a].pipe = "S" => <<a, b>> \in R
       /\ s[b].kind = "barrier" => <<a, b>> \in R
  /\ \A a \in 1..Len(s) : s[a].kind = "set" => <<a, a + 1>> \in R
  /\ \A a, b, c \in 1..Len(s) : <<a, b>> \in R /\ <<b, c>> \in R => <<a, c>> \in R

Pairs(s) == (1..Len(s)) \X (1..Len(s))
Before(s, a, b) ==
  /\ a \in 1..Len(s) /\ b \in 1..Len(s)
  /\ \A R \in SUBSET Pairs(s) : Closed(s, R) => <<a, b>> \in R

Conflict(x, y) ==
  /\ Moves(x) /\ Moves(y)
  /\ \/ Cells(x.dst) \cap Cells(y.dst) # {}
     \/ Cells(x.dst) \cap Cells(y.src) # {}
     \/ Cells(x.src) \cap Cells(y.dst) # {}

\* Instructions that use a cell one of them writes come one after the other.
Ordered(s) == \A a, b \in 1..Len(s) : a < b /\ Conflict(s[a], s[b]) => Before(s, a, b)

\* Nothing but moves writes.
Plain(s) == \A i \in 1..Len(s) : ~Moves(s[i]) => Cells(s[i].dst) = {}

\* Program s delivers promised, a set of pairs <<cell, value>>.
Annotated(s, v) ==
  /\ IsList(v) /\ Len(v) = Len(s)
  /\ \A i \in 1..Len(s) : v[i] = Made(s, v, i)
Delivers(s, v, promised) ==
  \A r \in promised : Writers(s, r[1]) # {} /\ Contents(s, v, r[1], Writers(s, r[1])) = r[2]

LEMMA Domains == ASSUME NEW s, IsList(s) PROVE Len(s) \in Nat /\ DOMAIN s = 1..Len(s)
<1>1. PICK S : s \in Seq(S)
  BY DEF IsList
<1> QED
  BY <1>1, LenProperties

-----------------------------------------------------------------------------
(* The core on any program *)

\* Instructions `going` may have been started together.
Lawful(going) ==
  /\ finished \subseteq going /\ going \subseteq 1..Len(code)
  /\ \A i \in going : Issued(i) /\ (code[i].kind = "barrier" => 1..(i - 1) \subseteq finished)
  /\ \A i \in 1..Len(code) : code[i].kind = "set" /\ i + 1 \in going => i \in finished

DoneBefore(going) ==
  {ab \in Pairs(code) : ab[1] < ab[2] /\ (ab[2] \in going => ab[1] \in finished)}

LEMMA StartedLawful == ASSUME IsList(code), InvIssue, InvFlags PROVE Lawful(started)
<1>1. Len(code) \in Nat /\ DOMAIN code = 1..Len(code)
  BY Domains
<1> QED
  BY <1>1 DEF Lawful, InvIssue, InvFlags

\* The guarantees hold in every state.
LEMMA DoneClosed ==
  ASSUME IsList(code), Paired(code), NEW going, Lawful(going)
  PROVE  Closed(code, DoneBefore(going))
<1>0. Len(code) \in Nat
  BY Domains
<1>1. ASSUME NEW a \in 1..Len(code), NEW b \in 1..Len(code), a < b,
             \/ code[a].pipe = code[b].pipe /\ code[a].kind # "detached"
             \/ code[a].pipe = "S" \/ code[b].kind = "barrier"
      PROVE  <<a, b>> \in DoneBefore(going)
  <2>1. SUFFICES ASSUME b \in going PROVE a \in finished
    BY <1>1 DEF DoneBefore, Pairs
  <2>2. Issued(b) /\ (code[b].kind = "barrier" => 1..(b - 1) \subseteq finished) /\ a \in 1..(b - 1)
    BY <1>0, <1>1, <2>1 DEF Lawful
  <2> QED
    BY <1>1, <2>2 DEF Issued
<1>2. ASSUME NEW a \in 1..Len(code), code[a].kind = "set" PROVE <<a, a + 1>> \in DoneBefore(going)
  <2>1. a + 1 \in 1..Len(code)
    BY <1>2 DEF PairedAt, Paired
  <2>2. a + 1 \in going => a \in finished
    BY <1>2 DEF Lawful
  <2> QED
    BY <2>1, <2>2 DEF DoneBefore, Pairs
<1>3. ASSUME NEW a \in 1..Len(code), NEW b \in 1..Len(code), NEW c \in 1..Len(code),
             <<a, b>> \in DoneBefore(going), <<b, c>> \in DoneBefore(going)
      PROVE  <<a, c>> \in DoneBefore(going)
  <2>1. a < b /\ b < c /\ (b \in going => a \in finished) /\ (c \in going => b \in finished)
    BY <1>3 DEF DoneBefore
  <2> QED
    BY <1>0, <2>1 DEF DoneBefore, Pairs, Lawful
<1> QED
  BY <1>1, <1>2, <1>3 DEF Closed

LEMMA BeforeDone ==
  ASSUME IsList(code), Paired(code), NEW going, Lawful(going),
         NEW a, NEW b, Before(code, a, b)
  PROVE  a < b /\ (b \in going => a \in finished)
<1>1. DoneBefore(going) \in SUBSET Pairs(code)
  BY DEF DoneBefore
<1>2. <<a, b>> \in DoneBefore(going)
  BY <1>1, DoneClosed DEF Before
<1> QED
  BY <1>2 DEF DoneBefore

\* Conflicting instructions never run at once.
LEMMA NoRace ==
  ASSUME IsList(code), Paired(code), Ordered(code), InvIssue, InvFlags
  PROVE  RaceFree
<1>0. Len(code) \in Nat /\ DOMAIN code = 1..Len(code)
  BY Domains
<1>1. SUFFICES ASSUME NEW i \in Running, NEW j \in Running, i # j,
                      Cells(code[i].dst) \cap (Cells(code[j].dst) \cup Cells(code[j].src)) # {}
               PROVE  FALSE
  BY DEF RaceFree
<1>2. i \in 1..Len(code) /\ j \in 1..Len(code) /\ Moves(code[i]) /\ Moves(code[j])
  BY <1>0 DEF InvIssue, Running
<1>3. Conflict(code[i], code[j]) /\ Conflict(code[j], code[i])
  BY <1>1, <1>2 DEF Conflict
<1>4. CASE i < j
  <2>1. Before(code, i, j)
    BY <1>2, <1>3, <1>4 DEF Ordered
  <2> QED
    BY <2>1, StartedLawful, BeforeDone DEF Running
<1>5. CASE j < i
  <2>1. Before(code, j, i)
    BY <1>2, <1>3, <1>5 DEF Ordered
  <2> QED
    BY <2>1, StartedLawful, BeforeDone DEF Running
<1> QED
  BY <1>0, <1>1, <1>2, <1>4, <1>5

LEMMA IssueStarts == Init => InvIssue
  BY DEF Init, InvIssue

LEMMA IssueKept ==
  ASSUME InvIssue, IsList(code), [Next]_vars PROVE InvIssue'
<1>0. DOMAIN code = 1..Len(code) /\ Len(code) \in Nat
  BY Domains
<1> USE DEF InvIssue
<1>1. ASSUME NEW i \in DOMAIN code, Start(i) PROVE InvIssue'
  <2>1. code' = code /\ finished' = finished /\ started' = started \cup {i} /\ Moves(code[i]) /\ Issued(i)
    BY <1>1 DEF Start
  <2>2. code[i].kind # "barrier"
    BY <2>1 DEF Moves
  <2>3. \A j \in started' : Issued(j)'
    BY <2>1 DEF Issued
  <2> QED
    BY <2>1, <2>2, <2>3
<1>2. ASSUME NEW i \in DOMAIN code, Finish(i) PROVE InvIssue'
  <2>1. code' = code /\ finished' = finished \cup {i} /\ started' = started /\ i \in started
    BY <1>2 DEF Finish, Running
  <2>2. \A j \in started' : Issued(j)'
    BY <2>1 DEF Issued
  <2> QED
    BY <2>1, <2>2
<1>3. ASSUME NEW i \in DOMAIN code, Synchronise(i) PROVE InvIssue'
  <2>1. /\ code' = code /\ finished' = finished \cup {i} /\ started' = started \cup {i}
        /\ Issued(i) /\ (code[i].kind = "barrier" => 1..(i - 1) \subseteq finished)
    BY <1>3 DEF Synchronise
  <2>2. \A j \in started' : Issued(j)'
    BY <2>1 DEF Issued
  <2> QED
    BY <2>1, <2>2
<1>4. CASE UNCHANGED vars
  BY <1>4 DEF vars, Issued
<1> QED
  BY <1>1, <1>2, <1>3, <1>4 DEF Next

-----------------------------------------------------------------------------
(* Flags *)

LEMMA SignalsFinite ==
  ASSUME IsList(code), InvIssue, NEW kind, NEW f
  PROVE  IsFiniteSet(Signalled(kind, f)) /\ Cardinality(Signalled(kind, f)) \in Nat
<1>1. Len(code) \in Nat /\ finished \subseteq 1..Len(code)
  BY Domains DEF InvIssue
<1>2. IsFiniteSet(1..Len(code))
  BY <1>1, FS_Interval
<1>3. Signalled(kind, f) \in SUBSET (1..Len(code))
  BY <1>1 DEF Signalled
<1>4. IsFiniteSet(Signalled(kind, f))
  BY <1>2, <1>3, FS_Subset
<1> QED
  BY <1>4, FS_CardinalityType

LEMMA FlagsStart == Init => InvFlags
<1> SUFFICES ASSUME Init PROVE InvFlags
  OBVIOUS
<1>1. \A f : Signalled("set", f) = {} /\ Signalled("wait", f) = {}
  BY DEF Init, Signalled
<1>2. \A f : Cardinality(Signalled("set", f)) = 0 /\ Cardinality(Signalled("wait", f)) = 0
  BY <1>1, FS_EmptySet
<1>3. flag = [f \in Flags |-> 0] /\ started = {}
  BY DEF Init
<1> QED
  BY <1>2, <1>3 DEF InvFlags

\* A wait that is let through comes after its own set: a flag in the air is that
\* of an earlier pair only if its wait, on the same pipe, is still to come.
LEMMA WaitAfterSet ==
  ASSUME IsList(code), Paired(code), InvIssue, InvFlags,
         NEW i \in 1..Len(code), i \notin started, Issued(i),
         code[i].kind = "wait", flag[code[i].flag] > 0
  PROVE  i - 1 \in finished
<1> DEFINE f == code[i].flag
           S == Signalled("set", f)
           W == Signalled("wait", f)
           g == [j \in S |-> j + 1]
<1>0. Len(code) \in Nat /\ DOMAIN code = 1..Len(code) /\ finished \subseteq started /\ started \subseteq 1..Len(code)
  BY Domains DEF InvIssue
<1>1. SUFFICES ASSUME i - 1 \notin finished PROVE FALSE
  OBVIOUS
<1>2. /\ i - 1 \in 1..Len(code) /\ code[i - 1].kind = "set" /\ code[i - 1].flag = f
      /\ code[i].pipe = f[2] /\ code[i - 1].pipe = f[1]
  BY DEF PairedAt, Paired
<1>3. ASSUME NEW j \in S PROVE j + 1 \in W
  <2>1. /\ j \in 1..Len(code) /\ code[j].kind = "set" /\ code[j].flag = f /\ j \in finished
        /\ j + 1 \in 1..Len(code) /\ code[j + 1].kind = "wait" /\ code[j + 1].flag = f
        /\ code[j].pipe = f[1] /\ code[j + 1].pipe = f[2]
    BY <1>0, <1>3 DEF Signalled, PairedAt, Paired
  <2>2. CASE j + 1 < i
    <3>1. j + 1 \in 1..(i - 1)
      BY <1>0, <2>1, <2>2
    <3> QED
      BY <1>2, <2>1, <3>1 DEF Issued, Signalled
  <2>3. CASE i < j
    <3>1. i - 1 \in 1..(j - 1) /\ j \in started
      BY <1>0, <1>2, <2>1, <2>3
    <3>2. Issued(j)
      BY <3>1 DEF InvIssue
    <3> QED
      BY <1>1, <1>2, <2>1, <3>1, <3>2 DEF Issued
  <2>4. j # i /\ j # i - 1
    BY <1>1, <2>1
  <2> QED
    BY <1>0, <2>1, <2>2, <2>3, <2>4
<1>4. g \in Injection(S, W)
  <2>1. \A j \in S : j \in Int
    BY <1>0 DEF Signalled
  <2> QED
    BY <1>3, <2>1 DEF Injection, IsInjective
<1>5. IsFiniteSet(W) /\ Cardinality(S) \in Nat /\ Cardinality(W) \in Nat
  BY SignalsFinite
<1>6. Cardinality(S) <= Cardinality(W)
  <2> HIDE DEF g, S, W
  <2> QED
    BY <1>4, <1>5, FS_Injection
<1>7. flag[f] = Cardinality(S) - Cardinality(W)
  BY <1>0 DEF InvFlags, Flags
<1> QED
  BY <1>5, <1>6, <1>7

LEMMA FlagsKept ==
  ASSUME IsList(code), Paired(code), InvIssue, InvFlags, [Next]_vars
  PROVE  InvFlags'
<1>0. /\ Len(code) \in Nat /\ DOMAIN code = 1..Len(code)
      /\ finished \subseteq started /\ started \subseteq 1..Len(code)
  BY Domains DEF InvIssue
<1>1. ASSUME NEW i \in DOMAIN code, Start(i) PROVE InvFlags'
  <2>1. /\ code' = code /\ flag' = flag /\ finished' = finished
        /\ started' = started \cup {i} /\ Moves(code[i])
    BY <1>1 DEF Start
  <2>2. \A kind, f : Signalled(kind, f)' = Signalled(kind, f)
    BY <2>1 DEF Signalled
  <2>3. \A j \in 1..Len(code) : code[j].kind = "set" => j + 1 # i
    BY <1>0, <2>1 DEF PairedAt, Paired, Moves
  <2> QED
    BY <1>0, <2>1, <2>2, <2>3 DEF InvFlags, Flags
<1>2. ASSUME NEW i \in DOMAIN code, Finish(i) PROVE InvFlags'
  <2>1. /\ code' = code /\ flag' = flag /\ finished' = finished \cup {i}
        /\ started' = started /\ i \in started \ finished
    BY <1>2 DEF Finish, Running
  <2>2. Moves(code[i])
    BY <2>1 DEF InvIssue
  <2>3. \A f : Signalled("set", f)' = Signalled("set", f) /\ Signalled("wait", f)' = Signalled("wait", f)
    BY <2>1, <2>2 DEF Signalled, Moves
  <2> QED
    BY <2>1, <2>3 DEF InvFlags, Flags
<1>3. ASSUME NEW i \in DOMAIN code, Synchronise(i) PROVE InvFlags'
  <2> DEFINE h == code[i].flag
  <2>1. /\ code' = code /\ finished' = finished \cup {i} /\ started' = started \cup {i}
        /\ i \notin started /\ i \notin finished /\ Issued(i) /\ h \in Flags /\ Flags' = Flags
        /\ DOMAIN flag = Flags
        /\ code[i].kind = "wait" => flag[h] > 0
    BY <1>0, <1>3 DEF Synchronise, Flags, InvFlags
  <2>2. flag' = CASE code[i].kind = "set"  -> [flag EXCEPT ![h] = @ + 1]
                  [] code[i].kind = "wait" -> [flag EXCEPT ![h] = @ - 1]
                  [] OTHER                 -> flag
    BY <1>3 DEF Synchronise
  <2>3. ASSUME NEW kind, NEW f
        PROVE  Cardinality(Signalled(kind, f))' =
                 IF code[i].kind = kind /\ f = h THEN Cardinality(Signalled(kind, f)) + 1
                 ELSE Cardinality(Signalled(kind, f))
    <3>1. CASE code[i].kind = kind /\ f = h
      <4>1. Signalled(kind, f)' = Signalled(kind, f) \cup {i} /\ i \notin Signalled(kind, f)
        BY <2>1, <3>1 DEF Signalled
      <4> QED
        BY <3>1, <4>1, SignalsFinite, FS_AddElement
    <3>2. CASE ~ (code[i].kind = kind /\ f = h)
      <4>1. Signalled(kind, f)' = Signalled(kind, f)
        BY <2>1, <3>2 DEF Signalled
      <4> QED
        BY <3>2, <4>1
    <3> QED
      BY <3>1, <3>2
  <2>4. ASSUME NEW f \in Flags
        PROVE  flag'[f] = Cardinality(Signalled("set", f))' - Cardinality(Signalled("wait", f))'
    <3>1. /\ Cardinality(Signalled("set", f)) \in Nat /\ Cardinality(Signalled("wait", f)) \in Nat
          /\ flag[f] = Cardinality(Signalled("set", f)) - Cardinality(Signalled("wait", f))
      BY SignalsFinite DEF InvFlags
    <3>2. /\ Cardinality(Signalled("set", f))' =
               IF code[i].kind = "set" /\ f = h THEN Cardinality(Signalled("set", f)) + 1
               ELSE Cardinality(Signalled("set", f))
          /\ Cardinality(Signalled("wait", f))' =
               IF code[i].kind = "wait" /\ f = h THEN Cardinality(Signalled("wait", f)) + 1
               ELSE Cardinality(Signalled("wait", f))
      BY <2>3
    <3> HIDE DEF h
    <3>3. CASE code[i].kind = "set"
      BY <2>1, <2>2, <3>1, <3>2, <3>3
    <3>4. CASE code[i].kind = "wait"
      BY <2>1, <2>2, <3>1, <3>2, <3>4
    <3>5. CASE code[i].kind \notin {"set", "wait"}
      BY <2>1, <2>2, <3>1, <3>2, <3>5
    <3> QED
      BY <3>3, <3>4, <3>5
  <2>5. ASSUME NEW j \in 1..Len(code), code[j].kind = "set", j + 1 \in started' PROVE j \in finished'
    <3>1. CASE j + 1 = i
      <4>1. code[i].kind = "wait" /\ j = i - 1
        BY <1>0, <2>5, <3>1 DEF PairedAt, Paired
      <4> QED
        BY <1>0, <2>1, <4>1, WaitAfterSet
    <3>2. CASE j + 1 # i
      BY <1>0, <2>1, <2>5, <3>2 DEF InvFlags
    <3> QED
      BY <3>1, <3>2
  <2>6. DOMAIN flag' = Flags
    BY <2>1, <2>2
  <2> QED
    BY <1>0, <2>1, <2>4, <2>5, <2>6 DEF InvFlags
<1>4. CASE UNCHANGED vars
  <2>1. \A kind, f : Signalled(kind, f)' = Signalled(kind, f)
    BY <1>4 DEF vars, Signalled
  <2> QED
    BY <1>4, <2>1 DEF vars, InvFlags, Flags
<1> QED
  BY <1>1, <1>2, <1>3, <1>4 DEF Next

LEMMA FlagsEnd ==
  ASSUME IsList(code), Paired(code), InvIssue, InvFlags
  PROVE  FlagsConsumed
<1> SUFFICES ASSUME Ended, NEW f \in DOMAIN flag PROVE flag[f] = 0
  BY DEF FlagsConsumed
<1> DEFINE S == Signalled("set", f)
           W == Signalled("wait", f)
           g == [j \in S |-> j + 1]
<1>0. Len(code) \in Nat /\ finished = 1..Len(code)
  BY Domains DEF Ended
<1>1. g \in Bijection(S, W)
  <2>1. \A j \in S : j \in Int /\ j + 1 \in W
    BY <1>0 DEF Signalled, PairedAt, Paired
  <2>2. \A j \in W : j \in Int /\ j - 1 \in S /\ (j - 1) + 1 = j
    BY <1>0 DEF Signalled, PairedAt, Paired
  <2> HIDE DEF S, W
  <2>3. g \in Injection(S, W)
    BY <2>1 DEF Injection, IsInjective
  <2>4. g \in Surjection(S, W)
    BY <2>1, <2>2 DEF Surjection
  <2> QED
    BY <2>3, <2>4 DEF Bijection
<1>2. IsFiniteSet(S) /\ Cardinality(S) \in Nat
  BY SignalsFinite
<1>3. Cardinality(W) = Cardinality(S)
  <2> HIDE DEF g, S, W
  <2> QED
    BY <1>1, <1>2, FS_Bijection DEF ExistsBijection
<1> QED
  BY <1>2, <1>3 DEF InvFlags

-----------------------------------------------------------------------------
(* Values *)

\* Every set of numbers that has an element has a least one.
LEMMA Least ==
  ASSUME NEW S \in SUBSET Nat, S # {}
  PROVE  \E x \in S : \A y \in S : x <= y
<1> DEFINE R == {ss \in Nat \X Nat : ss[1] < ss[2]}
<1>1. IsWellFoundedOn(R, Nat)
  BY NatLessThanWellFounded DEF OpToRel
<1>2. PICK x \in S : \A y \in S : ~ (<<y, x>> \in R)
  <2> HIDE DEF R
  <2> QED
    BY <1>1, WFMin
<1>3. \A y \in S : y \in Nat /\ x \in Nat /\ ~ (y < x)
  BY <1>2
<1> QED
  BY <1>3

\* Every set of positions that has an element has a last one.
LEMMA LastIn ==
  ASSUME NEW n \in Nat, NEW W \in SUBSET (1..n), W # {}
  PROVE  /\ Latest(W) \in W
         /\ \A l \in W : l <= Latest(W)
<1> DEFINE D == {n - l : l \in W}
<1>1. D \in SUBSET Nat /\ D # {}
  <2>1. \A l \in W : n - l \in Nat
    OBVIOUS
  <2> QED
    BY <2>1
<1>2. PICK x \in D : \A y \in D : x <= y
  <2> HIDE DEF D
  <2> QED
    BY <1>1, Least
<1>3. PICK w \in W : x = n - w
  OBVIOUS
<1>4. \A l \in W : l <= w
  <2>1. ASSUME NEW l \in W PROVE l <= w
    <3>1. n - l \in D
      OBVIOUS
    <3>2. n - w <= n - l
      BY <1>2, <1>3, <3>1
    <3> QED
      BY <3>2
  <2> QED
    BY <2>1
<1> QED
  BY <1>4 DEF Latest

LEMMA LastIs ==
  ASSUME NEW n \in Nat, NEW W \in SUBSET (1..n), NEW w \in W, \A l \in W : l <= w
  PROVE  Latest(W) = w
<1>1. Latest(W) \in W /\ \A l \in W : l <= Latest(W)
  BY LastIn
<1>2. Latest(W) \in 1..n /\ w \in 1..n /\ w <= Latest(W) /\ Latest(W) <= w
  BY <1>1
<1> QED
  BY <1>2

\* What a cell holds is said by its last writer alone.
LEMMA ContentsLast ==
  ASSUME NEW s, NEW v, NEW c, NEW n \in Nat, NEW W \in SUBSET (1..n),
         NEW w \in W, \A l \in W : l <= w
  PROVE  Contents(s, v, c, W) = IF c = s[w].dst[1] THEN v[w] ELSE Scratch
<1>1. Latest(W) = w /\ W # {}
  BY LastIs
<1> QED
  BY <1>1 DEF Contents

\* Operands are made by earlier instructions only.
LEMMA OperandsAgree ==
  ASSUME NEW s, IsList(s), NEW v, NEW w, NEW i \in 1..Len(s),
         \A j \in 1..(i - 1) : v[j] = w[j]
  PROVE  Operands(s, v, i) = Operands(s, w, i) /\ Made(s, v, i) = Made(s, w, i)
<1>0. Len(s) \in Nat /\ DOMAIN s = 1..Len(s)
  BY Domains
<1>1. ASSUME NEW c
      PROVE  Contents(s, v, c, {j \in Writers(s, c) : j < i}) = Contents(s, w, c, {j \in Writers(s, c) : j < i})
  <2> DEFINE W == {j \in Writers(s, c) : j < i}
  <2>1. W \in SUBSET (1..Len(s)) /\ \A j \in W : j \in 1..(i - 1)
    BY <1>0 DEF Writers
  <2> HIDE DEF W
  <2>2. Contents(s, v, c, W) = Contents(s, w, c, W)
    <3>1. CASE W = {}
      BY <3>1 DEF Contents
    <3>2. CASE W # {}
      <4>1. Latest(W) \in W
        BY <1>0, <2>1, <3>2, LastIn
      <4> QED
        BY <2>1, <4>1 DEF Contents
    <3> QED
      BY <3>1, <3>2
  <2> QED
    BY <2>2 DEF W
<1>2. Operands(s, v, i) = Operands(s, w, i)
  BY <1>1 DEF Operands
<1> QED
  BY <1>2 DEF Made

\* One instruction at a time gives one result: what satisfies the equation of
\* InOrder is InOrder.
LEMMA InOrderIs ==
  ASSUME NEW s, IsList(s), NEW v, Annotated(s, v)
  PROVE  InOrder(s) = v
<1> DEFINE Body(g) == [i \in DOMAIN s |-> Made(s, g, i)]
           f == CHOOSE g : g = Body(g)
           Wrong == {i \in 1..Len(s) : f[i] # v[i]}
<1>0. Len(s) \in Nat /\ DOMAIN s = 1..Len(s)
  BY Domains
<1>1. v = Body(v)
  <2>1. PICK S : v \in Seq(S)
    BY DEF Annotated, IsList
  <2>2. v = [i \in 1..Len(s) |-> v[i]]
    BY <2>1, LenProperties DEF Annotated
  <2>3. \A i \in 1..Len(s) : v[i] = Made(s, v, i)
    BY DEF Annotated
  <2> QED
    BY <1>0, <2>2, <2>3
<1>2. f = Body(f)
  <2> HIDE DEF Body
  <2> QED
    BY <1>1
<1>3. \A i \in 1..Len(s) : f[i] = Made(s, f, i) /\ v[i] = Made(s, v, i)
  <2> HIDE DEF f
  <2> QED
    BY <1>0, <1>1, <1>2
<1>4. InOrder(s) = f
  BY DEF InOrder
<1> HIDE DEF f
<1>5. Wrong = {}
  <2>1. SUFFICES ASSUME Wrong # {} PROVE FALSE
    OBVIOUS
  <2>2. Wrong \in SUBSET Nat
    BY <1>0
  <2>3. PICK i \in Wrong : \A j \in Wrong : i <= j
    <3> HIDE DEF Wrong
    <3> QED
      BY <2>1, <2>2, Least
  <2>4. i \in 1..Len(s) /\ f[i] # v[i]
    OBVIOUS
  <2>5. \A j \in 1..(i - 1) : f[j] = v[j]
    BY <1>0, <2>3, <2>4
  <2>6. Made(s, f, i) = Made(s, v, i)
    BY <2>4, <2>5, OperandsAgree
  <2> QED
    BY <1>3, <2>4, <2>6
<1>6. \A i \in 1..Len(s) : f[i] = v[i]
  BY <1>5
<1>7. Body(f) = Body(v)
  <2>1. \A i \in 1..Len(s) : Made(s, f, i) = Made(s, v, i)
    BY <1>3, <1>6
  <2> QED
    BY <1>0, <2>1
<1> QED
  BY <1>1, <1>2, <1>4, <1>7

LEMMA ValuesStart == ASSUME Init PROVE InvValues
<1>1. Running = {} /\ \A c \in Memory : Writers(code, c) \cap finished = {}
  BY DEF Init, Running
<1> QED
  BY <1>1 DEF Init, InvValues, Contents

\* An instruction that starts finds in its cells what those before it put there:
\* the earlier writers are done, and no later one has been let past it.
LEMMA WritersAtStart ==
  ASSUME IsList(code), Paired(code), Plain(code), Ordered(code), InvIssue, InvFlags,
         NEW i \in 1..Len(code), i \notin started, Moves(code[i]), Issued(i),
         NEW c \in Cells(code[i].src)
  PROVE  Writers(code, c) \cap finished = {j \in Writers(code, c) : j < i}
<1> DEFINE going == started \cup {i}
<1>0. Len(code) \in Nat /\ DOMAIN code = 1..Len(code)
  BY Domains
<1>1. Lawful(going)
  <2>1. code[i].kind # "barrier"
    BY DEF Moves
  <2>2. \A j \in 1..Len(code) : code[j].kind = "set" => j + 1 # i
    BY <1>0 DEF PairedAt, Paired, Moves
  <2>3. Lawful(started)
    BY StartedLawful
  <2> QED
    BY <2>1, <2>2, <2>3 DEF Lawful
<1>2. ASSUME NEW j \in Writers(code, c)
      PROVE  /\ j \in 1..Len(code) /\ Moves(code[j])
             /\ Conflict(code[i], code[j]) /\ Conflict(code[j], code[i])
  <2>1. j \in 1..Len(code) /\ c \in Cells(code[j].dst)
    BY <1>0 DEF Writers
  <2>2. Moves(code[j])
    BY <2>1 DEF Plain
  <2> QED
    BY <2>1, <2>2 DEF Conflict
<1>3. ASSUME NEW j \in Writers(code, c), j < i PROVE j \in finished
  <2>1. Before(code, j, i)
    BY <1>2, <1>3 DEF Ordered
  <2> QED
    BY <1>1, <2>1, BeforeDone
<1>4. ASSUME NEW j \in Writers(code, c), j \in finished PROVE j < i
  <2>1. CASE i < j
    <3>1. Before(code, i, j)
      BY <1>2, <1>4, <2>1 DEF Ordered
    <3> QED
      BY <1>4, <3>1, StartedLawful, BeforeDone DEF InvIssue
  <2>2. i # j
    BY <1>4 DEF InvIssue
  <2> QED
    BY <1>0, <1>2, <2>1, <2>2
<1> QED
  BY <1>3, <1>4

\* An instruction that finishes is the last of the writers of its cells so far.
LEMMA WritersAtFinish ==
  ASSUME IsList(code), Paired(code), Plain(code), Ordered(code), InvIssue, InvFlags,
         NEW i \in 1..Len(code), i \in Running, NEW c \in Cells(code[i].dst),
         NEW j \in Writers(code, c) \cap (finished \cup {i})
  PROVE  j <= i
<1>0. Len(code) \in Nat /\ DOMAIN code = 1..Len(code)
  BY Domains
<1>1. j \in 1..Len(code) /\ c \in Cells(code[j].dst)
  BY <1>0 DEF Writers
<1>2. Conflict(code[i], code[j])
  BY <1>1 DEF Conflict, Plain
<1>3. CASE i < j
  <2>1. Before(code, i, j)
    BY <1>1, <1>2, <1>3 DEF Ordered
  <2>2. j \in finished /\ finished \subseteq started
    BY <1>0, <1>1, <1>3 DEF InvIssue
  <2> QED
    BY <2>1, <2>2, StartedLawful, BeforeDone DEF Running
<1> QED
  BY <1>0, <1>1, <1>3

LEMMA ValuesKept ==
  ASSUME IsList(code), Paired(code), Plain(code), Ordered(code),
         Annotated(code, InOrder(code)), InvIssue, InvFlags, InvValues, [Next]_vars
  PROVE  InvValues'
<1> DEFINE V == InOrder(code)
           C(c, W) == Contents(code, V, c, W)
<1>0. /\ Len(code) \in Nat /\ DOMAIN code = 1..Len(code)
      /\ finished \subseteq started /\ started \subseteq 1..Len(code)
  BY Domains DEF InvIssue
<1>1. ASSUME NEW i \in DOMAIN code, Start(i) PROVE InvValues'
  <2>1. /\ code' = code /\ mem' = mem /\ finished' = finished
        /\ started' = started \cup {i} /\ i \notin started /\ Moves(code[i]) /\ Issued(i)
        /\ operand' = [operand EXCEPT ![i] = [k \in DOMAIN code[i].src |-> mem[code[i].src[k]]]]
    BY <1>1 DEF Start
  <2>2. ASSUME NEW k \in DOMAIN code[i].src
        PROVE  mem[code[i].src[k]] = C(code[i].src[k], {j \in Writers(code, code[i].src[k]) : j < i})
    <3> DEFINE c == code[i].src[k]
    <3>1. c \in Cells(code[i].src) /\ c \in Memory
      BY DEF Cells, Memory
    <3>2. mem[c] = C(c, Writers(code, c) \cap finished)
      BY <3>1 DEF InvValues
    <3>3. Writers(code, c) \cap finished = {j \in Writers(code, c) : j < i}
      BY <1>0, <2>1, <3>1, WritersAtStart
    <3> QED
      BY <3>2, <3>3
  <2>3. [k \in DOMAIN code[i].src |-> mem[code[i].src[k]]] = Operands(code, V, i)
    BY <2>2 DEF Operands
  <2>4. operand'[i] = Operands(code, V, i) /\ DOMAIN operand' = DOMAIN code
    BY <2>1, <2>3 DEF InvValues
  <2>5. ASSUME NEW j \in Running' PROVE operand'[j] = Operands(code, V, j)
    <3>1. CASE j = i
      BY <2>4, <3>1
    <3>2. CASE j # i
      BY <1>0, <2>1, <2>5, <3>2 DEF InvValues, Running
    <3> QED
      BY <3>1, <3>2
  <2> QED
    BY <2>1, <2>4, <2>5 DEF InvValues, Memory
<1>2. ASSUME NEW i \in DOMAIN code, Finish(i) PROVE InvValues'
  <2>1. /\ code' = code /\ i \in Running /\ started' = started /\ finished' = finished \cup {i}
        /\ operand' = [operand EXCEPT ![i] = <<>>]
        /\ mem' = [c \in DOMAIN mem |->
             IF c \notin Cells(code[i].dst) THEN mem[c]
             ELSE IF c = code[i].dst[1] THEN Result(code[i], operand[i]) ELSE Scratch]
    BY <1>2 DEF Finish
  <2>2. Result(code[i], operand[i]) = V[i]
    <3>1. Moves(code[i]) /\ operand[i] = Operands(code, V, i)
      BY <2>1 DEF InvIssue, InvValues, Running
    <3>2. V[i] = Made(code, V, i)
      BY <1>0 DEF Annotated
    <3> QED
      BY <3>1, <3>2 DEF Made
  <2>3. ASSUME NEW c \in Memory PROVE mem'[c] = C(c, Writers(code, c) \cap finished')
    <3>1. c \in DOMAIN mem /\ mem[c] = C(c, Writers(code, c) \cap finished)
      BY DEF InvValues
    <3>2. CASE c \notin Cells(code[i].dst)
      <4>1. Writers(code, c) \cap finished' = Writers(code, c) \cap finished
        BY <2>1, <3>2 DEF Writers
      <4> QED
        BY <2>1, <3>1, <3>2, <4>1
    <3>3. CASE c \in Cells(code[i].dst)
      <4> DEFINE W == Writers(code, c) \cap finished'
      <4>1. W \in SUBSET (1..Len(code)) /\ i \in W
        BY <1>0, <2>1, <3>3 DEF Writers
      <4>2. \A j \in W : j <= i
        BY <1>0, <2>1, <3>3, WritersAtFinish
      <4>3. C(c, W) = IF c = code[i].dst[1] THEN V[i] ELSE Scratch
        <5> HIDE DEF W, V
        <5> QED
          BY <1>0, <4>1, <4>2, ContentsLast
      <4> QED
        BY <2>1, <2>2, <3>1, <3>3, <4>3
    <3> QED
      BY <3>2, <3>3
  <2>4. DOMAIN mem' = Memory /\ DOMAIN operand' = DOMAIN code /\ Memory' = Memory
    BY <2>1 DEF InvValues, Memory
  <2>5. \A j \in Running' : operand'[j] = Operands(code, V, j)
    BY <2>1 DEF InvValues, Running
  <2> QED
    BY <2>1, <2>3, <2>4, <2>5 DEF InvValues
<1>3. ASSUME NEW i \in DOMAIN code, Synchronise(i) PROVE InvValues'
  <2>1. /\ code' = code /\ mem' = mem /\ operand' = operand /\ ~Moves(code[i]) /\ i \notin started
        /\ started' = started \cup {i} /\ finished' = finished \cup {i}
    BY <1>3 DEF Synchronise
  <2>2. \A c : Writers(code, c) \cap finished' = Writers(code, c) \cap finished
    BY <1>0, <2>1 DEF Writers, Plain
  <2>3. Running' = Running /\ Memory' = Memory
    BY <1>0, <2>1 DEF Running, Memory
  <2> QED
    BY <2>1, <2>2, <2>3 DEF InvValues
<1>4. CASE UNCHANGED vars
  BY <1>4 DEF vars, InvValues, Running, Memory
<1> QED
  BY <1>1, <1>2, <1>3, <1>4 DEF Next

LEMMA ValuesEnd ==
  ASSUME IsList(code), InvValues, Delivers(code, InOrder(code), Promised(kernel))
  PROVE  StoresPromised
<1> SUFFICES ASSUME Ended, NEW r \in Promised(kernel) PROVE mem[r[1]] = r[2]
  BY DEF StoresPromised
<1>1. /\ Writers(code, r[1]) # {}
      /\ Contents(code, InOrder(code), r[1], Writers(code, r[1])) = r[2]
  BY DEF Delivers
<1>2. r[1] \in Memory
  BY <1>1 DEF Writers, Memory
<1>3. Writers(code, r[1]) \cap finished = Writers(code, r[1])
  BY DEF Ended, Writers
<1> QED
  BY <1>1, <1>2, <1>3 DEF InvValues

-----------------------------------------------------------------------------
(* Programs put together *)

LEMMA Cat ==
  ASSUME NEW s, NEW t, IsList(s), IsList(t)
  PROVE  /\ IsList(s \o t) /\ Len(s) \in Nat /\ Len(t) \in Nat
         /\ Len(s \o t) = Len(s) + Len(t)
         /\ \A i \in 1..Len(s) : (s \o t)[i] = s[i]
         /\ \A i \in 1..Len(t) : (s \o t)[Len(s) + i] = t[i]
<1>1. PICK S : s \in Seq(S)
  BY DEF IsList
<1>2. PICK U : t \in Seq(U)
  BY DEF IsList
<1>3. s \in Seq(S \cup U) /\ t \in Seq(S \cup U)
  BY <1>1, <1>2
<1> QED
  BY <1>3 DEF IsList

LEMMA SameList ==
  ASSUME NEW s, NEW t, IsList(s), IsList(t), Len(s) = Len(t), \A i \in 1..Len(s) : s[i] = t[i]
  PROVE  s = t
<1>1. PICK S : s \in Seq(S)
  BY DEF IsList
<1>2. PICK U : t \in Seq(U)
  BY DEF IsList
<1>3. s \in Seq(S \cup U) /\ t \in Seq(S \cup U)
  BY <1>1, <1>2
<1> QED
  BY <1>3, SeqEqual

LEMMA Joined ==
  ASSUME NEW s, NEW t, NEW u, IsList(s), IsList(t), IsList(u), Len(u) = Len(s) + Len(t),
         \A i \in 1..Len(s) : s[i] = u[i], \A i \in 1..Len(t) : t[i] = u[Len(s) + i]
  PROVE  s \o t = u
<1> DEFINE c == s \o t
<1>1. /\ IsList(c) /\ Len(s) \in Nat /\ Len(t) \in Nat
      /\ Len(c) = Len(s) + Len(t)
      /\ \A i \in 1..Len(s) : c[i] = s[i]
      /\ \A i \in 1..Len(t) : c[Len(s) + i] = t[i]
  BY Cat
<1> HIDE DEF c
<1>2. ASSUME NEW i \in 1..Len(c) PROVE c[i] = u[i]
  <2>1. CASE i \in 1..Len(s)
    BY <1>1, <2>1
  <2>2. CASE i \notin 1..Len(s)
    <3>1. i - Len(s) \in 1..Len(t) /\ Len(s) + (i - Len(s)) = i
      BY <1>1, <2>2
    <3>2. PICK j \in 1..Len(t) : i = Len(s) + j
      BY <3>1
    <3>3. c[Len(s) + j] = t[j]
      BY <1>1
    <3>4. t[j] = u[Len(s) + j]
      OBVIOUS
    <3> QED
      BY <3>2, <3>3, <3>4
  <2> QED
    BY <2>1, <2>2
<1>3. c = u
  BY <1>1, <1>2, SameList
<1> QED
  BY <1>3 DEF c

\* Entries a + 1 to b of u.
Slice(u, a, b) == [i \in 1..(b - a) |-> u[a + i]]

LEMMA SliceList ==
  ASSUME NEW u, NEW a \in Nat, NEW b \in Nat, a <= b
  PROVE  /\ IsList(Slice(u, a, b)) /\ Len(Slice(u, a, b)) = b - a
         /\ \A i \in 1..(b - a) : Slice(u, a, b)[i] = u[a + i]
<1> DEFINE X == {u[a + i] : i \in 1..(b - a)}
<1>1. b - a \in Nat /\ \A i \in 1..(b - a) : u[a + i] \in X
  OBVIOUS
<1>2. Slice(u, a, b) \in Seq(X) /\ Len(Slice(u, a, b)) = b - a
  <2> HIDE DEF X
  <2>1. Slice(u, a, b) \in [1..(b - a) -> X]
    BY <1>1 DEF Slice
  <2> QED
    BY <1>1, <2>1, LenProperties, IsASeq DEF Slice
<1> QED
  BY <1>2, Zenon DEF IsList, Slice

\* The provers take \o apart wherever they see it; under a name it stays whole.
Then(s, t) == s \o t

LEMMA Slices ==
  ASSUME NEW u, NEW a \in Nat, NEW b \in Nat, NEW c \in Nat, a <= b, b <= c
  PROVE  Then(Slice(u, a, b), Slice(u, b, c)) = Slice(u, a, c)
<1> DEFINE l == Slice(u, a, b)  r == Slice(u, b, c)  w == Slice(u, a, c)
<1>0. a <= c
  OBVIOUS
<1>1. /\ IsList(l) /\ Len(l) = b - a /\ \A i \in 1..(b - a) : l[i] = u[a + i]
      /\ IsList(r) /\ Len(r) = c - b /\ \A i \in 1..(c - b) : r[i] = u[b + i]
      /\ IsList(w) /\ Len(w) = c - a /\ \A i \in 1..(c - a) : w[i] = u[a + i]
  BY <1>0, SliceList
<1> HIDE DEF l, r, w
<1>2. Len(w) = Len(l) + Len(r)
  BY <1>1
<1>3. ASSUME NEW i \in 1..Len(l) PROVE l[i] = w[i]
  BY <1>1
<1>4. ASSUME NEW i \in 1..Len(r) PROVE r[i] = w[Len(l) + i]
  <2>1. i \in 1..(c - b) /\ (b - a) + i \in 1..(c - a) /\ a + ((b - a) + i) = b + i
    BY <1>1
  <2>2. r[i] = u[b + i] /\ w[(b - a) + i] = u[a + ((b - a) + i)]
    BY <1>1, <2>1
  <2> QED
    BY <1>1, <2>1, <2>2
<1>5. l \o r = w
  BY <1>1, <1>2, <1>3, <1>4, Joined
<1> QED
  BY <1>5 DEF l, r, w, Then


LEMMA ThenList ==
  ASSUME NEW s, NEW t, IsList(s), IsList(t)
  PROVE  /\ IsList(Then(s, t)) /\ Len(s) \in Nat /\ Len(t) \in Nat
         /\ Len(Then(s, t)) = Len(s) + Len(t)
         /\ \A i \in 1..Len(s) : i \in 1..Len(Then(s, t)) /\ Then(s, t)[i] = s[i]
         /\ \A i \in 1..Len(t) : Len(s) + i \in 1..Len(Then(s, t)) /\ Then(s, t)[Len(s) + i] = t[i]
         /\ \A i \in 1..Len(Then(s, t)) : i \in 1..Len(s) \/ \E j \in 1..Len(t) : i = Len(s) + j
<1> DEFINE c == s \o t
<1>1. /\ IsList(c) /\ Len(s) \in Nat /\ Len(t) \in Nat
      /\ Len(c) = Len(s) + Len(t)
      /\ \A i \in 1..Len(s) : c[i] = s[i]
      /\ \A i \in 1..Len(t) : c[Len(s) + i] = t[i]
  BY Cat
<1>2. Then(s, t) = c
  BY DEF Then
<1> HIDE DEF c
<1>3. ASSUME NEW i \in 1..Len(c) PROVE i \in 1..Len(s) \/ \E j \in 1..Len(t) : i = Len(s) + j
  <2>1. CASE i > Len(s)
    <3>1. i - Len(s) \in 1..Len(t) /\ i = Len(s) + (i - Len(s))
      BY <1>1, <2>1
    <3> QED
      BY <3>1
  <2> QED
    BY <1>1, <2>1
<1>4. /\ \A i \in 1..Len(s) : i \in 1..Len(c)
      /\ \A i \in 1..Len(t) : Len(s) + i \in 1..Len(c)
  BY <1>1
<1>5. \A i \in 1..Len(c) : i \in 1..Len(s) \/ \E j \in 1..Len(t) : i = Len(s) + j
  BY <1>3
<1> QED
  BY <1>1, <1>2, <1>4, <1>5

\* What holds before a part of a program also holds in the whole.
LEMMA BeforeInside ==
  ASSUME NEW s, NEW t, NEW n \in Nat, IsList(s), IsList(t), Paired(t), n + Len(t) <= Len(s),
         \A i \in 1..Len(t) : s[n + i] = t[i],
         NEW a, NEW b, Before(t, a, b)
  PROVE  Before(s, n + a, n + b)
<1>0. Len(s) \in Nat /\ Len(t) \in Nat /\ a \in 1..Len(t) /\ b \in 1..Len(t)
  BY Domains DEF Before
<1>1. \A i \in 1..Len(t) : n + i \in 1..Len(s) /\ s[n + i] = t[i]
  BY <1>0
<1>2. SUFFICES ASSUME NEW R \in SUBSET Pairs(s), Closed(s, R) PROVE <<n + a, n + b>> \in R
  BY <1>0, <1>1 DEF Before
<1> DEFINE Q == {ab \in Pairs(t) : <<n + ab[1], n + ab[2]>> \in R}
<1>3. \A i, j \in 1..Len(t) : <<i, j>> \in Q <=> <<n + i, n + j>> \in R
  BY DEF Pairs
<1>4. Q \in SUBSET Pairs(t)
  OBVIOUS
<1> HIDE DEF Q
<1>5. Closed(t, Q)
  <2>1. ASSUME NEW i \in 1..Len(t), NEW j \in 1..Len(t), i < j,
               \/ t[i].pipe = t[j].pipe /\ t[i].kind # "detached"
               \/ t[i].pipe = "S" \/ t[j].kind = "barrier"
        PROVE  <<i, j>> \in Q
    <3>1. n + i < n + j
      BY <1>0, <2>1
    <3>2. <<n + i, n + j>> \in R
      BY <1>1, <1>2, <2>1, <3>1 DEF Closed
    <3> QED
      BY <1>3, <3>2
  <2>2. ASSUME NEW i \in 1..Len(t), t[i].kind = "set" PROVE <<i, i + 1>> \in Q
    <3>1. i + 1 \in 1..Len(t) /\ n + (i + 1) = (n + i) + 1
      BY <1>0, <2>2 DEF PairedAt, Paired
    <3>2. <<n + i, (n + i) + 1>> \in R
      BY <1>1, <1>2, <2>2 DEF Closed
    <3> QED
      BY <1>3, <3>1, <3>2
  <2>3. ASSUME NEW i \in 1..Len(t), NEW j \in 1..Len(t), NEW l \in 1..Len(t),
               <<i, j>> \in Q, <<j, l>> \in Q
        PROVE  <<i, l>> \in Q
    BY <1>1, <1>2, <1>3, <2>3 DEF Closed
  <2> QED
    BY <2>1, <2>2, <2>3 DEF Closed
<1>6. <<a, b>> \in Q
  BY <1>0, <1>4, <1>5 DEF Before
<1> QED
  BY <1>0, <1>3, <1>6

IsFence(instr) == instr.kind = "barrier" /\ instr.pipe = "S"

\* A barrier divides the program.
LEMMA ByFence ==
  ASSUME NEW s, NEW a \in 1..Len(s), NEW b \in 1..Len(s), NEW c \in 1..Len(s),
         a < c, c < b, IsFence(s[c])
  PROVE  Before(s, a, b)
  BY DEF IsFence, Closed, Before

\* What cell c holds when instruction i is reached.
Holds(s, v, c, i) == Contents(s, v, c, {j \in Writers(s, c) : j < i})

LEMMA HoldsAtEnd ==
  ASSUME NEW s, NEW v, NEW c, IsList(s)
  PROVE  Holds(s, v, c, Len(s) + 1) = Contents(s, v, c, Writers(s, c))
<1>1. Len(s) \in Nat /\ \A j \in Writers(s, c) : j \in 1..Len(s)
  BY Domains DEF Writers
<1>2. {j \in Writers(s, c) : j < Len(s) + 1} = Writers(s, c)
  BY <1>1
<1> QED
  BY <1>2 DEF Holds

LEMMA HoldsInitial ==
  ASSUME NEW s, NEW v, NEW c, NEW i \in Nat, IsList(s), i <= Len(s) + 1,
         \A j \in 1..(i - 1) : c \notin Cells(s[j].dst)
  PROVE  Holds(s, v, c, i) = c
<1>1. Len(s) \in Nat /\ DOMAIN s = 1..Len(s)
  BY Domains
<1>2. {j \in Writers(s, c) : j < i} = {}
  BY <1>1 DEF Writers
<1> QED
  BY <1>2 DEF Holds, Contents

LEMMA HoldsWritten ==
  ASSUME NEW s, NEW v, NEW c, NEW i \in Nat, IsList(s), i <= Len(s) + 1,
         NEW w \in 1..(i - 1), c \in Cells(s[w].dst),
         \A j \in (w + 1)..(i - 1) : c \notin Cells(s[j].dst)
  PROVE  Holds(s, v, c, i) = IF c = s[w].dst[1] THEN v[w] ELSE Scratch
<1> DEFINE W == {j \in Writers(s, c) : j < i}
<1>1. Len(s) \in Nat /\ DOMAIN s = 1..Len(s)
  BY Domains
<1>2. W \in SUBSET (1..Len(s)) /\ w \in W
  BY <1>1 DEF Writers
<1>3. \A j \in W : j <= w
  BY <1>1 DEF Writers
<1> HIDE DEF W
<1>4. Contents(s, v, c, W) = IF c = s[w].dst[1] THEN v[w] ELSE Scratch
  BY <1>1, <1>2, <1>3, ContentsLast
<1> QED
  BY <1>4 DEF Holds, W

\* The value is that of the last writer before i.
LEMMA HoldsLast ==
  ASSUME NEW s, NEW c, NEW i \in Nat, IsList(s), i <= Len(s) + 1,
         NEW x \in 1..(i - 1), c \in Cells(s[x].dst)
  PROVE  \E w \in 1..(i - 1) : /\ c \in Cells(s[w].dst)
                               /\ \A j \in (w + 1)..(i - 1) : c \notin Cells(s[j].dst)
<1> DEFINE W == {j \in 1..(i - 1) : c \in Cells(s[j].dst)}
<1>1. Len(s) \in Nat /\ i - 1 \in Nat
  BY Domains
<1>2. W \in SUBSET (1..(i - 1)) /\ W # {}
  OBVIOUS
<1>3. Latest(W) \in W /\ \A l \in W : l <= Latest(W)
  <2> HIDE DEF W
  <2> QED
    BY <1>1, <1>2, LastIn
<1> DEFINE w == Latest(W)
<1>4. w \in 1..(i - 1) /\ c \in Cells(s[w].dst) /\ \A l \in W : l <= w
  BY <1>3
<1> HIDE DEF w
<1>5. \A j \in (w + 1)..(i - 1) : c \notin Cells(s[j].dst)
  <2>1. SUFFICES ASSUME NEW j \in (w + 1)..(i - 1), c \in Cells(s[j].dst) PROVE FALSE
    OBVIOUS
  <2>2. j \in 1..(i - 1)
    BY <1>1, <1>4
  <2>3. j \in W
    BY <2>1, <2>2
  <2> QED
    BY <1>1, <1>4, <2>3
<1> QED
  BY <1>4, <1>5

\* Programs s and t end to end, and the values they make.
Matches(s, v) == IsList(s) /\ IsList(v) /\ Len(v) = Len(s)

LEMMA ThenHolds ==
  ASSUME NEW s, NEW t, NEW v, NEW u, Matches(s, v), Matches(t, u), NEW c
  PROVE  /\ \A i \in 1..(Len(s) + 1) : Holds(Then(s, t), Then(v, u), c, i) = Holds(s, v, c, i)
         /\ \A i \in 1..(Len(t) + 1) :
              IF \E j \in 1..(i - 1) : c \in Cells(t[j].dst)
              THEN Holds(Then(s, t), Then(v, u), c, Len(s) + i) = Holds(t, u, c, i)
              ELSE Holds(Then(s, t), Then(v, u), c, Len(s) + i) = Holds(s, v, c, Len(s) + 1)
<1> DEFINE S == Then(s, t)
           V == Then(v, u)
           n == Len(s)
<1>0. IsList(s) /\ IsList(t) /\ IsList(v) /\ IsList(u) /\ Len(v) = n /\ Len(u) = Len(t)
  BY DEF Matches
<1>1. /\ IsList(S) /\ n \in Nat /\ Len(t) \in Nat /\ Len(S) = n + Len(t)
      /\ \A i \in 1..n : S[i] = s[i]
      /\ \A i \in 1..Len(t) : S[n + i] = t[i]
  BY <1>0, ThenList
<1>2. /\ \A i \in 1..n : V[i] = v[i]
      /\ \A i \in 1..Len(t) : V[n + i] = u[i]
  BY <1>0, ThenList
<1> HIDE DEF S, V, n
<1>3. ASSUME NEW i \in 1..(n + 1) PROVE Holds(S, V, c, i) = Holds(s, v, c, i)
  <2>0. i \in Nat /\ i <= Len(S) + 1 /\ i <= Len(s) + 1
    BY <1>1 DEF n
  <2>1. CASE \E x \in 1..(i - 1) : c \in Cells(s[x].dst)
    <3>1. PICK x \in 1..(i - 1) : c \in Cells(s[x].dst)
      BY <2>1
    <3>2. PICK w \in 1..(i - 1) : /\ c \in Cells(s[w].dst)
                                  /\ \A j \in (w + 1)..(i - 1) : c \notin Cells(s[j].dst)
      BY <1>0, <2>0, <3>1, HoldsLast
    <3>3. /\ c \in Cells(S[w].dst) /\ S[w] = s[w] /\ V[w] = v[w]
          /\ \A j \in (w + 1)..(i - 1) : c \notin Cells(S[j].dst)
      BY <1>1, <1>2, <3>2
    <3>4. Holds(s, v, c, i) = IF c = s[w].dst[1] THEN v[w] ELSE Scratch
      BY <1>0, <2>0, <3>2, HoldsWritten
    <3>5. Holds(S, V, c, i) = IF c = S[w].dst[1] THEN V[w] ELSE Scratch
      BY <1>1, <2>0, <3>3, HoldsWritten
    <3> QED
      BY <3>3, <3>4, <3>5
  <2>2. CASE ~ \E x \in 1..(i - 1) : c \in Cells(s[x].dst)
    <3>1. \A j \in 1..(i - 1) : c \notin Cells(S[j].dst)
      BY <1>1, <2>2
    <3>2. Holds(s, v, c, i) = c
      BY <1>0, <2>0, <2>2, HoldsInitial
    <3>3. Holds(S, V, c, i) = c
      BY <1>1, <2>0, <3>1, HoldsInitial
    <3> QED
      BY <3>2, <3>3
  <2> QED
    BY <2>1, <2>2
<1>4. ASSUME NEW i \in 1..(Len(t) + 1), NEW x \in 1..(i - 1), c \in Cells(t[x].dst)
      PROVE  Holds(S, V, c, n + i) = Holds(t, u, c, i)
  <2>0. /\ i \in Nat /\ n + i \in Nat /\ n + i <= Len(S) + 1 /\ i <= Len(t) + 1
    BY <1>1
  <2>1. PICK w \in 1..(i - 1) : /\ c \in Cells(t[w].dst)
                                /\ \A j \in (w + 1)..(i - 1) : c \notin Cells(t[j].dst)
    BY <1>0, <1>4, <2>0, HoldsLast
  <2> DEFINE p == n + w
             q == n + i
  <2>2. w \in 1..Len(t) /\ p \in 1..(q - 1) /\ q \in Nat /\ q <= Len(S) + 1
    BY <1>1
  <2>3. S[p] = t[w] /\ V[p] = u[w]
    BY <1>1, <1>2, <2>2
  <2>4. ASSUME NEW j \in (p + 1)..(q - 1) PROVE c \notin Cells(S[j].dst)
    <3>1. j - n \in (w + 1)..(i - 1) /\ j - n \in 1..Len(t) /\ n + (j - n) = j
      BY <1>1
    <3> QED
      BY <1>1, <2>1, <3>1
  <2> HIDE DEF p, q
  <2>5. Holds(t, u, c, i) = IF c = t[w].dst[1] THEN u[w] ELSE Scratch
    BY <1>0, <2>0, <2>1, HoldsWritten
  <2>6. Holds(S, V, c, q) = IF c = S[p].dst[1] THEN V[p] ELSE Scratch
    <3>1. c \in Cells(S[p].dst) /\ IsList(S)
      BY <1>1, <2>1, <2>3
    <3>2. \A j \in (p + 1)..(q - 1) : c \notin Cells(S[j].dst)
      BY <2>4
    <3> QED
      BY <2>2, <3>1, <3>2, HoldsWritten
  <2> QED
    BY <2>3, <2>5, <2>6 DEF q
<1>5. ASSUME NEW i \in 1..(Len(t) + 1), \A j \in 1..(i - 1) : c \notin Cells(t[j].dst)
      PROVE  Holds(S, V, c, n + i) = Holds(s, v, c, n + 1)
  <2>1. ASSUME NEW j \in Writers(S, c), j < n + i PROVE j < n + 1
    <3>1. j \in 1..Len(S) /\ c \in Cells(S[j].dst)
      BY <1>1, Domains DEF Writers
    <3>2. CASE j > n
      <4>1. j - n \in 1..(i - 1) /\ j - n \in 1..Len(t) /\ n + (j - n) = j
        BY <1>1, <2>1, <3>1, <3>2
      <4> QED
        BY <1>1, <1>5, <3>1, <4>1
    <3> QED
      BY <1>1, <3>1, <3>2
  <2>2. {j \in Writers(S, c) : j < n + i} = {j \in Writers(S, c) : j < n + 1}
    <3>1. \A j \in Writers(S, c) : j \in Int
      BY <1>1, Domains DEF Writers
    <3> QED
      BY <1>1, <2>1, <3>1
  <2>3. Holds(S, V, c, n + 1) = Holds(s, v, c, n + 1)
    BY <1>1, <1>3
  <2> QED
    BY <2>2, <2>3 DEF Holds
<1> QED
  BY <1>3, <1>4, <1>5 DEF S, V, n

Sound(s) == IsList(s) /\ Paired(s)
Tidy(s)  == Plain(s) /\ Ordered(s)

\* Program s makes what is promised of it.
Makes(s, promised) == Tidy(s) /\ \E v : Annotated(s, v) /\ Delivers(s, v, promised)

Untouched(s, c) == \A j \in 1..Len(s) : c \notin Cells(s[j].dst)

\* What t reads it has written itself or s has left alone.
Fresh(s, t) ==
  \A i \in 1..Len(t) : \A c \in Cells(t[i].src) :
    (\E j \in 1..(i - 1) : c \in Cells(t[j].dst)) \/ Untouched(s, c)

\* A barrier ahead of, or behind, all that moves.
Headed(s) == \A b \in 1..Len(s) : Moves(s[b]) => \E c \in 1..Len(s) : c < b /\ IsFence(s[c])
Tailed(s) == \A a \in 1..Len(s) : Moves(s[a]) => \E c \in 1..Len(s) : a < c /\ IsFence(s[c])

LEMMA ThenSound ==
  ASSUME NEW s, NEW t, Sound(s), Sound(t) PROVE Sound(Then(s, t))
<1> DEFINE S == Then(s, t)
           n == Len(s)
<1>1. /\ IsList(S) /\ n \in Nat /\ Len(t) \in Nat /\ Len(S) = n + Len(t)
      /\ \A i \in 1..n : S[i] = s[i]
      /\ \A i \in 1..Len(t) : S[n + i] = t[i]
      /\ \A i \in 1..Len(S) : i \in 1..n \/ \E j \in 1..Len(t) : i = n + j
  BY ThenList DEF Sound
<1>2. Paired(s) /\ Paired(t)
  BY DEF Sound
<1> HIDE DEF S
<1>3. ASSUME NEW i \in 1..n PROVE PairedAt(S, i)
  <2>1. \A j \in 1..n : S[j] = s[j] /\ j \in 1..Len(S)
    BY <1>1
  <2> QED
    BY <1>2, <2>1 DEF PairedAt, Paired
<1>4. ASSUME NEW j \in 1..Len(t) PROVE PairedAt(S, n + j)
  <2>1. S[n + j] = t[j] /\ (n + j) + 1 = n + (j + 1) /\ (n + j) - 1 = n + (j - 1)
    BY <1>1
  <2>2. \A l \in 1..Len(t) : S[n + l] = t[l] /\ n + l \in 1..Len(S)
    BY <1>1
  <2>3. PairedAt(t, j)
    BY <1>2 DEF Paired
  <2> QED
    BY <2>1, <2>2, <2>3 DEF PairedAt
<1>5. Paired(S)
  <2>1. SUFFICES ASSUME NEW i \in 1..Len(S) PROVE PairedAt(S, i)
    BY DEF Paired
  <2> QED
    BY <1>1, <1>3, <1>4
<1> QED
  BY <1>1, <1>5 DEF Sound, S

LEMMA ThenTidy ==
  ASSUME NEW s, NEW t, Sound(s), Sound(t), Tidy(s), Tidy(t), Tailed(s) \/ Headed(t)
  PROVE  Tidy(Then(s, t))
<1> DEFINE S == Then(s, t)
           n == Len(s)
<1>1. /\ IsList(S) /\ n \in Nat /\ Len(t) \in Nat /\ Len(S) = n + Len(t)
      /\ \A i \in 1..n : i \in 1..Len(S) /\ S[i] = s[i]
      /\ \A i \in 1..Len(t) : n + i \in 1..Len(S) /\ S[n + i] = t[i]
      /\ \A i \in 1..Len(S) : i \in 1..n \/ \E j \in 1..Len(t) : i = n + j
  BY ThenList DEF Sound
<1>2. IsList(s) /\ IsList(t) /\ Paired(s) /\ Paired(t) /\ Plain(s) /\ Plain(t) /\ Ordered(s) /\ Ordered(t)
  BY DEF Sound, Tidy
<1> HIDE DEF S, n
<1>3. Plain(S)
  BY <1>1, <1>2 DEF Plain, n
<1>4. ASSUME NEW a \in 1..n, NEW b \in 1..n, a < b, Conflict(S[a], S[b]) PROVE Before(S, a, b)
  <2>1. Before(s, a, b)
    BY <1>1, <1>2, <1>4 DEF Ordered, n
  <2>2. 0 + Len(s) <= Len(S) /\ \A i \in 1..Len(s) : S[0 + i] = s[i]
    BY <1>1 DEF n
  <2>3. Before(S, 0 + a, 0 + b)
    BY <1>1, <1>2, <2>1, <2>2, BeforeInside
  <2>4. 0 + a = a /\ 0 + b = b
    BY <1>1
  <2> QED
    BY <2>3, <2>4
<1>5. ASSUME NEW a \in 1..Len(t), NEW b \in 1..Len(t), n + a < n + b, Conflict(S[n + a], S[n + b])
      PROVE  Before(S, n + a, n + b)
  <2>1. a < b /\ S[n + a] = t[a] /\ S[n + b] = t[b]
    BY <1>1, <1>5
  <2>2. Before(t, a, b)
    BY <1>2, <1>5, <2>1 DEF Ordered
  <2>3. n + Len(t) <= Len(S) /\ \A i \in 1..Len(t) : S[n + i] = t[i]
    BY <1>1
  <2> QED
    BY <1>1, <1>2, <2>2, <2>3, BeforeInside
<1>6. ASSUME NEW a \in 1..n, NEW b \in 1..Len(t), Conflict(S[a], S[n + b]) PROVE Before(S, a, n + b)
  <2>1. S[a] = s[a] /\ S[n + b] = t[b] /\ Moves(s[a]) /\ Moves(t[b]) /\ a \in 1..Len(S) /\ n + b \in 1..Len(S)
    BY <1>1, <1>6 DEF Conflict
  <2>2. CASE Tailed(s)
    <3>1. PICK c \in 1..n : a < c /\ IsFence(s[c])
      BY <2>1, <2>2 DEF Tailed, n
    <3>2. c \in 1..Len(S) /\ IsFence(S[c]) /\ c < n + b
      BY <1>1, <3>1
    <3> QED
      BY <1>1, <2>1, <3>1, <3>2, ByFence
  <2>3. CASE Headed(t)
    <3>1. PICK c \in 1..Len(t) : c < b /\ IsFence(t[c])
      BY <2>1, <2>3 DEF Headed
    <3>2. n + c \in 1..Len(S) /\ IsFence(S[n + c]) /\ a < n + c /\ n + c < n + b
      BY <1>1, <3>1
    <3> QED
      BY <1>1, <2>1, <3>2, ByFence
  <2> QED
    BY <2>2, <2>3
<1>7. Ordered(S)
  <2>1. SUFFICES ASSUME NEW a \in 1..Len(S), NEW b \in 1..Len(S), a < b, Conflict(S[a], S[b])
                 PROVE  Before(S, a, b)
    BY DEF Ordered
  <2>2. CASE b \in 1..n
    <3>1. a \in 1..n
      BY <1>1, <2>1, <2>2
    <3> QED
      BY <1>4, <2>1, <2>2, <3>1
  <2>3. CASE b \notin 1..n
    <3>1. PICK j \in 1..Len(t) : b = n + j
      BY <1>1, <2>3
    <3>2. CASE a \in 1..n
      BY <1>6, <2>1, <3>1, <3>2
    <3>3. CASE a \notin 1..n
      <4>1. PICK i \in 1..Len(t) : a = n + i
        BY <1>1, <3>3
      <4> QED
        BY <1>5, <2>1, <3>1, <4>1
    <3> QED
      BY <3>2, <3>3
  <2> QED
    BY <2>2, <2>3
<1> QED
  BY <1>3, <1>7 DEF Tidy, S

LEMMA SameMade ==
  ASSUME NEW s, NEW v, NEW i, NEW t, NEW u, NEW j, s[i] = t[j],
         \A c \in Cells(s[i].src) : Holds(s, v, c, i) = Holds(t, u, c, j)
  PROVE  Made(s, v, i) = Made(t, u, j)
<1>1. \A k \in DOMAIN s[i].src : Holds(s, v, s[i].src[k], i) = Holds(t, u, t[j].src[k], j)
  BY DEF Cells
<1>2. Operands(s, v, i) = Operands(t, u, j)
  BY <1>1 DEF Operands, Holds
<1> QED
  BY <1>2 DEF Made

LEMMA ThenAnnotated ==
  ASSUME NEW s, NEW t, NEW v, NEW u, IsList(s), IsList(t), Annotated(s, v), Annotated(t, u), Fresh(s, t)
  PROVE  Annotated(Then(s, t), Then(v, u))
<1> DEFINE S == Then(s, t)
           V == Then(v, u)
           n == Len(s)
<1>0. Matches(s, v) /\ Matches(t, u) /\ IsList(v) /\ IsList(u) /\ Len(v) = n /\ Len(u) = Len(t)
  BY DEF Annotated, Matches
<1>1. /\ IsList(S) /\ n \in Nat /\ Len(t) \in Nat /\ Len(S) = n + Len(t)
      /\ \A i \in 1..n : S[i] = s[i]
      /\ \A i \in 1..Len(t) : S[n + i] = t[i]
      /\ \A i \in 1..Len(S) : i \in 1..n \/ \E j \in 1..Len(t) : i = n + j
  BY ThenList
<1>2. /\ IsList(V) /\ Len(V) = n + Len(t)
      /\ \A i \in 1..n : V[i] = v[i]
      /\ \A i \in 1..Len(t) : V[n + i] = u[i]
  BY <1>0, ThenList
<1>3. /\ \A c : \A i \in 1..(n + 1) : Holds(S, V, c, i) = Holds(s, v, c, i)
      /\ \A c : \A i \in 1..(Len(t) + 1) :
           IF \E j \in 1..(i - 1) : c \in Cells(t[j].dst)
           THEN Holds(S, V, c, n + i) = Holds(t, u, c, i)
           ELSE Holds(S, V, c, n + i) = Holds(s, v, c, n + 1)
  <2> HIDE DEF S, V, n
  <2>1. SUFFICES ASSUME NEW c
        PROVE  /\ \A i \in 1..(n + 1) : Holds(S, V, c, i) = Holds(s, v, c, i)
               /\ \A i \in 1..(Len(t) + 1) :
                    IF \E j \in 1..(i - 1) : c \in Cells(t[j].dst)
                    THEN Holds(S, V, c, n + i) = Holds(t, u, c, i)
                    ELSE Holds(S, V, c, n + i) = Holds(s, v, c, n + 1)
    OBVIOUS
  <2> QED
    BY <1>0, ThenHolds DEF S, V, n
<1>4. /\ \A i \in 1..n : v[i] = Made(s, v, i)
      /\ \A i \in 1..Len(t) : u[i] = Made(t, u, i)
  BY DEF Annotated
<1> HIDE DEF S, V
<1>5. ASSUME NEW i \in 1..n PROVE V[i] = Made(S, V, i)
  <2>1. \A c \in Cells(S[i].src) : Holds(S, V, c, i) = Holds(s, v, c, i)
    BY <1>1, <1>3
  <2>2. Made(S, V, i) = Made(s, v, i)
    BY <1>1, <2>1, SameMade
  <2> QED
    BY <1>2, <1>4, <2>2
<1>6. ASSUME NEW i \in 1..Len(t) PROVE V[n + i] = Made(S, V, n + i)
  <2>1. ASSUME NEW c \in Cells(t[i].src) PROVE Holds(S, V, c, n + i) = Holds(t, u, c, i)
    <3>0. i \in 1..(Len(t) + 1)
      BY <1>1
    <3>1. CASE \E j \in 1..(i - 1) : c \in Cells(t[j].dst)
      BY <1>3, <3>0, <3>1
    <3>2. CASE ~ \E j \in 1..(i - 1) : c \in Cells(t[j].dst)
      <4>1. Untouched(s, c)
        BY <3>2 DEF Fresh
      <4>2. Holds(S, V, c, n + i) = Holds(s, v, c, n + 1)
        BY <1>3, <3>0, <3>2
      <4>3. \A j \in 1..((n + 1) - 1) : c \notin Cells(s[j].dst)
        BY <1>1, <4>1 DEF Untouched
      <4>4. Holds(s, v, c, n + 1) = c
        <5>1. n + 1 \in Nat /\ n + 1 <= Len(s) + 1
          BY <1>1
        <5> HIDE DEF n
        <5> QED
          BY <4>3, <5>1, HoldsInitial
      <4>5. Holds(t, u, c, i) = c
        <5>1. i \in Nat /\ i <= Len(t) + 1
          BY <1>1
        <5> QED
          BY <3>2, <5>1, HoldsInitial
      <4> QED
        BY <4>2, <4>4, <4>5
    <3> QED
      BY <3>1, <3>2
  <2> DEFINE p == n + i
  <2>2. S[p] = t[i] /\ V[p] = u[i]
    BY <1>1, <1>2
  <2>3. \A c \in Cells(S[p].src) : Holds(S, V, c, p) = Holds(t, u, c, i)
    BY <2>1, <2>2
  <2> HIDE DEF p
  <2>4. Made(S, V, p) = Made(t, u, i)
    BY <2>2, <2>3, SameMade
  <2> QED
    BY <1>4, <2>2, <2>4 DEF p
<1>7. \A i \in 1..Len(S) : V[i] = Made(S, V, i)
  BY <1>1, <1>5, <1>6
<1> QED
  BY <1>1, <1>2, <1>7 DEF Annotated, S, V

LEMMA ThenDelivers ==
  ASSUME NEW s, NEW t, NEW v, NEW u, Matches(s, v), Matches(t, u), NEW P, NEW Q,
         Delivers(s, v, P), Delivers(t, u, Q), \A r \in P : Untouched(t, r[1])
  PROVE  Delivers(Then(s, t), Then(v, u), P \cup Q)
<1> DEFINE S == Then(s, t)
           V == Then(v, u)
           n == Len(s)
<1>1. /\ IsList(S) /\ n \in Nat /\ Len(t) \in Nat /\ Len(S) = n + Len(t)
      /\ \A i \in 1..n : i \in 1..Len(S) /\ S[i] = s[i]
      /\ \A i \in 1..Len(t) : n + i \in 1..Len(S) /\ S[n + i] = t[i]
      /\ DOMAIN S = 1..Len(S) /\ DOMAIN s = 1..n /\ DOMAIN t = 1..Len(t)
  BY ThenList, Domains DEF Matches
<1>2. \A c : LET l == Len(t) + 1 IN
           IF \E j \in 1..(l - 1) : c \in Cells(t[j].dst)
           THEN Holds(S, V, c, n + l) = Holds(t, u, c, l)
           ELSE Holds(S, V, c, n + l) = Holds(s, v, c, n + 1)
  <2>1. Len(t) + 1 \in 1..(Len(t) + 1)
    BY <1>1
  <2> HIDE DEF S, V, n
  <2>2. SUFFICES ASSUME NEW c
        PROVE  IF \E j \in 1..((Len(t) + 1) - 1) : c \in Cells(t[j].dst)
               THEN Holds(S, V, c, n + (Len(t) + 1)) = Holds(t, u, c, Len(t) + 1)
               ELSE Holds(S, V, c, n + (Len(t) + 1)) = Holds(s, v, c, n + 1)
    OBVIOUS
  <2>3. \A i \in 1..(Len(t) + 1) :
          IF \E j \in 1..(i - 1) : c \in Cells(t[j].dst)
          THEN Holds(S, V, c, n + i) = Holds(t, u, c, i)
          ELSE Holds(S, V, c, n + i) = Holds(s, v, c, n + 1)
    BY ThenHolds DEF S, V, n
  <2> QED
    BY <2>1, <2>3, Zenon
<1>3. /\ \A c : Holds(S, V, c, n + (Len(t) + 1)) = Contents(S, V, c, Writers(S, c))
      /\ \A c : Holds(s, v, c, n + 1) = Contents(s, v, c, Writers(s, c))
      /\ \A c : Holds(t, u, c, Len(t) + 1) = Contents(t, u, c, Writers(t, c))
  <2>1. n + (Len(t) + 1) = Len(S) + 1 /\ IsList(S) /\ IsList(s) /\ IsList(t)
    BY <1>1 DEF Matches
  <2> HIDE DEF S, V
  <2>2. \A c : Holds(S, V, c, Len(S) + 1) = Contents(S, V, c, Writers(S, c))
    BY <2>1, HoldsAtEnd
  <2>3. \A c : Holds(s, v, c, Len(s) + 1) = Contents(s, v, c, Writers(s, c))
    BY <2>1, HoldsAtEnd
  <2>4. \A c : Holds(t, u, c, Len(t) + 1) = Contents(t, u, c, Writers(t, c))
    BY <2>1, HoldsAtEnd
  <2> QED
    BY <2>1, <2>2, <2>3, <2>4
<1> HIDE DEF S, V
<1>4. ASSUME NEW r \in P PROVE Writers(S, r[1]) # {} /\ Contents(S, V, r[1], Writers(S, r[1])) = r[2]
  <2>1. /\ Writers(s, r[1]) # {} /\ Contents(s, v, r[1], Writers(s, r[1])) = r[2]
        /\ Untouched(t, r[1])
    BY DEF Delivers
  <2>2. Writers(S, r[1]) # {}
    BY <1>1, <2>1 DEF Writers
  <2>3. ~ \E j \in 1..((Len(t) + 1) - 1) : r[1] \in Cells(t[j].dst)
    BY <1>1, <2>1 DEF Untouched
  <2>4. Holds(S, V, r[1], n + (Len(t) + 1)) = Holds(s, v, r[1], n + 1)
    BY <1>2, <2>3
  <2> QED
    BY <1>3, <2>1, <2>2, <2>4
<1>5. ASSUME NEW r \in Q PROVE Writers(S, r[1]) # {} /\ Contents(S, V, r[1], Writers(S, r[1])) = r[2]
  <2>1. Writers(t, r[1]) # {} /\ Contents(t, u, r[1], Writers(t, r[1])) = r[2]
    BY DEF Delivers
  <2>2. PICK j \in 1..Len(t) : r[1] \in Cells(t[j].dst)
    BY <1>1, <2>1 DEF Writers
  <2>3. Writers(S, r[1]) # {}
    BY <1>1, <2>2 DEF Writers
  <2>4. \E l \in 1..((Len(t) + 1) - 1) : r[1] \in Cells(t[l].dst)
    BY <1>1, <2>2
  <2>5. Holds(S, V, r[1], n + (Len(t) + 1)) = Holds(t, u, r[1], Len(t) + 1)
    BY <1>2, <2>4
  <2> QED
    BY <1>3, <2>1, <2>3, <2>5
<1> QED
  BY <1>4, <1>5 DEF Delivers, S, V

-----------------------------------------------------------------------------
(* Loops *)

LEMMA SetInduction ==
  ASSUME NEW S, 0 \in S, \A n \in Nat : n \in S => n + 1 \in S
  PROVE  Nat \subseteq S
<1>1. SUFFICES ASSUME Nat \ S # {} PROVE FALSE
  OBVIOUS
<1>2. PICK x \in Nat \ S : \A y \in Nat \ S : x <= y
  BY <1>1, Least
<1>3. x - 1 \in Nat /\ ~ (x <= x - 1)
  BY <1>2
<1>4. x - 1 \in S
  BY <1>2, <1>3
<1>5. (x - 1) + 1 = x
  OBVIOUS
<1> QED
  BY <1>3, <1>4, <1>5

\* What is so far put together of n programs.
PrefixesOf(b, n, f) ==
  /\ f = [i \in 1..n |-> f[i]]
  /\ \A i \in 1..n : f[i] = IF i = 1 THEN b[i] ELSE Then(f[i - 1], b[i])

LEMMA PrefixesExist ==
  ASSUME NEW b, NEW n \in Nat PROVE \E f : PrefixesOf(b, n, f)
<1> DEFINE Good == {m \in Nat : \E f : PrefixesOf(b, m, f)}
<1>1. 0 \in Good
  <2>1. PrefixesOf(b, 0, [i \in 1..0 |-> <<>>])
    BY DEF PrefixesOf
  <2> QED
    BY <2>1
<1>2. ASSUME NEW m \in Nat, m \in Good PROVE m + 1 \in Good
  <2>1. PICK f : PrefixesOf(b, m, f)
    BY <1>2
  <2> DEFINE g == [i \in 1..(m + 1) |->
                     IF i \in 1..m THEN f[i] ELSE IF m = 0 THEN b[i] ELSE Then(f[m], b[i])]
  <2>2. g = [i \in 1..(m + 1) |-> g[i]]
    OBVIOUS
  <2>3. /\ \A i \in 1..m : g[i] = f[i]
        /\ g[m + 1] = IF m = 0 THEN b[m + 1] ELSE Then(f[m], b[m + 1])
    OBVIOUS
  <2> HIDE DEF g
  <2>4. ASSUME NEW i \in 1..(m + 1) PROVE g[i] = IF i = 1 THEN b[i] ELSE Then(g[i - 1], b[i])
    <3>1. CASE i \in 1..m
      <4>1. f[i] = IF i = 1 THEN b[i] ELSE Then(f[i - 1], b[i])
        BY <2>1, <3>1 DEF PrefixesOf
      <4>2. i # 1 => i - 1 \in 1..m
        BY <3>1
      <4> QED
        BY <2>3, <3>1, <4>1, <4>2
    <3>2. CASE i \notin 1..m
      <4>1. i = m + 1 /\ i - 1 = m /\ (i # 1 => m # 0 /\ m \in 1..m) /\ (i = 1 => m = 0)
        BY <3>2
      <4> QED
        BY <2>3, <4>1
    <3> QED
      BY <3>1, <3>2
  <2>5. PrefixesOf(b, m + 1, g)
    BY <2>2, <2>4 DEF PrefixesOf
  <2> QED
    BY <2>5
<1> HIDE DEF Good
<1>3. n \in Good
  BY <1>1, <1>2, SetInduction
<1> QED
  BY <1>3 DEF Good

LEMMA Unrolled ==
  ASSUME NEW b, NEW n \in Nat \ {0}
  PROVE  \E f : PrefixesOf(b, n, f) /\ FlattenSeq([i \in 1..n |-> b[i]]) = f[n]
<1> DEFINE q       == [i \in 1..n |-> b[i]]
           Body(g) == [i \in 1..n |-> IF i = 1 THEN q[i] ELSE g[i - 1] \o q[i]]
           flat    == CHOOSE g : g = Body(g)
<1>1. PICK f : PrefixesOf(b, n, f)
  BY PrefixesExist
<1>2. f = Body(f)
  BY <1>1 DEF PrefixesOf, Then
<1>3. flat = Body(flat)
  <2> HIDE DEF Body
  <2> QED
    BY <1>2
<1>4. q \in Seq({b[i] : i \in 1..n}) /\ Len(q) = n /\ q # <<>>
  OBVIOUS
<1>5. FlattenSeq(q) = flat[n]
  BY <1>4 DEF FlattenSeq
<1>6. PrefixesOf(b, n, flat)
  <2>1. ASSUME NEW g, g = Body(g) PROVE PrefixesOf(b, n, g)
    <3>1. \A i \in 1..n : g[i] = Body(g)[i]
      BY <2>1
    <3>2. g = [i \in 1..n |-> g[i]]
      BY <2>1
    <3>3. \A i \in 1..n : g[i] = IF i = 1 THEN b[i] ELSE g[i - 1] \o b[i]
      BY <3>1
    <3> QED
      BY <3>2, <3>3 DEF PrefixesOf, Then
  <2> HIDE DEF flat, Body
  <2> QED
    BY <1>3, <2>1
<1> QED
  BY <1>5, <1>6

\* Programs b[1] to b[n] that can follow each other: what they make is u and P.
Loopable(b, u, P, n) ==
  /\ \A i \in 1..n : /\ Sound(b[i]) /\ Tidy(b[i])
                     /\ Annotated(b[i], u[i]) /\ Delivers(b[i], u[i], P[i])
  /\ (\A i \in 1..n : Headed(b[i])) \/ (\A i \in 1..n : Tailed(b[i]))
  /\ \A i, j \in 1..n : i < j => Fresh(b[i], b[j]) /\ \A r \in P[i] : Untouched(b[j], r[1])

\* s is the first m of them put together.
Reached(b, P, n, m, s) ==
  /\ Sound(s) /\ Tidy(s)
  /\ \E v : Annotated(s, v) /\ Delivers(s, v, UNION {P[i] : i \in 1..m})
  /\ (\A i \in 1..n : Tailed(b[i])) => Tailed(s)
  /\ \A c : (\A i \in 1..m : Untouched(b[i], c)) => Untouched(s, c)

LEMMA OneMore ==
  ASSUME NEW b, NEW u, NEW P, NEW n \in Nat, Loopable(b, u, P, n),
         NEW m \in Nat, m + 1 \in 1..n, NEW s, Reached(b, P, n, m, s)
  PROVE  Reached(b, P, n, m + 1, Then(s, b[m + 1]))
<1> DEFINE t == b[m + 1]
           w == u[m + 1]
           S == Then(s, t)
           D == UNION {P[i] : i \in 1..m}
<1>1. Sound(t) /\ Tidy(t) /\ Annotated(t, w) /\ Delivers(t, w, P[m + 1])
  BY DEF Loopable
<1>2. Sound(s) /\ Tidy(s) /\ \A c : (\A i \in 1..m : Untouched(b[i], c)) => Untouched(s, c)
  BY DEF Reached
<1>3. PICK v : Annotated(s, v) /\ Delivers(s, v, D)
  BY DEF Reached
<1>4. \A i \in 1..m : i \in 1..n /\ i < m + 1 /\ Fresh(b[i], t) /\ \A r \in P[i] : Untouched(t, r[1])
  <2>1. \A i \in 1..m : i \in 1..n /\ i < m + 1
    OBVIOUS
  <2> QED
    BY <2>1 DEF Loopable
<1>5. UNION {P[i] : i \in 1..(m + 1)} = D \cup P[m + 1]
  <2>1. \A i : i \in 1..(m + 1) <=> i \in 1..m \/ i = m + 1
    OBVIOUS
  <2> QED
    BY <2>1
<1>6. Fresh(s, t)
  <2>1. SUFFICES ASSUME NEW i \in 1..Len(t), NEW c \in Cells(t[i].src),
                        ~ \E j \in 1..(i - 1) : c \in Cells(t[j].dst)
                 PROVE  Untouched(s, c)
    BY DEF Fresh
  <2>2. \A l \in 1..m : Untouched(b[l], c)
    BY <1>4, <2>1 DEF Fresh
  <2> QED
    BY <1>2, <2>2
<1>7. \A r \in D : Untouched(t, r[1])
  BY <1>4
<1>8. Tailed(s) \/ Headed(t)
  BY DEF Loopable, Reached
<1> HIDE DEF t, w, D
<1>9. Sound(S) /\ Tidy(S)
  BY <1>1, <1>2, <1>8, ThenSound, ThenTidy
<1>10. Annotated(S, Then(v, w)) /\ Delivers(S, Then(v, w), D \cup P[m + 1])
  <2>1. IsList(s) /\ IsList(t) /\ Matches(s, v) /\ Matches(t, w)
    BY <1>1, <1>2, <1>3 DEF Sound, Annotated, Matches
  <2> QED
    BY <1>1, <1>3, <1>6, <1>7, <2>1, ThenAnnotated, ThenDelivers
<1>11. /\ IsList(S) /\ Len(s) \in Nat /\ Len(t) \in Nat
       /\ \A i \in 1..Len(s) : i \in 1..Len(S) /\ S[i] = s[i]
       /\ \A i \in 1..Len(t) : Len(s) + i \in 1..Len(S) /\ S[Len(s) + i] = t[i]
       /\ \A i \in 1..Len(S) : i \in 1..Len(s) \/ \E j \in 1..Len(t) : i = Len(s) + j
  BY <1>1, <1>2, ThenList DEF Sound
<1> HIDE DEF S
<1>12. ASSUME \A i \in 1..n : Tailed(b[i]) PROVE Tailed(S)
  <2>1. Tailed(t)
    BY <1>12 DEF t
  <2>2. Tailed(s)
    BY <1>12 DEF Reached
  <2>3. ASSUME NEW a \in 1..Len(s), Moves(S[a]) PROVE \E c \in 1..Len(S) : a < c /\ IsFence(S[c])
    <3>1. PICK c \in 1..Len(s) : a < c /\ IsFence(s[c])
      BY <1>11, <2>2, <2>3 DEF Tailed
    <3> QED
      BY <1>11, <3>1
  <2>4. ASSUME NEW a \in 1..Len(t), Moves(S[Len(s) + a])
        PROVE  \E c \in 1..Len(S) : Len(s) + a < c /\ IsFence(S[c])
    <3>1. PICK c \in 1..Len(t) : a < c /\ IsFence(t[c])
      BY <1>11, <2>1, <2>4 DEF Tailed
    <3>2. Len(s) + c \in 1..Len(S) /\ Len(s) + a < Len(s) + c /\ IsFence(S[Len(s) + c])
      BY <1>11, <3>1
    <3> QED
      BY <3>2
  <2> QED
    BY <1>11, <2>3, <2>4 DEF Tailed
<1>13. ASSUME NEW c, \A i \in 1..(m + 1) : Untouched(b[i], c) PROVE Untouched(S, c)
  <2>1. Untouched(s, c)
    <3>1. \A i \in 1..m : i \in 1..(m + 1)
      OBVIOUS
    <3> QED
      BY <1>2, <1>13, <3>1
  <2>2. Untouched(t, c)
    BY <1>13 DEF t
  <2> QED
    BY <1>11, <2>1, <2>2 DEF Untouched
<1> QED
  BY <1>5, <1>9, <1>10, <1>12, <1>13 DEF Reached, S, t

LEMMA FirstReached ==
  ASSUME NEW b, NEW u, NEW P, NEW n \in Nat \ {0}, Loopable(b, u, P, n)
  PROVE  Reached(b, P, n, 1, b[1])
<1>1. 1 \in 1..n
  OBVIOUS
<1>2. /\ Sound(b[1]) /\ Tidy(b[1]) /\ Annotated(b[1], u[1]) /\ Delivers(b[1], u[1], P[1])
  BY <1>1 DEF Loopable
<1>3. UNION {P[i] : i \in 1..1} = P[1]
  OBVIOUS
<1>4. 1 \in 1..1
  OBVIOUS
<1> QED
  BY <1>1, <1>2, <1>3, <1>4 DEF Reached

LEMMA AllReached ==
  ASSUME NEW b, NEW u, NEW P, NEW n \in Nat \ {0}, Loopable(b, u, P, n), NEW f, PrefixesOf(b, n, f)
  PROVE  Reached(b, P, n, n, f[n])
<1> DEFINE Good == {m \in Nat : m + 1 <= n => Reached(b, P, n, m + 1, f[m + 1])}
<1>1. 0 \in Good
  <2>1. f[1] = b[1]
    <3>1. 1 \in 1..n
      OBVIOUS
    <3> QED
      BY <3>1 DEF PrefixesOf
  <2> QED
    BY <2>1, FirstReached
<1>2. ASSUME NEW m \in Nat, m \in Good PROVE m + 1 \in Good
  <2>1. SUFFICES ASSUME (m + 1) + 1 <= n PROVE Reached(b, P, n, (m + 1) + 1, f[(m + 1) + 1])
    OBVIOUS
  <2> DEFINE l == m + 1
  <2>2. l \in Nat /\ l + 1 \in 1..n /\ l + 1 # 1 /\ (l + 1) - 1 = l
    BY <2>1
  <2>3. Reached(b, P, n, l, f[l])
    BY <1>2, <2>1
  <2> HIDE DEF l
  <2>4. f[l + 1] = Then(f[l], b[l + 1])
    BY <2>2 DEF PrefixesOf
  <2>5. Reached(b, P, n, l + 1, f[l + 1])
    BY <2>2, <2>3, <2>4, OneMore
  <2> QED
    BY <2>5 DEF l
<1>3. n - 1 \in Good
  <2> HIDE DEF Good
  <2>1. Nat \subseteq Good
    BY <1>1, <1>2, SetInduction
  <2> QED
    BY <2>1
<1>4. (n - 1) + 1 = n
  OBVIOUS
<1> QED
  BY <1>3, <1>4

\* A closing barrier changes nothing of it.
LEMMA BarrierLast ==
  ASSUME NEW s, NEW P, Sound(s), Makes(s, P)
  PROVE  Sound(Then(s, <<Barrier>>)) /\ Makes(Then(s, <<Barrier>>), P)
<1> DEFINE t == <<Barrier>>
           u == <<Scratch>>
<1>1. IsList(t) /\ Len(t) = 1 /\ t[1] = Barrier /\ IsList(u) /\ Len(u) = 1 /\ u[1] = Scratch
  <2>1. t \in Seq({Barrier}) /\ u \in Seq({Scratch})
    OBVIOUS
  <2>2. IsList(t) /\ IsList(u)
    BY <2>1, Zenon DEF IsList
  <2> QED
    BY <2>2
<1> HIDE DEF t, u
<1>2. Barrier.kind = "barrier" /\ ~ Moves(Barrier) /\ Barrier.dst = <<>> /\ Barrier.src = <<>>
  BY DEF Barrier, Instr, Moves
<1>3. Cells(Barrier.dst) = {} /\ Cells(Barrier.src) = {}
  BY <1>2 DEF Cells
<1>4. Sound(t)
  BY <1>1, <1>2 DEF Sound, Paired, PairedAt
<1>5. Tidy(t) /\ Headed(t)
  BY <1>1, <1>2, <1>3 DEF Tidy, Plain, Ordered, Conflict, Headed
<1>6. Annotated(t, u) /\ Delivers(t, u, {})
  BY <1>1, <1>2 DEF Annotated, Delivers, Made
<1>7. Fresh(s, t) /\ \A c : Untouched(t, c)
  BY <1>1, <1>3 DEF Fresh, Untouched
<1>8. PICK v : Annotated(s, v) /\ Delivers(s, v, P)
  BY DEF Makes
<1>9. IsList(s) /\ Matches(s, v) /\ Matches(t, u)
  BY <1>1, <1>8 DEF Sound, Annotated, Matches
<1>10. Sound(Then(s, t)) /\ Tidy(Then(s, t))
  BY <1>4, <1>5, ThenSound, ThenTidy DEF Makes
<1>11. Annotated(Then(s, t), Then(v, u)) /\ Delivers(Then(s, t), Then(v, u), P \cup {})
  BY <1>1, <1>6, <1>7, <1>8, <1>9, ThenAnnotated, ThenDelivers
<1>12. P \cup {} = P
  OBVIOUS
<1> QED
  BY <1>10, <1>11, <1>12 DEF Makes, t

Looped(b, n)   == Then(FlattenSeq([i \in 1..n |-> b[i]]), <<Barrier>>)
Together(P, n) == UNION {P[i] : i \in 1..n}

\* A loop of programs that can follow each other makes what they all make.
LEMMA LoopMakes ==
  ASSUME NEW b, NEW u, NEW P, NEW n \in Nat \ {0}, Loopable(b, u, P, n)
  PROVE  Sound(Looped(b, n)) /\ Makes(Looped(b, n), Together(P, n))
<1>1. PICK f : PrefixesOf(b, n, f) /\ FlattenSeq([i \in 1..n |-> b[i]]) = f[n]
  BY Unrolled
<1>2. Reached(b, P, n, n, f[n])
  BY <1>1, AllReached
<1>3. Sound(f[n]) /\ Makes(f[n], UNION {P[i] : i \in 1..n})
  BY <1>2 DEF Reached, Makes
<1> QED
  BY <1>1, <1>3, BarrierLast DEF Looped, Together

-----------------------------------------------------------------------------
(* The instructions *)

LEMMA Named ==
  /\ \A a : Ub(a)[1] = a /\ G(a)[1] = a
  /\ \A a, k : Gm(a, k)[1] = a /\ Gm(a, k)[2] = k
  BY DEF Ub, G, Gm

LEMMA CellsOf ==
  /\ Cells(<<>>) = {}
  /\ \A x : Cells(<<x>>) = {x}
  /\ \A x, y : Cells(<<x, y>>) = {x, y}
<1>1. Cells(<<>>) = {}
  BY DEF Cells
<1>2. ASSUME NEW x PROVE Cells(<<x>>) = {x}
  <2>1. DOMAIN <<x>> = {1} /\ <<x>>[1] = x
    OBVIOUS
  <2> QED
    BY <2>1 DEF Cells
<1>3. ASSUME NEW x, NEW y PROVE Cells(<<x, y>>) = {x, y}
  <2>1. DOMAIN <<x, y>> = {1, 2} /\ <<x, y>>[1] = x /\ <<x, y>>[2] = y
    OBVIOUS
  <2> QED
    BY <2>1 DEF Cells
<1> QED
  BY <1>1, <1>2, <1>3

\* What the instruction at i is.
MoveAt(s, i, p, op, dst, src) ==
  /\ i \in 1..Len(s) /\ s[i].pipe = p /\ s[i].kind = "op" /\ Moves(s[i])
  /\ s[i].op = op /\ s[i].dst = dst /\ s[i].src = src
StillAt(s, i) ==
  /\ i \in 1..Len(s) /\ ~ Moves(s[i]) /\ Cells(s[i].dst) = {} /\ Cells(s[i].src) = {}
SetAt(s, i, a, b, id) ==
  StillAt(s, i) /\ s[i].pipe = a /\ s[i].kind = "set" /\ s[i].flag = <<a, b, id>>
WaitAt(s, i, a, b, id) ==
  StillAt(s, i) /\ s[i].pipe = b /\ s[i].kind = "wait" /\ s[i].flag = <<a, b, id>>
FenceAt(s, i) == StillAt(s, i) /\ IsFence(s[i])
PauseAt(s, i) == StillAt(s, i) /\ s[i].kind = "scalar"

\* Instruction i writes, or reads, cell c.
Puts(s, i, c)  == c \in Cells(s[i].dst)
Takes(s, i, c) == c \in Cells(s[i].src)

LEMMA CellsUsed ==
  /\ \A s, i, c : StillAt(s, i) => ~ Puts(s, i, c) /\ ~ Takes(s, i, c)
  /\ \A s, i, p, op, x, src, c : MoveAt(s, i, p, op, <<x>>, src) => (Puts(s, i, c) <=> c = x)
  /\ \A s, i, p, op, x, y, src, c :
       MoveAt(s, i, p, op, <<x, y>>, src) => (Puts(s, i, c) <=> c = x \/ c = y)
  /\ \A s, i, p, op, dst, c : MoveAt(s, i, p, op, dst, <<>>) => ~ Takes(s, i, c)
  /\ \A s, i, p, op, dst, x, c : MoveAt(s, i, p, op, dst, <<x>>) => (Takes(s, i, c) <=> c = x)
  /\ \A s, i, p, op, dst, x, y, c :
       MoveAt(s, i, p, op, dst, <<x, y>>) => (Takes(s, i, c) <=> c = x \/ c = y)
<1>1. /\ \A c : c \notin Cells(<<>>)
      /\ \A x, c : c \in Cells(<<x>>) <=> c = x
      /\ \A x, y, c : c \in Cells(<<x, y>>) <=> c = x \/ c = y
  BY CellsOf
<1>2. \A s, i, c : StillAt(s, i) => ~ Puts(s, i, c) /\ ~ Takes(s, i, c)
  BY DEF StillAt, Puts, Takes
<1>3. \A s, i, p, op, x, src, c : MoveAt(s, i, p, op, <<x>>, src) => (Puts(s, i, c) <=> c = x)
  BY <1>1 DEF MoveAt, Puts
<1>4. \A s, i, p, op, x, y, src, c :
        MoveAt(s, i, p, op, <<x, y>>, src) => (Puts(s, i, c) <=> c = x \/ c = y)
  BY <1>1 DEF MoveAt, Puts
<1>5. \A s, i, p, op, dst, c : MoveAt(s, i, p, op, dst, <<>>) => ~ Takes(s, i, c)
  BY <1>1 DEF MoveAt, Takes
<1>6. \A s, i, p, op, dst, x, c : MoveAt(s, i, p, op, dst, <<x>>) => (Takes(s, i, c) <=> c = x)
  BY <1>1 DEF MoveAt, Takes
<1>7. \A s, i, p, op, dst, x, y, c :
        MoveAt(s, i, p, op, dst, <<x, y>>) => (Takes(s, i, c) <=> c = x \/ c = y)
  BY <1>1 DEF MoveAt, Takes
<1> QED
  BY <1>2, <1>3, <1>4, <1>5, <1>6, <1>7, Zenon

LEMMA FlagsAreStill ==
  /\ \A s, i, a, b, id : SetAt(s, i, a, b, id) \/ WaitAt(s, i, a, b, id) => StillAt(s, i)
  /\ \A s, i : FenceAt(s, i) \/ PauseAt(s, i) => StillAt(s, i)
  BY DEF SetAt, WaitAt, FenceAt, PauseAt

\* Instruction i is x.
Entry(s, i, x) == i \in 1..Len(s) /\ s[i] = x

LEMMA SyncsAre ==
  /\ \A s, i, a, b, id : Entry(s, i, SetFlag(a, b, id)) => SetAt(s, i, a, b, id)
  /\ \A s, i, a, b, id : Entry(s, i, WaitFlag(a, b, id)) => WaitAt(s, i, a, b, id)
  /\ \A s, i : Entry(s, i, Barrier) => FenceAt(s, i)
  /\ \A s, i : Entry(s, i, BarrierV) => PauseAt(s, i)
  /\ \A s, i, op : Entry(s, i, Scalar(op)) => PauseAt(s, i)
  BY CellsOf DEF Entry, SetFlag, WaitFlag, Scalar, Barrier, BarrierV, Instr, SetAt, WaitAt, FenceAt,
                 PauseAt, StillAt, IsFence, Moves

LEMMA MovesAre ==
  /\ \A s, i, d, c : Entry(s, i, Load(d, c)) => MoveAt(s, i, "MTE2", "copy", <<d>>, <<c>>)
  /\ \A s, i, d, c : Entry(s, i, Store(d, c)) => MoveAt(s, i, "MTE3", "copy", <<d>>, <<c>>)
  /\ \A s, i, op, d, src : Entry(s, i, Vec(op, d, src)) => MoveAt(s, i, "V", op, <<d>>, src)
  /\ \A s, i, p, op, dst, src : Entry(s, i, Op(p, op, dst, src)) => MoveAt(s, i, p, op, dst, src)
  BY DEF Entry, Load, Store, Vec, Op, Instr, MoveAt, Moves

RunsOn(s, i, p) == i \in 1..Len(s) /\ s[i].pipe = p /\ s[i].kind # "detached"

LEMMA MoveRuns ==
  \A s, i, p, op, dst, src : MoveAt(s, i, p, op, dst, src) => RunsOn(s, i, p)
  BY DEF MoveAt, RunsOn

\* A pipe runs in order.
LEMMA ByPipe ==
  ASSUME NEW s, NEW p, NEW a, NEW b, RunsOn(s, a, p), RunsOn(s, b, p), a < b
  PROVE  Before(s, a, b)
  BY DEF RunsOn, Closed, Before

\* A flag hands over what its pipe has done before.
LEMMA ByFlag ==
  ASSUME NEW s, NEW p, NEW q, NEW a, NEW b, NEW f, NEW g, NEW id,
         RunsOn(s, a, p), SetAt(s, f, p, q, id), WaitAt(s, g, p, q, id), RunsOn(s, b, q),
         a < f, g = f + 1, g < b
  PROVE  Before(s, a, b)
<1>1. SUFFICES ASSUME NEW R \in SUBSET Pairs(s), Closed(s, R) PROVE <<a, b>> \in R
  BY DEF Before, RunsOn
<1>2. f < g /\ <<a, f>> \in R /\ <<f, g>> \in R /\ <<g, b>> \in R
  BY <1>1 DEF Closed, RunsOn, SetAt, WaitAt, StillAt
<1> QED
  BY <1>1, <1>2 DEF Closed, RunsOn, SetAt, WaitAt, StillAt

LEMMA ByBoth ==
  ASSUME NEW s, NEW a, NEW b, NEW c, Before(s, a, b), Before(s, b, c)
  PROVE  Before(s, a, c)
  BY DEF Closed, Before

\* A barrier comes after what is ahead of it and before what is behind.
LEMMA Divided ==
  ASSUME NEW s, NEW c, FenceAt(s, c), NEW a \in 1..Len(s), NEW b \in 1..Len(s), a < c, c < b
  PROVE  Before(s, a, b)
  BY ByFence DEF FenceAt, StillAt

LEMMA StillPaired ==
  ASSUME NEW s, NEW i
  PROVE  /\ FenceAt(s, i) \/ PauseAt(s, i) => PairedAt(s, i)
         /\ \A p, op, dst, src : MoveAt(s, i, p, op, dst, src) => PairedAt(s, i)
  BY DEF PairedAt, FenceAt, PauseAt, MoveAt, IsFence

LEMMA SyncPaired ==
  ASSUME NEW s, NEW i, NEW j, j = i + 1,
         NEW a, NEW b, NEW id, SetAt(s, i, a, b, id), WaitAt(s, j, a, b, id)
  PROVE  PairedAt(s, i) /\ PairedAt(s, j)
<1>1. i \in 1..Len(s) /\ j \in 1..Len(s) /\ i = j - 1
  BY DEF SetAt, WaitAt, StillAt
<1> QED
  BY <1>1 DEF PairedAt, SetAt, WaitAt

LEMMA SliceAll ==
  ASSUME NEW u, NEW n \in Nat
  PROVE  /\ IsList(Slice(u, 0, n)) /\ Len(Slice(u, 0, n)) = n
         /\ \A i \in 1..n : Slice(u, 0, n)[i] = u[i]
<1>1. n - 0 = n /\ (\A i \in 1..n : 0 + i = i) /\ 0 \in Nat /\ 0 <= n
  OBVIOUS
<1> DEFINE z == 0
<1>2. z \in Nat /\ z <= n
  OBVIOUS
<1> HIDE DEF z
<1>3. /\ IsList(Slice(u, z, n)) /\ Len(Slice(u, z, n)) = n - z
      /\ \A i \in 1..(n - z) : Slice(u, z, n)[i] = u[z + i]
  BY <1>2, SliceList
<1> QED
  BY <1>1, <1>3 DEF z

\* What a move makes of what its cells hold.
LEMMA MadeOf ==
  /\ \A s, v, i : ~ Moves(s[i]) => Made(s, v, i) = Scratch
  /\ \A s, v, i, p, dst, c : MoveAt(s, i, p, "copy", dst, <<c>>) => Made(s, v, i) = Holds(s, v, c, i)
  /\ \A s, v, i, p, op, dst : MoveAt(s, i, p, op, dst, <<>>) /\ op # "copy" => Made(s, v, i) = <<op>>
  /\ \A s, v, i, p, op, dst, c :
       MoveAt(s, i, p, op, dst, <<c>>) /\ op # "copy" => Made(s, v, i) = <<op, Holds(s, v, c, i)>>
  /\ \A s, v, i, p, op, dst, c, d : MoveAt(s, i, p, op, dst, <<c, d>>) /\ op # "copy" =>
       Made(s, v, i) = <<op, Holds(s, v, c, i), Holds(s, v, d, i)>>
<1>1. ASSUME NEW op
      PROVE  /\ <<op>> \o <<>> = <<op>>
             /\ \A x : <<op>> \o <<x>> = <<op, x>>
             /\ \A x, y : <<op>> \o <<x, y>> = <<op, x, y>>
  <2>1. <<op>> \o <<>> = <<op>>
    <3> DEFINE u == <<op>>
    <3>1. <<op>> = Slice(u, 0, 1) /\ <<>> = Slice(u, 1, 1)
      BY DEF Slice
    <3> HIDE DEF u
    <3>2. Then(Slice(u, 0, 1), Slice(u, 1, 1)) = Slice(u, 0, 1)
      BY Slices
    <3>3. <<op>> \o <<>> = Slice(u, 0, 1)
      BY <3>1, <3>2, Zenon DEF Then
    <3> QED
      BY <3>1, <3>3, Zenon
  <2>2. ASSUME NEW x PROVE <<op>> \o <<x>> = <<op, x>>
    <3> DEFINE u == <<op, x>>
    <3>1. <<op>> = Slice(u, 0, 1) /\ <<x>> = Slice(u, 1, 2) /\ <<op, x>> = Slice(u, 0, 2)
      BY DEF Slice
    <3> HIDE DEF u
    <3>2. Then(Slice(u, 0, 1), Slice(u, 1, 2)) = Slice(u, 0, 2)
      BY Slices
    <3> QED
      BY <3>1, <3>2, Zenon DEF Then
  <2>3. ASSUME NEW x, NEW y PROVE <<op>> \o <<x, y>> = <<op, x, y>>
    <3> DEFINE u == <<op, x, y>>
    <3>1. <<op>> = Slice(u, 0, 1) /\ <<x, y>> = Slice(u, 1, 3) /\ <<op, x, y>> = Slice(u, 0, 3)
      BY DEF Slice
    <3> HIDE DEF u
    <3>2. Then(Slice(u, 0, 1), Slice(u, 1, 3)) = Slice(u, 0, 3)
      BY Slices
    <3> QED
      BY <3>1, <3>2, Zenon DEF Then
  <2> QED
    BY <2>1, <2>2, <2>3, Zenon
<1>2. ASSUME NEW s, NEW v, NEW i, NEW p, NEW op, NEW dst, MoveAt(s, i, p, op, dst, <<>>)
      PROVE  Operands(s, v, i) = <<>>
  BY <1>2 DEF MoveAt, Operands
<1>3. ASSUME NEW s, NEW v, NEW i, NEW p, NEW op, NEW dst, NEW c, MoveAt(s, i, p, op, dst, <<c>>)
      PROVE  Operands(s, v, i) = <<Holds(s, v, c, i)>>
  <2>1. DOMAIN s[i].src = {1} /\ s[i].src[1] = c
    BY <1>3 DEF MoveAt
  <2>2. Operands(s, v, i) = [k \in {1} |-> Holds(s, v, c, i)]
    BY <2>1 DEF Operands, Holds
  <2> QED
    BY <2>2
<1>4. ASSUME NEW s, NEW v, NEW i, NEW p, NEW op, NEW dst, NEW c, NEW d, MoveAt(s, i, p, op, dst, <<c, d>>)
      PROVE  Operands(s, v, i) = <<Holds(s, v, c, i), Holds(s, v, d, i)>>
  <2>1. DOMAIN s[i].src = {1, 2} /\ s[i].src[1] = c /\ s[i].src[2] = d
    BY <1>4 DEF MoveAt
  <2>2. Operands(s, v, i) = [k \in {1, 2} |-> IF k = 1 THEN Holds(s, v, c, i) ELSE Holds(s, v, d, i)]
    BY <2>1 DEF Operands, Holds
  <2> QED
    BY <2>2
<1>5. ASSUME NEW s, NEW v, NEW i, ~ Moves(s[i]) PROVE Made(s, v, i) = Scratch
  BY <1>5 DEF Made
<1>6. ASSUME NEW s, NEW v, NEW i, NEW p, NEW op, NEW dst, NEW src, MoveAt(s, i, p, op, dst, src)
      PROVE  /\ op = "copy" => Made(s, v, i) = Operands(s, v, i)[1]
             /\ op # "copy" => Made(s, v, i) = <<op>> \o Operands(s, v, i)
  <2>1. Moves(s[i]) /\ s[i].op = op
    BY <1>6 DEF MoveAt
  <2> QED
    BY <2>1, Zenon DEF Made, Result
<1>7. ASSUME NEW s, NEW v, NEW i, NEW p, NEW dst, NEW c, MoveAt(s, i, p, "copy", dst, <<c>>)
      PROVE  Made(s, v, i) = Holds(s, v, c, i)
  <2>1. Operands(s, v, i) = <<Holds(s, v, c, i)>> /\ Made(s, v, i) = Operands(s, v, i)[1]
    BY <1>3, <1>6, <1>7, Zenon
  <2> QED
    BY <2>1
<1>8. ASSUME NEW s, NEW v, NEW i, NEW p, NEW op, NEW dst, MoveAt(s, i, p, op, dst, <<>>), op # "copy"
      PROVE  Made(s, v, i) = <<op>>
  <2>1. Made(s, v, i) = <<op>> \o Operands(s, v, i)
    BY <1>6, <1>8, Zenon
  <2>2. Operands(s, v, i) = <<>>
    BY <1>2, <1>8, Zenon
  <2> QED
    BY <1>1, <2>1, <2>2, Zenon
<1>9. ASSUME NEW s, NEW v, NEW i, NEW p, NEW op, NEW dst, NEW c, MoveAt(s, i, p, op, dst, <<c>>), op # "copy"
      PROVE  Made(s, v, i) = <<op, Holds(s, v, c, i)>>
  <2>1. Made(s, v, i) = <<op>> \o Operands(s, v, i)
    BY <1>6, <1>9, Zenon
  <2>2. Operands(s, v, i) = <<Holds(s, v, c, i)>>
    BY <1>3, <1>9, Zenon
  <2> QED
    BY <1>1, <2>1, <2>2, Zenon
<1>10. ASSUME NEW s, NEW v, NEW i, NEW p, NEW op, NEW dst, NEW c, NEW d,
              MoveAt(s, i, p, op, dst, <<c, d>>), op # "copy"
       PROVE  Made(s, v, i) = <<op, Holds(s, v, c, i), Holds(s, v, d, i)>>
  <2>1. Made(s, v, i) = <<op>> \o Operands(s, v, i)
    BY <1>6, <1>10, Zenon
  <2>2. Operands(s, v, i) = <<Holds(s, v, c, i), Holds(s, v, d, i)>>
    BY <1>4, <1>10, Zenon
  <2> QED
    BY <1>1, <2>1, <2>2, Zenon
<1> QED
  <2>1. \A s, v, i : ~ Moves(s[i]) => Made(s, v, i) = Scratch
    BY <1>5
  <2>2. \A s, v, i, p, dst, c : MoveAt(s, i, p, "copy", dst, <<c>>) => Made(s, v, i) = Holds(s, v, c, i)
    BY <1>7
  <2>3. \A s, v, i, p, op, dst : MoveAt(s, i, p, op, dst, <<>>) /\ op # "copy" => Made(s, v, i) = <<op>>
    BY <1>8
  <2>4. \A s, v, i, p, op, dst, c :
          MoveAt(s, i, p, op, dst, <<c>>) /\ op # "copy" => Made(s, v, i) = <<op, Holds(s, v, c, i)>>
    BY <1>9
  <2>5. \A s, v, i, p, op, dst, c, d : MoveAt(s, i, p, op, dst, <<c, d>>) /\ op # "copy" =>
          Made(s, v, i) = <<op, Holds(s, v, c, i), Holds(s, v, d, i)>>
    BY <1>10
  <2> QED
    BY <2>1, <2>2, <2>3, <2>4, <2>5, Zenon

\* What c holds was made by its last writer w, or c is as it was.
LEMMA HoldsMade ==
  ASSUME NEW s, NEW v, NEW c, NEW i \in Nat, NEW w \in Nat, IsList(s), 1 <= w, w < i, i <= Len(s) + 1,
         c \in Cells(s[w].dst), c = s[w].dst[1],
         \A j \in 1..Len(s) : c \in Cells(s[j].dst) => j <= w \/ i <= j
  PROVE  Holds(s, v, c, i) = v[w]
<1>1. Len(s) \in Nat /\ w \in 1..(i - 1)
  BY Domains
<1>2. \A j \in (w + 1)..(i - 1) : c \notin Cells(s[j].dst)
  BY <1>1
<1> QED
  BY <1>1, <1>2, HoldsWritten

LEMMA HoldsStill ==
  ASSUME NEW s, NEW v, NEW c, NEW i \in Nat, IsList(s), i <= Len(s) + 1,
         \A j \in 1..Len(s) : c \in Cells(s[j].dst) => i <= j
  PROVE  Holds(s, v, c, i) = c
<1>1. Len(s) \in Nat
  BY Domains
<1>2. \A j \in 1..(i - 1) : c \notin Cells(s[j].dst)
  BY <1>1
<1> QED
  BY <1>2, HoldsInitial

LEMMA DeliveredBy ==
  ASSUME NEW s, NEW v, NEW c, NEW w \in 1..Len(s), IsList(s),
         c \in Cells(s[w].dst), c = s[w].dst[1],
         \A j \in 1..Len(s) : c \in Cells(s[j].dst) => j <= w
  PROVE  Writers(s, c) # {} /\ Contents(s, v, c, Writers(s, c)) = v[w]
<1>1. Len(s) \in Nat /\ DOMAIN s = 1..Len(s)
  BY Domains
<1>2. w \in Writers(s, c)
  BY <1>1 DEF Writers
<1>3. w \in Nat /\ 1 <= w /\ w < Len(s) + 1 /\ Len(s) + 1 \in Nat /\ Len(s) + 1 <= Len(s) + 1
  BY <1>1
<1>4. \A j \in 1..Len(s) : c \in Cells(s[j].dst) => j <= w \/ Len(s) + 1 <= j
  OBVIOUS
<1>5. Holds(s, v, c, Len(s) + 1) = v[w]
  BY <1>3, <1>4, HoldsMade
<1> QED
  BY <1>2, <1>5, HoldsAtEnd

-----------------------------------------------------------------------------
(* What a program makes, cell by cell *)

LEMMA MadeStill == \A s, v, i : StillAt(s, i) => Made(s, v, i) = Scratch
  BY MadeOf DEF StillAt

\* w is the last to write c ahead of i; nothing writes c ahead of i.
LastWrite(s, c, i, w) ==
  /\ IsList(s) /\ i \in 1..(Len(s) + 1) /\ w \in 1..Len(s) /\ w < i
  /\ Puts(s, w, c) /\ c = s[w].dst[1]
  /\ \A j \in 1..Len(s) : Puts(s, j, c) => j <= w \/ i <= j
NoWrite(s, c, i) ==
  /\ IsList(s) /\ i \in 1..(Len(s) + 1)
  /\ \A j \in 1..Len(s) : Puts(s, j, c) => i <= j

LEMMA HeldBy ==
  ASSUME NEW s, NEW v, NEW c, NEW i
  PROVE  /\ NoWrite(s, c, i) => Holds(s, v, c, i) = c
         /\ \A w : LastWrite(s, c, i, w) => Holds(s, v, c, i) = v[w]
<1>1. NoWrite(s, c, i) => Holds(s, v, c, i) = c
  BY Domains, HoldsStill DEF NoWrite, Puts
<1>2. ASSUME NEW w, LastWrite(s, c, i, w) PROVE Holds(s, v, c, i) = v[w]
  BY <1>2, Domains, HoldsMade DEF LastWrite, Puts
<1> QED
  BY <1>1, <1>2

\* w is the last of s to write c.
Leaves(s, c, w) == LastWrite(s, c, Len(s) + 1, w)

LEMMA LeftBy ==
  \A s, v, c, w : Leaves(s, c, w) => Writers(s, c) # {} /\ Contents(s, v, c, Writers(s, c)) = v[w]
<1>1. SUFFICES ASSUME NEW s, NEW v, NEW c, NEW w, Leaves(s, c, w)
               PROVE  Writers(s, c) # {} /\ Contents(s, v, c, Writers(s, c)) = v[w]
  OBVIOUS
<1>2. w \in 1..Len(s) /\ Len(s) \in Nat
  BY <1>1, Domains DEF Leaves, LastWrite
<1>3. \A j \in 1..Len(s) : c \in Cells(s[j].dst) => j <= w
  BY <1>1, <1>2 DEF Leaves, LastWrite, Puts
<1> QED
  BY <1>1, <1>2, <1>3, DeliveredBy DEF Leaves, LastWrite, Puts

\* What an instruction makes of two operands.
LEMMA MadeOfTwo ==
  \A s, v, i, p, op, dst, c, d : MoveAt(s, i, p, op, dst, <<c, d>>) /\ op # "copy" =>
    Made(s, v, i) = <<op, Holds(s, v, c, i), Holds(s, v, d, i)>>
  BY MadeOf

LEMMA ListOf ==
  ASSUME NEW v, NEW n \in Nat, v = Slice(v, 0, n)
  PROVE  IsList(v) /\ Len(v) = n
  BY SliceAll

OrderedFrom(s, a) == \A b \in 1..Len(s) : a < b /\ Conflict(s[a], s[b]) => Before(s, a, b)

\* One of a and b writes c, which the other one uses.
Clash(s, a, b, c) ==
  \/ Puts(s, a, c) /\ (Puts(s, b, c) \/ Takes(s, b, c))
  \/ Takes(s, a, c) /\ Puts(s, b, c)

LEMMA ClashBefore ==
  ASSUME NEW s, NEW a, \A b \in 1..Len(s) : \A c : a < b /\ Clash(s, a, b, c) => Before(s, a, b)
  PROVE  OrderedFrom(s, a)
<1>1. SUFFICES ASSUME NEW b \in 1..Len(s), a < b, Conflict(s[a], s[b]) PROVE Before(s, a, b)
  BY DEF OrderedFrom
<1>2. PICK c : Clash(s, a, b, c)
  BY <1>1 DEF Conflict, Puts, Takes, Clash
<1> QED
  BY <1>1, <1>2

LEMMA OrderedAll ==
  ASSUME NEW s, \A a \in 1..Len(s) : OrderedFrom(s, a) \/ StillAt(s, a)
  PROVE  Ordered(s)
  BY DEF Ordered, OrderedFrom, Conflict, StillAt

-----------------------------------------------------------------------------
(* The blocks of a scan *)

Inputs  == {"recv", "gamma", "s_local", "g_out", "out_prev"}
Outputs == {"output", "remote", "dS", "dgamma"}
Tiles   == {"recvTile", "gammaTile", "sTile", "dgammaTile"}

\* The cell is written before i, or is an input.
Known(s, i, c) == (\E j \in 1..(i - 1) : Puts(s, j, c)) \/ c[1] \in Inputs

\* Block k writes tiles and its own rows of the outputs, and reads nothing an
\* earlier block left in a tile.
Local(s, k) ==
  /\ \A i \in 1..Len(s) : \A c : Puts(s, i, c) => c[1] \in Tiles \/ (c[1] \in Outputs /\ c[2] = k)
  /\ \A i \in 1..Len(s) : \A c : Takes(s, i, c) => Known(s, i, c)

LEMMA KnownBy ==
  /\ \A s, i, c : \A j \in 1..(i - 1) : Puts(s, j, c) => Known(s, i, c)
  /\ \A s, i, c : c[1] \in Inputs => Known(s, i, c)
  BY DEF Known

LEMMA LocalApart ==
  ASSUME NEW s, NEW t, NEW k, NEW l, Local(s, k), Local(t, l)
  PROVE  /\ Fresh(s, t)
         /\ k # l => \A x \in Outputs : Untouched(t, Gm(x, k))
<1>1. \A x \in Outputs : x \notin Tiles
  BY DEF Outputs, Tiles
<1>2. \A x \in Inputs : x \notin Tiles /\ x \notin Outputs
  BY DEF Inputs, Outputs, Tiles
<1>3. Fresh(s, t)
  <2>1. SUFFICES ASSUME NEW i \in 1..Len(t), NEW c \in Cells(t[i].src),
                        ~ \E j \in 1..(i - 1) : c \in Cells(t[j].dst)
                 PROVE  Untouched(s, c)
    BY DEF Fresh
  <2>2. Takes(t, i, c)
    BY DEF Takes
  <2>3. c[1] \in Inputs
    BY <2>1, <2>2 DEF Local, Known, Puts
  <2>4. \A j \in 1..Len(s) : ~ Puts(s, j, c)
    BY <1>2, <2>3 DEF Local
  <2> QED
    BY <2>4 DEF Untouched, Puts
<1>4. ASSUME k # l, NEW x \in Outputs PROVE Untouched(t, Gm(x, k))
  <2>1. Gm(x, k)[1] = x /\ Gm(x, k)[2] = k
    BY Named
  <2>2. \A j \in 1..Len(t) : ~ Puts(t, j, Gm(x, k))
    BY <1>1, <1>4, <2>1 DEF Local
  <2> QED
    BY <2>2 DEF Untouched, Puts
<1> QED
  BY <1>3, <1>4

\* s is block k of a scan: it makes v and, of it, P.
IsBlock(s, v, P, k) ==
  /\ Sound(s) /\ Tidy(s) /\ Annotated(s, v) /\ Delivers(s, v, P) /\ Local(s, k)
  /\ \A r \in P : \E x \in Outputs : r[1] = Gm(x, k)

LEMMA ScanMakes ==
  ASSUME NEW b, NEW u, NEW P, \A i \in 1..K : IsBlock(b[i], u[i], P[i], i - 1),
         (\A i \in 1..K : Headed(b[i])) \/ (\A i \in 1..K : Tailed(b[i]))
  PROVE  Sound(Looped(b, K)) /\ Makes(Looped(b, K), Together(P, K))
<1>1. K \in Nat \ {0}
  BY BlocksAssumption
<1>2. ASSUME NEW i \in 1..K, NEW j \in 1..K, i < j
      PROVE  Fresh(b[i], b[j]) /\ \A r \in P[i] : Untouched(b[j], r[1])
  <2>1. Local(b[i], i - 1) /\ Local(b[j], j - 1) /\ i - 1 # j - 1
        /\ \A r \in P[i] : \E x \in Outputs : r[1] = Gm(x, i - 1)
    BY <1>1, <1>2 DEF IsBlock
  <2> HIDE <1>2
  <2> DEFINE k == i - 1
             l == j - 1
  <2>2. Local(b[i], k) /\ Local(b[j], l) /\ k # l
    BY <2>1
  <2>3. \A r \in P[i] : \E x \in Outputs : r[1] = Gm(x, k)
    BY <2>1
  <2> HIDE DEF k, l
  <2>4. Fresh(b[i], b[j]) /\ \A x \in Outputs : Untouched(b[j], Gm(x, k))
    BY <2>2, LocalApart
  <2> QED
    BY <2>3, <2>4
<1>3. Loopable(b, u, P, K)
  BY <1>2 DEF Loopable, IsBlock
<1> QED
  BY <1>1, <1>3, LoopMakes

-----------------------------------------------------------------------------
(* The blocks of allscan_kernel.cpp *)

\* A block of the forward scan on the first rank
ForwardFirstRows(s, k) ==
  /\ IsList(s) /\ Len(s) = 9 /\ MoveAt(s, 1, "MTE2", "copy", <<Ub("sTile")>>, <<Gm("s_local", k)>>)
  /\ SetAt(s, 2, "MTE2", "MTE3", 0) /\ WaitAt(s, 3, "MTE2", "MTE3", 0)
  /\ MoveAt(s, 4, "MTE3", "copy", <<Gm("output", k)>>, <<Ub("sTile")>>)
  /\ MoveAt(s, 5, "MTE3", "copy", <<Gm("remote", k)>>, <<Ub("sTile")>>)
  /\ SetAt(s, 6, "MTE3", "S", 7) /\ WaitAt(s, 7, "MTE3", "S", 7) /\ FenceAt(s, 8) /\ PauseAt(s, 9)

LEMMA ForwardFirstIs == ASSUME NEW k PROVE ForwardFirstRows(ForwardBlock("first", k), k)
<1> DEFINE u == <<Load(Ub("sTile"), Gm("s_local", k)), SetFlag("MTE2", "MTE3", 0),
                  WaitFlag("MTE2", "MTE3", 0), Store(Gm("output", k), Ub("sTile")),
                  Store(Gm("remote", k), Ub("sTile")), SetFlag("MTE3", "S", 7),
                  WaitFlag("MTE3", "S", 7), Barrier, Scalar("TNOTIFY")>>
           s == ForwardBlock("first", k)
<1>1. <<Load(Ub("sTile"), Gm("s_local", k))>> = Slice(u, 0, 1)
  BY DEF Slice
<1>2. Sync("MTE2", "MTE3", 0) = Slice(u, 1, 3)
  BY DEF Slice, Sync
<1>3. ForwardSource(k) = Slice(u, 0, 3)
  <2> HIDE DEF u
  <2>1. /\ Then(Slice(u, 0, 1), Slice(u, 1, 3)) = Slice(u, 0, 3)
    BY Slices
  <2> QED
    BY <1>1, <1>2, <2>1, Zenon DEF Then, ForwardSource
<1>4. <<Store(Gm("output", k), Ub("sTile"))>> = Slice(u, 3, 4)
  BY DEF Slice
<1>5. <<Store(Gm("remote", k), Ub("sTile"))>> = Slice(u, 4, 5)
  BY DEF Slice
<1>6. Sync("MTE3", "S", 7) = Slice(u, 5, 7)
  BY DEF Slice, Sync
<1>7. <<Barrier, Scalar("TNOTIFY")>> = Slice(u, 7, 9)
  BY DEF Slice
<1>8. FlushOut = Slice(u, 5, 9)
  <2> HIDE DEF u
  <2>1. /\ Then(Slice(u, 5, 7), Slice(u, 7, 9)) = Slice(u, 5, 9)
    BY Slices
  <2> QED
    BY <1>6, <1>7, <2>1, Zenon DEF Then, FlushOut
<1>9. ForwardPush(k) = Slice(u, 4, 9)
  <2> HIDE DEF u
  <2>1. /\ Then(Slice(u, 4, 5), Slice(u, 5, 9)) = Slice(u, 4, 9)
    BY Slices
  <2> QED
    BY <1>5, <1>8, <2>1, Zenon DEF Then, ForwardPush
<1>10. s = Slice(u, 0, 9)
  <2> HIDE DEF u
  <2>1. /\ Then(Slice(u, 0, 3), Slice(u, 3, 4)) = Slice(u, 0, 4)
        /\ Then(Slice(u, 0, 4), Slice(u, 4, 9)) = Slice(u, 0, 9)
    BY Slices
  <2>2. "first" # "last"
    OBVIOUS
  <2> QED
    BY <1>3, <1>4, <1>9, <2>1, <2>2, Zenon DEF Then, ForwardBlock
<1>11. PICK n \in Nat : n = 9
  OBVIOUS
<1>12. IsList(s) /\ Len(s) = 9 /\ \A i \in 1..9 : s[i] = u[i]
  <2> HIDE DEF u, s
  <2>1. IsList(Slice(u, 0, n)) /\ Len(Slice(u, 0, n)) = n /\ \A i \in 1..n : Slice(u, 0, n)[i] = u[i]
    BY SliceAll
  <2> QED
    BY <1>10, <1>11, <2>1
<1> HIDE DEF s
<1>13. /\ Entry(s, 1, Load(Ub("sTile"), Gm("s_local", k))) /\ Entry(s, 2, SetFlag("MTE2", "MTE3", 0))
       /\ Entry(s, 3, WaitFlag("MTE2", "MTE3", 0)) /\ Entry(s, 4, Store(Gm("output", k), Ub("sTile")))
       /\ Entry(s, 5, Store(Gm("remote", k), Ub("sTile"))) /\ Entry(s, 6, SetFlag("MTE3", "S", 7))
       /\ Entry(s, 7, WaitFlag("MTE3", "S", 7)) /\ Entry(s, 8, Barrier) /\ Entry(s, 9, Scalar("TNOTIFY"))
  BY <1>12 DEF Entry
<1> HIDE DEF u
<1>14. /\ SetAt(s, 2, "MTE2", "MTE3", 0) /\ WaitAt(s, 3, "MTE2", "MTE3", 0) /\ SetAt(s, 6, "MTE3", "S", 7)
       /\ WaitAt(s, 7, "MTE3", "S", 7) /\ FenceAt(s, 8) /\ PauseAt(s, 9)
  BY <1>12, <1>13, SyncsAre
<1>15. /\ MoveAt(s, 1, "MTE2", "copy", <<Ub("sTile")>>, <<Gm("s_local", k)>>)
       /\ MoveAt(s, 4, "MTE3", "copy", <<Gm("output", k)>>, <<Ub("sTile")>>)
       /\ MoveAt(s, 5, "MTE3", "copy", <<Gm("remote", k)>>, <<Ub("sTile")>>)
  BY <1>12, <1>13, MovesAre
<1> QED
  BY <1>12, <1>14, <1>15 DEF ForwardFirstRows, s

ForwardFirstCells(s, k) ==
  /\ \A b \in 1..9 : b \in {1, 4, 5} \/ StillAt(s, b)
  /\ \A b \in {1, 4, 5} : Moves(s[b])
  /\ \A b \in 1..9 : \A c : Puts(s, b, c) \/ Takes(s, b, c) => b \in {1, 4, 5}
  /\ \A c : Puts(s, 1, c) <=> c = Ub("sTile")
  /\ \A c : Puts(s, 4, c) <=> c = Gm("output", k)
  /\ \A c : Puts(s, 5, c) <=> c = Gm("remote", k)
  /\ \A c : Takes(s, 1, c) <=> c = Gm("s_local", k)
  /\ \A c : Takes(s, 4, c) <=> c = Ub("sTile")
  /\ \A c : Takes(s, 5, c) <=> c = Ub("sTile")

LEMMA ForwardFirstUses == ASSUME NEW s, NEW k, ForwardFirstRows(s, k) PROVE ForwardFirstCells(s, k)
<1>1. /\ StillAt(s, 2) /\ StillAt(s, 3) /\ StillAt(s, 6) /\ StillAt(s, 7) /\ StillAt(s, 8)
      /\ StillAt(s, 9)
  BY FlagsAreStill DEF ForwardFirstRows
<1>2. \A b \in 1..9 : b \in {1, 4, 5} \/ StillAt(s, b)
  BY <1>1
<1>3. \A b \in {1, 4, 5} : Moves(s[b])
  BY DEF ForwardFirstRows, MoveAt
<1>4. \A b \in 1..9 : \A c : Puts(s, b, c) \/ Takes(s, b, c) => b \in {1, 4, 5}
  BY <1>2, CellsUsed
<1>5. /\ \A c : Puts(s, 1, c) <=> c = Ub("sTile")
      /\ \A c : Puts(s, 4, c) <=> c = Gm("output", k)
      /\ \A c : Puts(s, 5, c) <=> c = Gm("remote", k)
  <2>1. /\ MoveAt(s, 1, "MTE2", "copy", <<Ub("sTile")>>, <<Gm("s_local", k)>>)
        /\ MoveAt(s, 4, "MTE3", "copy", <<Gm("output", k)>>, <<Ub("sTile")>>)
        /\ MoveAt(s, 5, "MTE3", "copy", <<Gm("remote", k)>>, <<Ub("sTile")>>)
    BY DEF ForwardFirstRows
  <2> QED
    BY <2>1, CellsUsed
<1>6. /\ \A c : Takes(s, 1, c) <=> c = Gm("s_local", k)
      /\ \A c : Takes(s, 4, c) <=> c = Ub("sTile")
      /\ \A c : Takes(s, 5, c) <=> c = Ub("sTile")
  <2>1. /\ MoveAt(s, 1, "MTE2", "copy", <<Ub("sTile")>>, <<Gm("s_local", k)>>)
        /\ MoveAt(s, 4, "MTE3", "copy", <<Gm("output", k)>>, <<Ub("sTile")>>)
        /\ MoveAt(s, 5, "MTE3", "copy", <<Gm("remote", k)>>, <<Ub("sTile")>>)
    BY DEF ForwardFirstRows
  <2> QED
    BY <2>1, CellsUsed
<1> QED
  BY <1>2, <1>3, <1>4, <1>5, <1>6 DEF ForwardFirstCells

LEMMA ForwardFirstTidy == ASSUME NEW s, NEW k, ForwardFirstRows(s, k) PROVE Sound(s) /\ Tidy(s)
<1>1. IsList(s) /\ Len(s) = 9
  BY DEF ForwardFirstRows
<1>2. Paired(s)
  <2>1. PairedAt(s, 2) /\ PairedAt(s, 3)
    BY SyncPaired DEF ForwardFirstRows
  <2>2. PairedAt(s, 6) /\ PairedAt(s, 7)
    BY SyncPaired DEF ForwardFirstRows
  <2>3. /\ PairedAt(s, 1) /\ PairedAt(s, 4) /\ PairedAt(s, 5) /\ PairedAt(s, 8) /\ PairedAt(s, 9)
    BY StillPaired DEF ForwardFirstRows
  <2> QED
    BY <1>1, <2>1, <2>2, <2>3 DEF Paired
<1>3. /\ RunsOn(s, 1, "MTE2") /\ RunsOn(s, 4, "MTE3") /\ RunsOn(s, 5, "MTE3")
  BY MoveRuns DEF ForwardFirstRows
<1>4. ForwardFirstCells(s, k)
  BY ForwardFirstUses
<1>5. Before(s, 1, 4)
  BY <1>3, ByFlag DEF ForwardFirstRows
<1>6. Before(s, 1, 5)
  BY <1>3, ByFlag DEF ForwardFirstRows
<1>7. OrderedFrom(s, 1)
  <2>1. ASSUME NEW b \in 1..9, NEW c, 1 < b, Clash(s, 1, b, c) PROVE Before(s, 1, b)
    BY <1>4, <1>5, <1>6, <2>1, Named DEF ForwardFirstCells, Clash
  <2> QED
    BY <1>1, <2>1, ClashBefore
<1>8. OrderedFrom(s, 4)
  <2>1. ASSUME NEW b \in 1..9, NEW c, 4 < b, Clash(s, 4, b, c) PROVE Before(s, 4, b)
    BY <1>4, <2>1, Named DEF ForwardFirstCells, Clash
  <2> QED
    BY <1>1, <2>1, ClashBefore
<1>9. OrderedFrom(s, 5)
  <2>1. ASSUME NEW b \in 1..9, NEW c, 5 < b, Clash(s, 5, b, c) PROVE Before(s, 5, b)
    BY <1>4, <2>1, Named DEF ForwardFirstCells, Clash
  <2> QED
    BY <1>1, <2>1, ClashBefore
<1>10. Ordered(s)
  BY <1>1, <1>4, <1>7, <1>8, <1>9, OrderedAll DEF ForwardFirstCells
<1>11. Plain(s)
  BY <1>1, <1>4 DEF ForwardFirstCells, Plain, StillAt
<1> QED
  BY <1>1, <1>2, <1>10, <1>11 DEF Sound, Tidy

ForwardFirstMade(k) ==
  <<Gm("s_local", k), Scratch, Scratch, Gm("s_local", k),
    Gm("s_local", k), Scratch, Scratch, Scratch, Scratch>>

LEMMA ForwardFirstMakes ==
  ASSUME NEW s, NEW k, ForwardFirstRows(s, k)
  PROVE  /\ Annotated(s, ForwardFirstMade(k))
         /\ Delivers(s, ForwardFirstMade(k), {<<Gm("output", k), Gm("s_local", k)>>,
                      <<Gm("remote", k), Gm("s_local", k)>>})
<1> DEFINE v == ForwardFirstMade(k)
<1>1. IsList(s) /\ Len(s) = 9
  BY DEF ForwardFirstRows
<1>2. IsList(v) /\ Len(v) = 9
  <2>1. v = Slice(v, 0, 9)
    BY DEF Slice, ForwardFirstMade
  <2>2. PICK n \in Nat : n = 9
    OBVIOUS
  <2> HIDE DEF v
  <2> QED
    BY <2>1, <2>2, ListOf
<1>3. /\ v[1] = Gm("s_local", k) /\ v[2] = Scratch /\ v[3] = Scratch /\ v[4] = Gm("s_local", k)
      /\ v[5] = Gm("s_local", k) /\ v[6] = Scratch /\ v[7] = Scratch /\ v[8] = Scratch /\ v[9] = Scratch
  BY DEF ForwardFirstMade
<1> HIDE DEF v
<1>0. ForwardFirstCells(s, k)
  BY ForwardFirstUses
<1>4. /\ s[1].dst[1] = Ub("sTile") /\ s[4].dst[1] = Gm("output", k) /\ s[5].dst[1] = Gm("remote", k)
  BY DEF ForwardFirstRows, MoveAt
<1>5. \A j \in 1..9 : Puts(s, j, Ub("sTile")) => j \in {1}
  BY <1>0, Named DEF ForwardFirstCells
<1>6. \A j \in 1..9 : Puts(s, j, Gm("s_local", k)) => j \in {}
  BY <1>0, Named DEF ForwardFirstCells
<1>7. \A j \in 1..9 : Puts(s, j, Gm("output", k)) => j \in {4}
  BY <1>0, Named DEF ForwardFirstCells
<1>8. \A j \in 1..9 : Puts(s, j, Gm("remote", k)) => j \in {5}
  BY <1>0, Named DEF ForwardFirstCells
<1>9. v[1] = Made(s, v, 1)
  <2>1. NoWrite(s, Gm("s_local", k), 1)
    BY <1>0, <1>1, <1>4, <1>6 DEF ForwardFirstCells, LastWrite, NoWrite
  <2>2. Holds(s, v, Gm("s_local", k), 1) = Gm("s_local", k)
    BY <2>1, HeldBy
  <2>3. Made(s, v, 1) = Holds(s, v, Gm("s_local", k), 1)
    BY MadeOf DEF ForwardFirstRows
  <2> QED
    BY <1>3, <2>2, <2>3
<1>10. v[4] = Made(s, v, 4)
  <2>1. LastWrite(s, Ub("sTile"), 4, 1)
    BY <1>0, <1>1, <1>4, <1>5 DEF ForwardFirstCells, LastWrite, NoWrite
  <2>2. Holds(s, v, Ub("sTile"), 4) = v[1]
    BY <2>1, HeldBy
  <2>3. Made(s, v, 4) = Holds(s, v, Ub("sTile"), 4)
    BY MadeOf DEF ForwardFirstRows
  <2> QED
    BY <1>3, <2>2, <2>3
<1>11. v[5] = Made(s, v, 5)
  <2>1. LastWrite(s, Ub("sTile"), 5, 1)
    BY <1>0, <1>1, <1>4, <1>5 DEF ForwardFirstCells, LastWrite, NoWrite
  <2>2. Holds(s, v, Ub("sTile"), 5) = v[1]
    BY <2>1, HeldBy
  <2>3. Made(s, v, 5) = Holds(s, v, Ub("sTile"), 5)
    BY MadeOf DEF ForwardFirstRows
  <2> QED
    BY <1>3, <2>2, <2>3
<1>12. /\ v[2] = Made(s, v, 2) /\ v[3] = Made(s, v, 3) /\ v[6] = Made(s, v, 6) /\ v[7] = Made(s, v, 7)
      /\ v[8] = Made(s, v, 8) /\ v[9] = Made(s, v, 9)
  <2>1. /\ StillAt(s, 2) /\ StillAt(s, 3) /\ StillAt(s, 6) /\ StillAt(s, 7) /\ StillAt(s, 8)
        /\ StillAt(s, 9)
    BY FlagsAreStill DEF ForwardFirstRows
  <2> QED
    BY <1>3, <2>1, MadeStill
<1>13. Annotated(s, v)
  BY <1>1, <1>2, <1>9, <1>10, <1>11, <1>12 DEF Annotated
<1>14. Writers(s, Gm("output", k)) # {} /\ Contents(s, v, Gm("output", k), Writers(s, Gm("output", k))) = v[4]
  <2>1. Leaves(s, Gm("output", k), 4)
    BY <1>0, <1>1, <1>4, <1>7 DEF ForwardFirstCells, Leaves, LastWrite
  <2> QED
    BY <2>1, LeftBy
<1>15. Writers(s, Gm("remote", k)) # {} /\ Contents(s, v, Gm("remote", k), Writers(s, Gm("remote", k))) = v[5]
  <2>1. Leaves(s, Gm("remote", k), 5)
    BY <1>0, <1>1, <1>4, <1>8 DEF ForwardFirstCells, Leaves, LastWrite
  <2> QED
    BY <2>1, LeftBy
<1> QED
  BY <1>3, <1>13, <1>14, <1>15 DEF Delivers, v

LEMMA ForwardFirstFits ==
  ASSUME NEW s, NEW k, ForwardFirstRows(s, k) PROVE Local(s, k) /\ Tailed(s)
<1>1. Len(s) = 9
  BY DEF ForwardFirstRows
<1>2. ForwardFirstCells(s, k)
  BY ForwardFirstUses
<1>3. Tailed(s)
  <2>1. 8 \in 1..Len(s) /\ IsFence(s[8])
    BY <1>1 DEF ForwardFirstRows, FenceAt
  <2>2. \A a \in 1..Len(s) : Moves(s[a]) => a < 8
    <3>1. \A a \in 1..9 : a \in {1, 4, 5} \/ StillAt(s, a)
      BY <1>2 DEF ForwardFirstCells
    <3> QED
      BY <1>1, <3>1 DEF StillAt
  <2> QED
    BY <2>1, <2>2 DEF Tailed
<1>4. /\ Ub("sTile")[1] = "sTile" /\ Gm("s_local", k)[1] = "s_local" /\ Gm("s_local", k)[2] = k
      /\ Gm("output", k)[1] = "output" /\ Gm("output", k)[2] = k
      /\ Gm("remote", k)[1] = "remote" /\ Gm("remote", k)[2] = k
  BY Named
<1>5. \A b \in 1..9 : \A c : Puts(s, b, c) \/ Takes(s, b, c) => b \in {1, 4, 5}
  BY <1>2 DEF ForwardFirstCells
<1>6. \A i \in 1..Len(s) : \A c : Puts(s, i, c) => c[1] \in Tiles \/ (c[1] \in Outputs /\ c[2] = k)
  <2>1. \A i \in {1, 4, 5} : \A c : Puts(s, i, c) => c = Ub("sTile") \/ c = Gm("output", k) \/
            c = Gm("remote", k)
    BY <1>2 DEF ForwardFirstCells
  <2> QED
    BY <1>1, <1>4, <1>5, <2>1 DEF Tiles, Outputs
<1>7. \A c : Takes(s, 1, c) => Known(s, 1, c)
  <2>1. Known(s, 1, Gm("s_local", k))
    BY <1>4, KnownBy DEF Inputs
  <2> QED
    BY <1>2, <2>1 DEF ForwardFirstCells
<1>8. \A c : Takes(s, 4, c) => Known(s, 4, c)
  <2>1. Known(s, 4, Ub("sTile"))
    <3>1. 1 \in 1..(4 - 1) /\ Puts(s, 1, Ub("sTile"))
      BY <1>2 DEF ForwardFirstCells
    <3> QED
      BY <3>1, KnownBy
  <2> QED
    BY <1>2, <2>1 DEF ForwardFirstCells
<1>9. \A c : Takes(s, 5, c) => Known(s, 5, c)
  <2>1. Known(s, 5, Ub("sTile"))
    <3>1. 1 \in 1..(5 - 1) /\ Puts(s, 1, Ub("sTile"))
      BY <1>2 DEF ForwardFirstCells
    <3> QED
      BY <3>1, KnownBy
  <2> QED
    BY <1>2, <2>1 DEF ForwardFirstCells
<1>10. \A i \in 1..Len(s) : \A c : Takes(s, i, c) => Known(s, i, c)
  BY <1>1, <1>5, <1>7, <1>8, <1>9
<1> QED
  BY <1>3, <1>6, <1>10 DEF Local

ForwardFirstStores(k) ==
  {<<Gm("output", k), ScanResult("first", k)>>, <<Gm("remote", k), ScanResult("first", k)>>}

LEMMA ForwardFirstBlock ==
  ASSUME NEW k
  PROVE  /\ IsBlock(ForwardBlock("first", k), ForwardFirstMade(k), ForwardFirstStores(k), k)
         /\ Tailed(ForwardBlock("first", k))
<1> DEFINE s == ForwardBlock("first", k)
<1>1. ForwardFirstRows(s, k)
  BY ForwardFirstIs
<1> HIDE DEF s
<1>2. Sound(s) /\ Tidy(s) /\ Local(s, k) /\ Tailed(s)
  BY <1>1, ForwardFirstTidy, ForwardFirstFits
<1>3. Annotated(s, ForwardFirstMade(k)) /\ Delivers(s, ForwardFirstMade(k), ForwardFirstStores(k))
  <2>1. "first" # "last"
    OBVIOUS
  <2>2. /\ Annotated(s, ForwardFirstMade(k))
        /\ Delivers(s, ForwardFirstMade(k), {<<Gm("output", k), Gm("s_local", k)>>,
                              <<Gm("remote", k), Gm("s_local", k)>>})
    BY <1>1, ForwardFirstMakes, Zenon
  <2> QED
    BY <2>1, <2>2, Zenon DEF ForwardFirstStores, ScanResult
<1>4. \A r \in ForwardFirstStores(k) : \E x \in Outputs : r[1] = Gm(x, k)
  BY DEF ForwardFirstStores, Outputs
<1> QED
  BY <1>2, <1>3, <1>4 DEF IsBlock, s

LEMMA ForwardFirstScan ==
  Sound(AllScan("first")) /\ Makes(AllScan("first"), PromisedScan("first"))
<1> DEFINE b == [i \in 1..K |-> ForwardBlock("first", i - 1)]
           u == [i \in 1..K |-> ForwardFirstMade(i - 1)]
           P == [i \in 1..K |-> ForwardFirstStores(i - 1)]
<1>1. \A i \in 1..K : b[i] = ForwardBlock("first", i - 1) /\ u[i] = ForwardFirstMade(i - 1) /\
          P[i] = ForwardFirstStores(i - 1)
  OBVIOUS
<1>2. AllScan("first") = Looped(b, K)
  <2>1. [i \in 1..K |-> b[i]] = [i \in 1..K |-> ForwardBlock("first", i - 1)]
    OBVIOUS
  <2> QED
    BY <2>1, Zenon DEF AllScan, Loop, Looped, Then
<1>3. Together(P, K) = PromisedScan("first")
  <2>1. \A k : k \in Blocks <=> \E i \in 1..K : k = i - 1
    BY BlocksAssumption DEF Blocks
  <2> HIDE DEF P
  <2>2. \A r : r \in Together(P, K) <=> \E k \in Blocks : r \in ForwardFirstStores(k)
    BY <1>1, <2>1 DEF Together
  <2>3. \A r : r \in PromisedScan("first") <=> \E k \in Blocks : r \in ForwardFirstStores(k)
    BY DEF PromisedScan, ForwardFirstStores
  <2> QED
    BY <2>2, <2>3
<1> HIDE DEF b, u, P
<1>4. \A i \in 1..K : IsBlock(b[i], u[i], P[i], i - 1) /\ Tailed(b[i])
  BY <1>1, ForwardFirstBlock
<1>5. Sound(Looped(b, K)) /\ Makes(Looped(b, K), Together(P, K))
  BY <1>4, ScanMakes
<1> QED
  BY <1>2, <1>3, <1>5

\* A block of the forward scan on a middle rank
ForwardMiddleRows(s, k) ==
  /\ IsList(s) /\ Len(s) = 17 /\ PauseAt(s, 1) /\ FenceAt(s, 2)
  /\ MoveAt(s, 3, "MTE2", "copy", <<Ub("recvTile")>>, <<Gm("recv", k)>>)
  /\ MoveAt(s, 4, "MTE2", "copy", <<Ub("gammaTile")>>, <<Gm("gamma", k)>>)
  /\ MoveAt(s, 5, "MTE2", "copy", <<Ub("sTile")>>, <<Gm("s_local", k)>>)
  /\ SetAt(s, 6, "MTE2", "V", 0) /\ WaitAt(s, 7, "MTE2", "V", 0)
  /\ MoveAt(s, 8, "V", "TROWEXPANDMUL", <<Ub("recvTile")>>, <<Ub("recvTile"), Ub("gammaTile")>>)
  /\ MoveAt(s, 9, "V", "TADD", <<Ub("sTile")>>, <<Ub("sTile"), Ub("recvTile")>>)
  /\ SetAt(s, 10, "V", "MTE3", 0) /\ WaitAt(s, 11, "V", "MTE3", 0)
  /\ MoveAt(s, 12, "MTE3", "copy", <<Gm("output", k)>>, <<Ub("sTile")>>)
  /\ MoveAt(s, 13, "MTE3", "copy", <<Gm("remote", k)>>, <<Ub("sTile")>>)
  /\ SetAt(s, 14, "MTE3", "S", 7) /\ WaitAt(s, 15, "MTE3", "S", 7) /\ FenceAt(s, 16)
  /\ PauseAt(s, 17)

LEMMA ForwardMiddleIs == ASSUME NEW k PROVE ForwardMiddleRows(ForwardBlock("middle", k), k)
<1> DEFINE u == <<Scalar("TWAIT"), Barrier, Load(Ub("recvTile"), Gm("recv", k)),
                  Load(Ub("gammaTile"), Gm("gamma", k)), Load(Ub("sTile"), Gm("s_local", k)),
                  SetFlag("MTE2", "V", 0), WaitFlag("MTE2", "V", 0),
                  Vec("TROWEXPANDMUL", Ub("recvTile"), <<Ub("recvTile"), Ub("gammaTile")>>),
                  Vec("TADD", Ub("sTile"), <<Ub("sTile"), Ub("recvTile")>>),
                  SetFlag("V", "MTE3", 0), WaitFlag("V", "MTE3", 0),
                  Store(Gm("output", k), Ub("sTile")), Store(Gm("remote", k), Ub("sTile")),
                  SetFlag("MTE3", "S", 7), WaitFlag("MTE3", "S", 7), Barrier, Scalar("TNOTIFY")>>
           s == ForwardBlock("middle", k)
<1>1. Wait = Slice(u, 0, 2)
  BY DEF Slice, Wait
<1>2. <<Load(Ub("recvTile"), Gm("recv", k)), Load(Ub("gammaTile"), Gm("gamma", k)),
          Load(Ub("sTile"), Gm("s_local", k))>> = Slice(u, 2, 5)
  BY DEF Slice
<1>3. Sync("MTE2", "V", 0) = Slice(u, 5, 7)
  BY DEF Slice, Sync
<1>4. <<Vec("TROWEXPANDMUL", Ub("recvTile"), <<Ub("recvTile"), Ub("gammaTile")>>),
          Vec("TADD", Ub("sTile"), <<Ub("sTile"), Ub("recvTile")>>)>> = Slice(u, 7, 9)
  BY DEF Slice
<1>5. Sync("V", "MTE3", 0) = Slice(u, 9, 11)
  BY DEF Slice, Sync
<1>6. ForwardWait(k) = Slice(u, 0, 11)
  <2> HIDE DEF u
  <2>1. /\ Then(Slice(u, 0, 2), Slice(u, 2, 5)) = Slice(u, 0, 5)
        /\ Then(Slice(u, 0, 5), Slice(u, 5, 7)) = Slice(u, 0, 7)
        /\ Then(Slice(u, 0, 7), Slice(u, 7, 9)) = Slice(u, 0, 9)
        /\ Then(Slice(u, 0, 9), Slice(u, 9, 11)) = Slice(u, 0, 11)
    BY Slices
  <2> QED
    BY <1>1, <1>2, <1>3, <1>4, <1>5, <2>1, Zenon DEF Then, ForwardWait
<1>7. <<Store(Gm("output", k), Ub("sTile"))>> = Slice(u, 11, 12)
  BY DEF Slice
<1>8. <<Store(Gm("remote", k), Ub("sTile"))>> = Slice(u, 12, 13)
  BY DEF Slice
<1>9. Sync("MTE3", "S", 7) = Slice(u, 13, 15)
  BY DEF Slice, Sync
<1>10. <<Barrier, Scalar("TNOTIFY")>> = Slice(u, 15, 17)
  BY DEF Slice
<1>11. FlushOut = Slice(u, 13, 17)
  <2> HIDE DEF u
  <2>1. /\ Then(Slice(u, 13, 15), Slice(u, 15, 17)) = Slice(u, 13, 17)
    BY Slices
  <2> QED
    BY <1>9, <1>10, <2>1, Zenon DEF Then, FlushOut
<1>12. ForwardPush(k) = Slice(u, 12, 17)
  <2> HIDE DEF u
  <2>1. /\ Then(Slice(u, 12, 13), Slice(u, 13, 17)) = Slice(u, 12, 17)
    BY Slices
  <2> QED
    BY <1>8, <1>11, <2>1, Zenon DEF Then, ForwardPush
<1>13. s = Slice(u, 0, 17)
  <2> HIDE DEF u
  <2>1. /\ Then(Slice(u, 0, 11), Slice(u, 11, 12)) = Slice(u, 0, 12)
        /\ Then(Slice(u, 0, 12), Slice(u, 12, 17)) = Slice(u, 0, 17)
    BY Slices
  <2>2. "middle" # "first" /\ "middle" # "last"
    OBVIOUS
  <2> QED
    BY <1>6, <1>7, <1>12, <2>1, <2>2, Zenon DEF Then, ForwardBlock
<1>14. PICK n \in Nat : n = 17
  OBVIOUS
<1>15. IsList(s) /\ Len(s) = 17 /\ \A i \in 1..17 : s[i] = u[i]
  <2> HIDE DEF u, s
  <2>1. IsList(Slice(u, 0, n)) /\ Len(Slice(u, 0, n)) = n /\ \A i \in 1..n : Slice(u, 0, n)[i] = u[i]
    BY SliceAll
  <2> QED
    BY <1>13, <1>14, <2>1
<1> HIDE DEF s
<1>16. /\ Entry(s, 1, Scalar("TWAIT")) /\ Entry(s, 2, Barrier)
       /\ Entry(s, 3, Load(Ub("recvTile"), Gm("recv", k)))
       /\ Entry(s, 4, Load(Ub("gammaTile"), Gm("gamma", k)))
       /\ Entry(s, 5, Load(Ub("sTile"), Gm("s_local", k))) /\ Entry(s, 6, SetFlag("MTE2", "V", 0))
       /\ Entry(s, 7, WaitFlag("MTE2", "V", 0))
       /\ Entry(s, 8, Vec("TROWEXPANDMUL", Ub("recvTile"), <<Ub("recvTile"), Ub("gammaTile")>>))
       /\ Entry(s, 9, Vec("TADD", Ub("sTile"), <<Ub("sTile"), Ub("recvTile")>>))
       /\ Entry(s, 10, SetFlag("V", "MTE3", 0)) /\ Entry(s, 11, WaitFlag("V", "MTE3", 0))
       /\ Entry(s, 12, Store(Gm("output", k), Ub("sTile")))
       /\ Entry(s, 13, Store(Gm("remote", k), Ub("sTile"))) /\ Entry(s, 14, SetFlag("MTE3", "S", 7))
       /\ Entry(s, 15, WaitFlag("MTE3", "S", 7)) /\ Entry(s, 16, Barrier)
       /\ Entry(s, 17, Scalar("TNOTIFY"))
  BY <1>15 DEF Entry
<1> HIDE DEF u
<1>17. /\ PauseAt(s, 1) /\ FenceAt(s, 2) /\ SetAt(s, 6, "MTE2", "V", 0) /\ WaitAt(s, 7, "MTE2", "V", 0)
       /\ SetAt(s, 10, "V", "MTE3", 0) /\ WaitAt(s, 11, "V", "MTE3", 0) /\ SetAt(s, 14, "MTE3", "S", 7)
       /\ WaitAt(s, 15, "MTE3", "S", 7) /\ FenceAt(s, 16) /\ PauseAt(s, 17)
  BY <1>15, <1>16, SyncsAre
<1>18. /\ MoveAt(s, 3, "MTE2", "copy", <<Ub("recvTile")>>, <<Gm("recv", k)>>)
       /\ MoveAt(s, 4, "MTE2", "copy", <<Ub("gammaTile")>>, <<Gm("gamma", k)>>)
       /\ MoveAt(s, 5, "MTE2", "copy", <<Ub("sTile")>>, <<Gm("s_local", k)>>)
       /\ MoveAt(s, 8, "V", "TROWEXPANDMUL", <<Ub("recvTile")>>, <<Ub("recvTile"), Ub("gammaTile")>>)
       /\ MoveAt(s, 9, "V", "TADD", <<Ub("sTile")>>, <<Ub("sTile"), Ub("recvTile")>>)
       /\ MoveAt(s, 12, "MTE3", "copy", <<Gm("output", k)>>, <<Ub("sTile")>>)
       /\ MoveAt(s, 13, "MTE3", "copy", <<Gm("remote", k)>>, <<Ub("sTile")>>)
  BY <1>15, <1>16, MovesAre
<1> QED
  BY <1>15, <1>17, <1>18 DEF ForwardMiddleRows, s

ForwardMiddleCells(s, k) ==
  /\ \A b \in 1..17 : b \in {3, 4, 5, 8, 9, 12, 13} \/ StillAt(s, b)
  /\ \A b \in {3, 4, 5, 8, 9, 12, 13} : Moves(s[b])
  /\ \A b \in 1..17 : \A c : Puts(s, b, c) \/ Takes(s, b, c) => b \in {3, 4, 5, 8, 9, 12, 13}
  /\ \A c : Puts(s, 3, c) <=> c = Ub("recvTile")
  /\ \A c : Puts(s, 4, c) <=> c = Ub("gammaTile")
  /\ \A c : Puts(s, 5, c) <=> c = Ub("sTile")
  /\ \A c : Puts(s, 8, c) <=> c = Ub("recvTile")
  /\ \A c : Puts(s, 9, c) <=> c = Ub("sTile")
  /\ \A c : Puts(s, 12, c) <=> c = Gm("output", k)
  /\ \A c : Puts(s, 13, c) <=> c = Gm("remote", k)
  /\ \A c : Takes(s, 3, c) <=> c = Gm("recv", k)
  /\ \A c : Takes(s, 4, c) <=> c = Gm("gamma", k)
  /\ \A c : Takes(s, 5, c) <=> c = Gm("s_local", k)
  /\ \A c : Takes(s, 8, c) <=> c = Ub("recvTile") \/ c = Ub("gammaTile")
  /\ \A c : Takes(s, 9, c) <=> c = Ub("sTile") \/ c = Ub("recvTile")
  /\ \A c : Takes(s, 12, c) <=> c = Ub("sTile")
  /\ \A c : Takes(s, 13, c) <=> c = Ub("sTile")

LEMMA ForwardMiddleUses == ASSUME NEW s, NEW k, ForwardMiddleRows(s, k) PROVE ForwardMiddleCells(s, k)
<1>1. /\ StillAt(s, 1) /\ StillAt(s, 2) /\ StillAt(s, 6) /\ StillAt(s, 7) /\ StillAt(s, 10)
      /\ StillAt(s, 11) /\ StillAt(s, 14) /\ StillAt(s, 15) /\ StillAt(s, 16) /\ StillAt(s, 17)
  BY FlagsAreStill DEF ForwardMiddleRows
<1>2. \A b \in 1..17 : b \in {3, 4, 5, 8, 9, 12, 13} \/ StillAt(s, b)
  BY <1>1
<1>3. \A b \in {3, 4, 5, 8, 9, 12, 13} : Moves(s[b])
  BY DEF ForwardMiddleRows, MoveAt
<1>4. \A b \in 1..17 : \A c : Puts(s, b, c) \/ Takes(s, b, c) => b \in {3, 4, 5, 8, 9, 12, 13}
  BY <1>2, CellsUsed
<1>5. /\ \A c : Puts(s, 3, c) <=> c = Ub("recvTile")
      /\ \A c : Puts(s, 4, c) <=> c = Ub("gammaTile")
      /\ \A c : Puts(s, 5, c) <=> c = Ub("sTile")
      /\ \A c : Puts(s, 8, c) <=> c = Ub("recvTile")
      /\ \A c : Puts(s, 9, c) <=> c = Ub("sTile")
      /\ \A c : Puts(s, 12, c) <=> c = Gm("output", k)
  <2>1. /\ MoveAt(s, 3, "MTE2", "copy", <<Ub("recvTile")>>, <<Gm("recv", k)>>)
        /\ MoveAt(s, 4, "MTE2", "copy", <<Ub("gammaTile")>>, <<Gm("gamma", k)>>)
        /\ MoveAt(s, 5, "MTE2", "copy", <<Ub("sTile")>>, <<Gm("s_local", k)>>)
        /\ MoveAt(s, 8, "V", "TROWEXPANDMUL", <<Ub("recvTile")>>, <<Ub("recvTile"), Ub("gammaTile")>>)
        /\ MoveAt(s, 9, "V", "TADD", <<Ub("sTile")>>, <<Ub("sTile"), Ub("recvTile")>>)
        /\ MoveAt(s, 12, "MTE3", "copy", <<Gm("output", k)>>, <<Ub("sTile")>>)
    BY DEF ForwardMiddleRows
  <2> QED
    BY <2>1, CellsUsed
<1>6. /\ \A c : Puts(s, 13, c) <=> c = Gm("remote", k)
  <2>1. /\ MoveAt(s, 13, "MTE3", "copy", <<Gm("remote", k)>>, <<Ub("sTile")>>)
    BY DEF ForwardMiddleRows
  <2> QED
    BY <2>1, CellsUsed
<1>7. /\ \A c : Takes(s, 3, c) <=> c = Gm("recv", k)
      /\ \A c : Takes(s, 4, c) <=> c = Gm("gamma", k)
      /\ \A c : Takes(s, 5, c) <=> c = Gm("s_local", k)
      /\ \A c : Takes(s, 8, c) <=> c = Ub("recvTile") \/ c = Ub("gammaTile")
      /\ \A c : Takes(s, 9, c) <=> c = Ub("sTile") \/ c = Ub("recvTile")
      /\ \A c : Takes(s, 12, c) <=> c = Ub("sTile")
  <2>1. /\ MoveAt(s, 3, "MTE2", "copy", <<Ub("recvTile")>>, <<Gm("recv", k)>>)
        /\ MoveAt(s, 4, "MTE2", "copy", <<Ub("gammaTile")>>, <<Gm("gamma", k)>>)
        /\ MoveAt(s, 5, "MTE2", "copy", <<Ub("sTile")>>, <<Gm("s_local", k)>>)
        /\ MoveAt(s, 8, "V", "TROWEXPANDMUL", <<Ub("recvTile")>>, <<Ub("recvTile"), Ub("gammaTile")>>)
        /\ MoveAt(s, 9, "V", "TADD", <<Ub("sTile")>>, <<Ub("sTile"), Ub("recvTile")>>)
        /\ MoveAt(s, 12, "MTE3", "copy", <<Gm("output", k)>>, <<Ub("sTile")>>)
    BY DEF ForwardMiddleRows
  <2> QED
    BY <2>1, CellsUsed
<1>8. /\ \A c : Takes(s, 13, c) <=> c = Ub("sTile")
  <2>1. /\ MoveAt(s, 13, "MTE3", "copy", <<Gm("remote", k)>>, <<Ub("sTile")>>)
    BY DEF ForwardMiddleRows
  <2> QED
    BY <2>1, CellsUsed
<1> QED
  BY <1>2, <1>3, <1>4, <1>5, <1>6, <1>7, <1>8 DEF ForwardMiddleCells

LEMMA ForwardMiddleTidy == ASSUME NEW s, NEW k, ForwardMiddleRows(s, k) PROVE Sound(s) /\ Tidy(s)
<1>1. IsList(s) /\ Len(s) = 17
  BY DEF ForwardMiddleRows
<1>2. Paired(s)
  <2>1. PairedAt(s, 6) /\ PairedAt(s, 7)
    BY SyncPaired DEF ForwardMiddleRows
  <2>2. PairedAt(s, 10) /\ PairedAt(s, 11)
    BY SyncPaired DEF ForwardMiddleRows
  <2>3. PairedAt(s, 14) /\ PairedAt(s, 15)
    BY SyncPaired DEF ForwardMiddleRows
  <2>4. /\ PairedAt(s, 1) /\ PairedAt(s, 2) /\ PairedAt(s, 3) /\ PairedAt(s, 4) /\ PairedAt(s, 5)
        /\ PairedAt(s, 8) /\ PairedAt(s, 9) /\ PairedAt(s, 12) /\ PairedAt(s, 13) /\ PairedAt(s, 16)
        /\ PairedAt(s, 17)
    BY StillPaired DEF ForwardMiddleRows
  <2> QED
    BY <1>1, <2>1, <2>2, <2>3, <2>4 DEF Paired
<1>3. /\ RunsOn(s, 3, "MTE2") /\ RunsOn(s, 4, "MTE2") /\ RunsOn(s, 5, "MTE2") /\ RunsOn(s, 8, "V")
      /\ RunsOn(s, 9, "V") /\ RunsOn(s, 12, "MTE3") /\ RunsOn(s, 13, "MTE3")
  BY MoveRuns DEF ForwardMiddleRows
<1>4. ForwardMiddleCells(s, k)
  BY ForwardMiddleUses
<1>5. Before(s, 3, 8)
  BY <1>3, ByFlag DEF ForwardMiddleRows
<1>6. Before(s, 3, 9)
  BY <1>3, ByFlag DEF ForwardMiddleRows
<1>7. Before(s, 4, 8)
  BY <1>3, ByFlag DEF ForwardMiddleRows
<1>8. Before(s, 5, 9)
  BY <1>3, ByFlag DEF ForwardMiddleRows
<1>9. Before(s, 5, 8)
  BY <1>3, ByFlag DEF ForwardMiddleRows
<1>10. Before(s, 8, 12)
  BY <1>3, ByFlag DEF ForwardMiddleRows
<1>11. Before(s, 5, 12)
  BY <1>9, <1>10, ByBoth
<1>12. Before(s, 8, 13)
  BY <1>3, ByFlag DEF ForwardMiddleRows
<1>13. Before(s, 5, 13)
  BY <1>9, <1>12, ByBoth
<1>14. Before(s, 8, 9)
  BY <1>3, ByPipe
<1>15. Before(s, 9, 12)
  BY <1>3, ByFlag DEF ForwardMiddleRows
<1>16. Before(s, 9, 13)
  BY <1>3, ByFlag DEF ForwardMiddleRows
<1>17. OrderedFrom(s, 3)
  <2>1. ASSUME NEW b \in 1..17, NEW c, 3 < b, Clash(s, 3, b, c) PROVE Before(s, 3, b)
    BY <1>4, <1>5, <1>6, <2>1, Named DEF ForwardMiddleCells, Clash
  <2> QED
    BY <1>1, <2>1, ClashBefore
<1>18. OrderedFrom(s, 4)
  <2>1. ASSUME NEW b \in 1..17, NEW c, 4 < b, Clash(s, 4, b, c) PROVE Before(s, 4, b)
    BY <1>4, <1>7, <2>1, Named DEF ForwardMiddleCells, Clash
  <2> QED
    BY <1>1, <2>1, ClashBefore
<1>19. OrderedFrom(s, 5)
  <2>1. ASSUME NEW b \in 1..17, NEW c, 5 < b, Clash(s, 5, b, c) PROVE Before(s, 5, b)
    BY <1>4, <1>9, <1>8, <1>11, <1>13, <2>1, Named DEF ForwardMiddleCells, Clash
  <2> QED
    BY <1>1, <2>1, ClashBefore
<1>20. OrderedFrom(s, 8)
  <2>1. ASSUME NEW b \in 1..17, NEW c, 8 < b, Clash(s, 8, b, c) PROVE Before(s, 8, b)
    BY <1>4, <1>14, <1>10, <1>12, <2>1, Named DEF ForwardMiddleCells, Clash
  <2> QED
    BY <1>1, <2>1, ClashBefore
<1>21. OrderedFrom(s, 9)
  <2>1. ASSUME NEW b \in 1..17, NEW c, 9 < b, Clash(s, 9, b, c) PROVE Before(s, 9, b)
    BY <1>4, <1>15, <1>16, <2>1, Named DEF ForwardMiddleCells, Clash
  <2> QED
    BY <1>1, <2>1, ClashBefore
<1>22. OrderedFrom(s, 12)
  <2>1. ASSUME NEW b \in 1..17, NEW c, 12 < b, Clash(s, 12, b, c) PROVE Before(s, 12, b)
    BY <1>4, <2>1, Named DEF ForwardMiddleCells, Clash
  <2> QED
    BY <1>1, <2>1, ClashBefore
<1>23. OrderedFrom(s, 13)
  <2>1. ASSUME NEW b \in 1..17, NEW c, 13 < b, Clash(s, 13, b, c) PROVE Before(s, 13, b)
    BY <1>4, <2>1, Named DEF ForwardMiddleCells, Clash
  <2> QED
    BY <1>1, <2>1, ClashBefore
<1>24. Ordered(s)
  BY <1>1, <1>4, <1>17, <1>18, <1>19, <1>20, <1>21, <1>22, <1>23, OrderedAll
     DEF ForwardMiddleCells
<1>25. Plain(s)
  BY <1>1, <1>4 DEF ForwardMiddleCells, Plain, StillAt
<1> QED
  BY <1>1, <1>2, <1>24, <1>25 DEF Sound, Tidy

ForwardMiddleMade(k) ==
  <<Scratch, Scratch, Gm("recv", k), Gm("gamma", k), Gm("s_local", k),
    Scratch, Scratch, <<"TROWEXPANDMUL", Gm("recv", k), Gm("gamma", k)>>,
    <<"TADD", Gm("s_local", k), <<"TROWEXPANDMUL", Gm("recv", k), Gm("gamma", k)>>>>, Scratch,
    Scratch, <<"TADD", Gm("s_local", k), <<"TROWEXPANDMUL", Gm("recv", k), Gm("gamma", k)>>>>,
    <<"TADD", Gm("s_local", k), <<"TROWEXPANDMUL", Gm("recv", k), Gm("gamma", k)>>>>, Scratch,
    Scratch, Scratch, Scratch>>

LEMMA ForwardMiddleMakes ==
  ASSUME NEW s, NEW k, ForwardMiddleRows(s, k)
  PROVE  /\ Annotated(s, ForwardMiddleMade(k))
         /\ Delivers(s, ForwardMiddleMade(k),
                {<<Gm("output", k), <<"TADD", Gm("s_local", k),
                <<"TROWEXPANDMUL", Gm("recv", k), Gm("gamma", k)>>>>>>,
                      <<Gm("remote", k), <<"TADD", Gm("s_local", k),
                          <<"TROWEXPANDMUL", Gm("recv", k), Gm("gamma", k)>>>>>>})
<1> DEFINE v == ForwardMiddleMade(k)
<1>1. IsList(s) /\ Len(s) = 17
  BY DEF ForwardMiddleRows
<1>2. IsList(v) /\ Len(v) = 17
  <2>1. v = Slice(v, 0, 17)
    BY DEF Slice, ForwardMiddleMade
  <2>2. PICK n \in Nat : n = 17
    OBVIOUS
  <2> HIDE DEF v
  <2> QED
    BY <2>1, <2>2, ListOf
<1>3. /\ v[1] = Scratch /\ v[2] = Scratch /\ v[3] = Gm("recv", k) /\ v[4] = Gm("gamma", k)
      /\ v[5] = Gm("s_local", k) /\ v[6] = Scratch /\ v[7] = Scratch
      /\ v[8] = <<"TROWEXPANDMUL", Gm("recv", k), Gm("gamma", k)>>
      /\ v[9] = <<"TADD", Gm("s_local", k), <<"TROWEXPANDMUL", Gm("recv", k), Gm("gamma", k)>>>>
      /\ v[10] = Scratch /\ v[11] = Scratch
      /\ v[12] = <<"TADD", Gm("s_local", k), <<"TROWEXPANDMUL", Gm("recv", k), Gm("gamma", k)>>>>
      /\ v[13] = <<"TADD", Gm("s_local", k), <<"TROWEXPANDMUL", Gm("recv", k), Gm("gamma", k)>>>>
      /\ v[14] = Scratch /\ v[15] = Scratch /\ v[16] = Scratch /\ v[17] = Scratch
  BY DEF ForwardMiddleMade
<1> HIDE DEF v
<1>0. ForwardMiddleCells(s, k)
  BY ForwardMiddleUses
<1>4. /\ s[3].dst[1] = Ub("recvTile") /\ s[4].dst[1] = Ub("gammaTile") /\ s[5].dst[1] = Ub("sTile")
      /\ s[8].dst[1] = Ub("recvTile") /\ s[9].dst[1] = Ub("sTile") /\ s[12].dst[1] = Gm("output", k)
      /\ s[13].dst[1] = Gm("remote", k)
  BY DEF ForwardMiddleRows, MoveAt
<1>5. \A j \in 1..17 : Puts(s, j, Ub("recvTile")) => j \in {3, 8}
  BY <1>0, Named DEF ForwardMiddleCells
<1>6. \A j \in 1..17 : Puts(s, j, Gm("recv", k)) => j \in {}
  BY <1>0, Named DEF ForwardMiddleCells
<1>7. \A j \in 1..17 : Puts(s, j, Ub("gammaTile")) => j \in {4}
  BY <1>0, Named DEF ForwardMiddleCells
<1>8. \A j \in 1..17 : Puts(s, j, Gm("gamma", k)) => j \in {}
  BY <1>0, Named DEF ForwardMiddleCells
<1>9. \A j \in 1..17 : Puts(s, j, Ub("sTile")) => j \in {5, 9}
  BY <1>0, Named DEF ForwardMiddleCells
<1>10. \A j \in 1..17 : Puts(s, j, Gm("s_local", k)) => j \in {}
  BY <1>0, Named DEF ForwardMiddleCells
<1>11. \A j \in 1..17 : Puts(s, j, Gm("output", k)) => j \in {12}
  BY <1>0, Named DEF ForwardMiddleCells
<1>12. \A j \in 1..17 : Puts(s, j, Gm("remote", k)) => j \in {13}
  BY <1>0, Named DEF ForwardMiddleCells
<1>13. v[3] = Made(s, v, 3)
  <2>1. NoWrite(s, Gm("recv", k), 3)
    BY <1>0, <1>1, <1>4, <1>6 DEF ForwardMiddleCells, LastWrite, NoWrite
  <2>2. Holds(s, v, Gm("recv", k), 3) = Gm("recv", k)
    BY <2>1, HeldBy
  <2>3. Made(s, v, 3) = Holds(s, v, Gm("recv", k), 3)
    BY MadeOf DEF ForwardMiddleRows
  <2> QED
    BY <1>3, <2>2, <2>3
<1>14. v[4] = Made(s, v, 4)
  <2>1. NoWrite(s, Gm("gamma", k), 4)
    BY <1>0, <1>1, <1>4, <1>8 DEF ForwardMiddleCells, LastWrite, NoWrite
  <2>2. Holds(s, v, Gm("gamma", k), 4) = Gm("gamma", k)
    BY <2>1, HeldBy
  <2>3. Made(s, v, 4) = Holds(s, v, Gm("gamma", k), 4)
    BY MadeOf DEF ForwardMiddleRows
  <2> QED
    BY <1>3, <2>2, <2>3
<1>15. v[5] = Made(s, v, 5)
  <2>1. NoWrite(s, Gm("s_local", k), 5)
    BY <1>0, <1>1, <1>4, <1>10 DEF ForwardMiddleCells, LastWrite, NoWrite
  <2>2. Holds(s, v, Gm("s_local", k), 5) = Gm("s_local", k)
    BY <2>1, HeldBy
  <2>3. Made(s, v, 5) = Holds(s, v, Gm("s_local", k), 5)
    BY MadeOf DEF ForwardMiddleRows
  <2> QED
    BY <1>3, <2>2, <2>3
<1>16. v[8] = Made(s, v, 8)
  <2>1. LastWrite(s, Ub("recvTile"), 8, 3) /\ LastWrite(s, Ub("gammaTile"), 8, 4)
    BY <1>0, <1>1, <1>4, <1>5, <1>7 DEF ForwardMiddleCells, LastWrite, NoWrite
  <2>2. Holds(s, v, Ub("recvTile"), 8) = v[3] /\ Holds(s, v, Ub("gammaTile"), 8) = v[4]
    BY <2>1, HeldBy
  <2>3. Made(s, v, 8) = <<"TROWEXPANDMUL", Holds(s, v, Ub("recvTile"), 8), Holds(s, v, Ub("gammaTile"), 8)>>
    <3>1. "TROWEXPANDMUL" # "copy" /\
              MoveAt(s, 8, "V", "TROWEXPANDMUL", <<Ub("recvTile")>>, <<Ub("recvTile"), Ub("gammaTile")>>)
      BY DEF ForwardMiddleRows
    <3> QED
      BY <3>1, MadeOfTwo
  <2> QED
    BY <1>3, <2>2, <2>3
<1>17. v[9] = Made(s, v, 9)
  <2>1. LastWrite(s, Ub("sTile"), 9, 5) /\ LastWrite(s, Ub("recvTile"), 9, 8)
    BY <1>0, <1>1, <1>4, <1>9, <1>5 DEF ForwardMiddleCells, LastWrite, NoWrite
  <2>2. Holds(s, v, Ub("sTile"), 9) = v[5] /\ Holds(s, v, Ub("recvTile"), 9) = v[8]
    BY <2>1, HeldBy
  <2>3. Made(s, v, 9) = <<"TADD", Holds(s, v, Ub("sTile"), 9), Holds(s, v, Ub("recvTile"), 9)>>
    <3>1. "TADD" # "copy" /\ MoveAt(s, 9, "V", "TADD", <<Ub("sTile")>>, <<Ub("sTile"), Ub("recvTile")>>)
      BY DEF ForwardMiddleRows
    <3> QED
      BY <3>1, MadeOfTwo
  <2> QED
    BY <1>3, <2>2, <2>3
<1>18. v[12] = Made(s, v, 12)
  <2>1. LastWrite(s, Ub("sTile"), 12, 9)
    BY <1>0, <1>1, <1>4, <1>9 DEF ForwardMiddleCells, LastWrite, NoWrite
  <2>2. Holds(s, v, Ub("sTile"), 12) = v[9]
    BY <2>1, HeldBy
  <2>3. Made(s, v, 12) = Holds(s, v, Ub("sTile"), 12)
    BY MadeOf DEF ForwardMiddleRows
  <2> QED
    BY <1>3, <2>2, <2>3
<1>19. v[13] = Made(s, v, 13)
  <2>1. LastWrite(s, Ub("sTile"), 13, 9)
    BY <1>0, <1>1, <1>4, <1>9 DEF ForwardMiddleCells, LastWrite, NoWrite
  <2>2. Holds(s, v, Ub("sTile"), 13) = v[9]
    BY <2>1, HeldBy
  <2>3. Made(s, v, 13) = Holds(s, v, Ub("sTile"), 13)
    BY MadeOf DEF ForwardMiddleRows
  <2> QED
    BY <1>3, <2>2, <2>3
<1>20. /\ v[1] = Made(s, v, 1) /\ v[2] = Made(s, v, 2) /\ v[6] = Made(s, v, 6) /\ v[7] = Made(s, v, 7)
      /\ v[10] = Made(s, v, 10) /\ v[11] = Made(s, v, 11) /\ v[14] = Made(s, v, 14)
      /\ v[15] = Made(s, v, 15) /\ v[16] = Made(s, v, 16) /\ v[17] = Made(s, v, 17)
  <2>1. /\ StillAt(s, 1) /\ StillAt(s, 2) /\ StillAt(s, 6) /\ StillAt(s, 7) /\ StillAt(s, 10)
        /\ StillAt(s, 11) /\ StillAt(s, 14) /\ StillAt(s, 15) /\ StillAt(s, 16) /\ StillAt(s, 17)
    BY FlagsAreStill DEF ForwardMiddleRows
  <2> QED
    BY <1>3, <2>1, MadeStill
<1>21. Annotated(s, v)
  BY <1>1, <1>2, <1>13, <1>14, <1>15, <1>16, <1>17, <1>18, <1>19, <1>20 DEF Annotated
<1>22. Writers(s, Gm("output", k)) # {} /\
           Contents(s, v, Gm("output", k), Writers(s, Gm("output", k))) = v[12]
  <2>1. Leaves(s, Gm("output", k), 12)
    BY <1>0, <1>1, <1>4, <1>11 DEF ForwardMiddleCells, Leaves, LastWrite
  <2> QED
    BY <2>1, LeftBy
<1>23. Writers(s, Gm("remote", k)) # {} /\
           Contents(s, v, Gm("remote", k), Writers(s, Gm("remote", k))) = v[13]
  <2>1. Leaves(s, Gm("remote", k), 13)
    BY <1>0, <1>1, <1>4, <1>12 DEF ForwardMiddleCells, Leaves, LastWrite
  <2> QED
    BY <2>1, LeftBy
<1> QED
  BY <1>3, <1>21, <1>22, <1>23 DEF Delivers, v

LEMMA ForwardMiddleFits ==
  ASSUME NEW s, NEW k, ForwardMiddleRows(s, k) PROVE Local(s, k) /\ Headed(s)
<1>1. Len(s) = 17
  BY DEF ForwardMiddleRows
<1>2. ForwardMiddleCells(s, k)
  BY ForwardMiddleUses
<1>3. Headed(s)
  <2>1. 2 \in 1..Len(s) /\ IsFence(s[2])
    BY <1>1 DEF ForwardMiddleRows, FenceAt
  <2>2. \A b \in 1..Len(s) : Moves(s[b]) => 2 < b
    <3>1. \A b \in 1..17 : b \in {3, 4, 5, 8, 9, 12, 13} \/ StillAt(s, b)
      BY <1>2 DEF ForwardMiddleCells
    <3> QED
      BY <1>1, <3>1 DEF StillAt
  <2> QED
    BY <2>1, <2>2 DEF Headed
<1>4. /\ Ub("recvTile")[1] = "recvTile" /\ Gm("recv", k)[1] = "recv" /\ Gm("recv", k)[2] = k
      /\ Ub("gammaTile")[1] = "gammaTile" /\ Gm("gamma", k)[1] = "gamma" /\ Gm("gamma", k)[2] = k
      /\ Ub("sTile")[1] = "sTile" /\ Gm("s_local", k)[1] = "s_local" /\ Gm("s_local", k)[2] = k
      /\ Gm("output", k)[1] = "output" /\ Gm("output", k)[2] = k
      /\ Gm("remote", k)[1] = "remote" /\ Gm("remote", k)[2] = k
  BY Named
<1>5. \A b \in 1..17 : \A c : Puts(s, b, c) \/ Takes(s, b, c) => b \in {3, 4, 5, 8, 9, 12, 13}
  BY <1>2 DEF ForwardMiddleCells
<1>6. \A i \in 1..Len(s) : \A c : Puts(s, i, c) => c[1] \in Tiles \/ (c[1] \in Outputs /\ c[2] = k)
  <2>1. \A i \in {3, 4, 5, 8, 9, 12, 13} : \A c : Puts(s, i, c) => c = Ub("recvTile") \/
            c = Ub("gammaTile") \/ c = Ub("sTile") \/ c = Gm("output", k) \/ c = Gm("remote", k)
    BY <1>2 DEF ForwardMiddleCells
  <2> QED
    BY <1>1, <1>4, <1>5, <2>1 DEF Tiles, Outputs
<1>7. \A c : Takes(s, 3, c) => Known(s, 3, c)
  <2>1. Known(s, 3, Gm("recv", k))
    BY <1>4, KnownBy DEF Inputs
  <2> QED
    BY <1>2, <2>1 DEF ForwardMiddleCells
<1>8. \A c : Takes(s, 4, c) => Known(s, 4, c)
  <2>1. Known(s, 4, Gm("gamma", k))
    BY <1>4, KnownBy DEF Inputs
  <2> QED
    BY <1>2, <2>1 DEF ForwardMiddleCells
<1>9. \A c : Takes(s, 5, c) => Known(s, 5, c)
  <2>1. Known(s, 5, Gm("s_local", k))
    BY <1>4, KnownBy DEF Inputs
  <2> QED
    BY <1>2, <2>1 DEF ForwardMiddleCells
<1>10. \A c : Takes(s, 8, c) => Known(s, 8, c)
  <2>1. Known(s, 8, Ub("recvTile"))
    <3>1. 3 \in 1..(8 - 1) /\ Puts(s, 3, Ub("recvTile"))
      BY <1>2 DEF ForwardMiddleCells
    <3> QED
      BY <3>1, KnownBy
  <2>2. Known(s, 8, Ub("gammaTile"))
    <3>1. 4 \in 1..(8 - 1) /\ Puts(s, 4, Ub("gammaTile"))
      BY <1>2 DEF ForwardMiddleCells
    <3> QED
      BY <3>1, KnownBy
  <2> QED
    BY <1>2, <2>1, <2>2 DEF ForwardMiddleCells
<1>11. \A c : Takes(s, 9, c) => Known(s, 9, c)
  <2>1. Known(s, 9, Ub("sTile"))
    <3>1. 5 \in 1..(9 - 1) /\ Puts(s, 5, Ub("sTile"))
      BY <1>2 DEF ForwardMiddleCells
    <3> QED
      BY <3>1, KnownBy
  <2>2. Known(s, 9, Ub("recvTile"))
    <3>1. 8 \in 1..(9 - 1) /\ Puts(s, 8, Ub("recvTile"))
      BY <1>2 DEF ForwardMiddleCells
    <3> QED
      BY <3>1, KnownBy
  <2> QED
    BY <1>2, <2>1, <2>2 DEF ForwardMiddleCells
<1>12. \A c : Takes(s, 12, c) => Known(s, 12, c)
  <2>1. Known(s, 12, Ub("sTile"))
    <3>1. 9 \in 1..(12 - 1) /\ Puts(s, 9, Ub("sTile"))
      BY <1>2 DEF ForwardMiddleCells
    <3> QED
      BY <3>1, KnownBy
  <2> QED
    BY <1>2, <2>1 DEF ForwardMiddleCells
<1>13. \A c : Takes(s, 13, c) => Known(s, 13, c)
  <2>1. Known(s, 13, Ub("sTile"))
    <3>1. 9 \in 1..(13 - 1) /\ Puts(s, 9, Ub("sTile"))
      BY <1>2 DEF ForwardMiddleCells
    <3> QED
      BY <3>1, KnownBy
  <2> QED
    BY <1>2, <2>1 DEF ForwardMiddleCells
<1>14. \A i \in 1..Len(s) : \A c : Takes(s, i, c) => Known(s, i, c)
  BY <1>1, <1>5, <1>7, <1>8, <1>9, <1>10, <1>11, <1>12, <1>13
<1> QED
  BY <1>3, <1>6, <1>14 DEF Local

ForwardMiddleStores(k) ==
  {<<Gm("output", k), ScanResult("middle", k)>>, <<Gm("remote", k), ScanResult("middle", k)>>}

LEMMA ForwardMiddleBlock ==
  ASSUME NEW k
  PROVE  /\ IsBlock(ForwardBlock("middle", k), ForwardMiddleMade(k), ForwardMiddleStores(k), k)
         /\ Headed(ForwardBlock("middle", k))
<1> DEFINE s == ForwardBlock("middle", k)
<1>1. ForwardMiddleRows(s, k)
  BY ForwardMiddleIs
<1> HIDE DEF s
<1>2. Sound(s) /\ Tidy(s) /\ Local(s, k) /\ Headed(s)
  BY <1>1, ForwardMiddleTidy, ForwardMiddleFits
<1>3. Annotated(s, ForwardMiddleMade(k)) /\ Delivers(s, ForwardMiddleMade(k), ForwardMiddleStores(k))
  <2>1. "middle" # "first" /\ "middle" # "last"
    OBVIOUS
  <2>2. /\ Annotated(s, ForwardMiddleMade(k))
        /\ Delivers(s, ForwardMiddleMade(k),
               {<<Gm("output", k), <<"TADD", Gm("s_local", k),
               <<"TROWEXPANDMUL", Gm("recv", k), Gm("gamma", k)>>>>>>,
                              <<Gm("remote", k), <<"TADD", Gm("s_local", k),
                                  <<"TROWEXPANDMUL", Gm("recv", k), Gm("gamma", k)>>>>>>})
    BY <1>1, ForwardMiddleMakes, Zenon
  <2> QED
    BY <2>1, <2>2, Zenon DEF ForwardMiddleStores, ScanResult
<1>4. \A r \in ForwardMiddleStores(k) : \E x \in Outputs : r[1] = Gm(x, k)
  BY DEF ForwardMiddleStores, Outputs
<1> QED
  BY <1>2, <1>3, <1>4 DEF IsBlock, s

LEMMA ForwardMiddleScan ==
  Sound(AllScan("middle")) /\ Makes(AllScan("middle"), PromisedScan("middle"))
<1> DEFINE b == [i \in 1..K |-> ForwardBlock("middle", i - 1)]
           u == [i \in 1..K |-> ForwardMiddleMade(i - 1)]
           P == [i \in 1..K |-> ForwardMiddleStores(i - 1)]
<1>1. \A i \in 1..K : b[i] = ForwardBlock("middle", i - 1) /\ u[i] = ForwardMiddleMade(i - 1) /\
          P[i] = ForwardMiddleStores(i - 1)
  OBVIOUS
<1>2. AllScan("middle") = Looped(b, K)
  <2>1. [i \in 1..K |-> b[i]] = [i \in 1..K |-> ForwardBlock("middle", i - 1)]
    OBVIOUS
  <2> QED
    BY <2>1, Zenon DEF AllScan, Loop, Looped, Then
<1>3. Together(P, K) = PromisedScan("middle")
  <2>1. \A k : k \in Blocks <=> \E i \in 1..K : k = i - 1
    BY BlocksAssumption DEF Blocks
  <2> HIDE DEF P
  <2>2. \A r : r \in Together(P, K) <=> \E k \in Blocks : r \in ForwardMiddleStores(k)
    BY <1>1, <2>1 DEF Together
  <2>3. \A r : r \in PromisedScan("middle") <=> \E k \in Blocks : r \in ForwardMiddleStores(k)
    BY DEF PromisedScan, ForwardMiddleStores
  <2> QED
    BY <2>2, <2>3
<1> HIDE DEF b, u, P
<1>4. \A i \in 1..K : IsBlock(b[i], u[i], P[i], i - 1) /\ Headed(b[i])
  BY <1>1, ForwardMiddleBlock
<1>5. Sound(Looped(b, K)) /\ Makes(Looped(b, K), Together(P, K))
  BY <1>4, ScanMakes
<1> QED
  BY <1>2, <1>3, <1>5

\* A block of the forward scan on the last rank
ForwardLastRows(s, k) ==
  /\ IsList(s) /\ Len(s) = 12 /\ PauseAt(s, 1) /\ FenceAt(s, 2)
  /\ MoveAt(s, 3, "MTE2", "copy", <<Ub("recvTile")>>, <<Gm("recv", k)>>)
  /\ MoveAt(s, 4, "MTE2", "copy", <<Ub("gammaTile")>>, <<Gm("gamma", k)>>)
  /\ MoveAt(s, 5, "MTE2", "copy", <<Ub("sTile")>>, <<Gm("s_local", k)>>)
  /\ SetAt(s, 6, "MTE2", "V", 0) /\ WaitAt(s, 7, "MTE2", "V", 0)
  /\ MoveAt(s, 8, "V", "TROWEXPANDMUL", <<Ub("recvTile")>>, <<Ub("recvTile"), Ub("gammaTile")>>)
  /\ MoveAt(s, 9, "V", "TADD", <<Ub("sTile")>>, <<Ub("sTile"), Ub("recvTile")>>)
  /\ SetAt(s, 10, "V", "MTE3", 0) /\ WaitAt(s, 11, "V", "MTE3", 0)
  /\ MoveAt(s, 12, "MTE3", "copy", <<Gm("output", k)>>, <<Ub("sTile")>>)

LEMMA ForwardLastIs == ASSUME NEW k PROVE ForwardLastRows(ForwardBlock("last", k), k)
<1> DEFINE u == <<Scalar("TWAIT"), Barrier, Load(Ub("recvTile"), Gm("recv", k)),
                  Load(Ub("gammaTile"), Gm("gamma", k)), Load(Ub("sTile"), Gm("s_local", k)),
                  SetFlag("MTE2", "V", 0), WaitFlag("MTE2", "V", 0),
                  Vec("TROWEXPANDMUL", Ub("recvTile"), <<Ub("recvTile"), Ub("gammaTile")>>),
                  Vec("TADD", Ub("sTile"), <<Ub("sTile"), Ub("recvTile")>>),
                  SetFlag("V", "MTE3", 0), WaitFlag("V", "MTE3", 0),
                  Store(Gm("output", k), Ub("sTile"))>>
           s == ForwardBlock("last", k)
<1>1. Wait = Slice(u, 0, 2)
  BY DEF Slice, Wait
<1>2. <<Load(Ub("recvTile"), Gm("recv", k)), Load(Ub("gammaTile"), Gm("gamma", k)),
          Load(Ub("sTile"), Gm("s_local", k))>> = Slice(u, 2, 5)
  BY DEF Slice
<1>3. Sync("MTE2", "V", 0) = Slice(u, 5, 7)
  BY DEF Slice, Sync
<1>4. <<Vec("TROWEXPANDMUL", Ub("recvTile"), <<Ub("recvTile"), Ub("gammaTile")>>),
          Vec("TADD", Ub("sTile"), <<Ub("sTile"), Ub("recvTile")>>)>> = Slice(u, 7, 9)
  BY DEF Slice
<1>5. Sync("V", "MTE3", 0) = Slice(u, 9, 11)
  BY DEF Slice, Sync
<1>6. ForwardWait(k) = Slice(u, 0, 11)
  <2> HIDE DEF u
  <2>1. /\ Then(Slice(u, 0, 2), Slice(u, 2, 5)) = Slice(u, 0, 5)
        /\ Then(Slice(u, 0, 5), Slice(u, 5, 7)) = Slice(u, 0, 7)
        /\ Then(Slice(u, 0, 7), Slice(u, 7, 9)) = Slice(u, 0, 9)
        /\ Then(Slice(u, 0, 9), Slice(u, 9, 11)) = Slice(u, 0, 11)
    BY Slices
  <2> QED
    BY <1>1, <1>2, <1>3, <1>4, <1>5, <2>1, Zenon DEF Then, ForwardWait
<1>7. <<Store(Gm("output", k), Ub("sTile"))>> = Slice(u, 11, 12)
  BY DEF Slice
<1>8. <<>> = Slice(u, 12, 12)
  BY DEF Slice
<1>9. s = Slice(u, 0, 12)
  <2> HIDE DEF u
  <2>1. /\ Then(Slice(u, 0, 11), Slice(u, 11, 12)) = Slice(u, 0, 12)
        /\ Then(Slice(u, 0, 12), Slice(u, 12, 12)) = Slice(u, 0, 12)
    BY Slices
  <2>2. "last" # "first"
    OBVIOUS
  <2> QED
    BY <1>6, <1>7, <1>8, <2>1, <2>2, Zenon DEF Then, ForwardBlock
<1>10. PICK n \in Nat : n = 12
  OBVIOUS
<1>11. IsList(s) /\ Len(s) = 12 /\ \A i \in 1..12 : s[i] = u[i]
  <2> HIDE DEF u, s
  <2>1. IsList(Slice(u, 0, n)) /\ Len(Slice(u, 0, n)) = n /\ \A i \in 1..n : Slice(u, 0, n)[i] = u[i]
    BY SliceAll
  <2> QED
    BY <1>9, <1>10, <2>1
<1> HIDE DEF s
<1>12. /\ Entry(s, 1, Scalar("TWAIT")) /\ Entry(s, 2, Barrier)
       /\ Entry(s, 3, Load(Ub("recvTile"), Gm("recv", k)))
       /\ Entry(s, 4, Load(Ub("gammaTile"), Gm("gamma", k)))
       /\ Entry(s, 5, Load(Ub("sTile"), Gm("s_local", k))) /\ Entry(s, 6, SetFlag("MTE2", "V", 0))
       /\ Entry(s, 7, WaitFlag("MTE2", "V", 0))
       /\ Entry(s, 8, Vec("TROWEXPANDMUL", Ub("recvTile"), <<Ub("recvTile"), Ub("gammaTile")>>))
       /\ Entry(s, 9, Vec("TADD", Ub("sTile"), <<Ub("sTile"), Ub("recvTile")>>))
       /\ Entry(s, 10, SetFlag("V", "MTE3", 0)) /\ Entry(s, 11, WaitFlag("V", "MTE3", 0))
       /\ Entry(s, 12, Store(Gm("output", k), Ub("sTile")))
  BY <1>11 DEF Entry
<1> HIDE DEF u
<1>13. /\ PauseAt(s, 1) /\ FenceAt(s, 2) /\ SetAt(s, 6, "MTE2", "V", 0) /\ WaitAt(s, 7, "MTE2", "V", 0)
       /\ SetAt(s, 10, "V", "MTE3", 0) /\ WaitAt(s, 11, "V", "MTE3", 0)
  BY <1>11, <1>12, SyncsAre
<1>14. /\ MoveAt(s, 3, "MTE2", "copy", <<Ub("recvTile")>>, <<Gm("recv", k)>>)
       /\ MoveAt(s, 4, "MTE2", "copy", <<Ub("gammaTile")>>, <<Gm("gamma", k)>>)
       /\ MoveAt(s, 5, "MTE2", "copy", <<Ub("sTile")>>, <<Gm("s_local", k)>>)
       /\ MoveAt(s, 8, "V", "TROWEXPANDMUL", <<Ub("recvTile")>>, <<Ub("recvTile"), Ub("gammaTile")>>)
       /\ MoveAt(s, 9, "V", "TADD", <<Ub("sTile")>>, <<Ub("sTile"), Ub("recvTile")>>)
       /\ MoveAt(s, 12, "MTE3", "copy", <<Gm("output", k)>>, <<Ub("sTile")>>)
  BY <1>11, <1>12, MovesAre
<1> QED
  BY <1>11, <1>13, <1>14 DEF ForwardLastRows, s

ForwardLastCells(s, k) ==
  /\ \A b \in 1..12 : b \in {3, 4, 5, 8, 9, 12} \/ StillAt(s, b)
  /\ \A b \in {3, 4, 5, 8, 9, 12} : Moves(s[b])
  /\ \A b \in 1..12 : \A c : Puts(s, b, c) \/ Takes(s, b, c) => b \in {3, 4, 5, 8, 9, 12}
  /\ \A c : Puts(s, 3, c) <=> c = Ub("recvTile")
  /\ \A c : Puts(s, 4, c) <=> c = Ub("gammaTile")
  /\ \A c : Puts(s, 5, c) <=> c = Ub("sTile")
  /\ \A c : Puts(s, 8, c) <=> c = Ub("recvTile")
  /\ \A c : Puts(s, 9, c) <=> c = Ub("sTile")
  /\ \A c : Puts(s, 12, c) <=> c = Gm("output", k)
  /\ \A c : Takes(s, 3, c) <=> c = Gm("recv", k)
  /\ \A c : Takes(s, 4, c) <=> c = Gm("gamma", k)
  /\ \A c : Takes(s, 5, c) <=> c = Gm("s_local", k)
  /\ \A c : Takes(s, 8, c) <=> c = Ub("recvTile") \/ c = Ub("gammaTile")
  /\ \A c : Takes(s, 9, c) <=> c = Ub("sTile") \/ c = Ub("recvTile")
  /\ \A c : Takes(s, 12, c) <=> c = Ub("sTile")

LEMMA ForwardLastUses == ASSUME NEW s, NEW k, ForwardLastRows(s, k) PROVE ForwardLastCells(s, k)
<1>1. /\ StillAt(s, 1) /\ StillAt(s, 2) /\ StillAt(s, 6) /\ StillAt(s, 7) /\ StillAt(s, 10)
      /\ StillAt(s, 11)
  BY FlagsAreStill DEF ForwardLastRows
<1>2. \A b \in 1..12 : b \in {3, 4, 5, 8, 9, 12} \/ StillAt(s, b)
  BY <1>1
<1>3. \A b \in {3, 4, 5, 8, 9, 12} : Moves(s[b])
  BY DEF ForwardLastRows, MoveAt
<1>4. \A b \in 1..12 : \A c : Puts(s, b, c) \/ Takes(s, b, c) => b \in {3, 4, 5, 8, 9, 12}
  BY <1>2, CellsUsed
<1>5. /\ \A c : Puts(s, 3, c) <=> c = Ub("recvTile")
      /\ \A c : Puts(s, 4, c) <=> c = Ub("gammaTile")
      /\ \A c : Puts(s, 5, c) <=> c = Ub("sTile")
      /\ \A c : Puts(s, 8, c) <=> c = Ub("recvTile")
      /\ \A c : Puts(s, 9, c) <=> c = Ub("sTile")
      /\ \A c : Puts(s, 12, c) <=> c = Gm("output", k)
  <2>1. /\ MoveAt(s, 3, "MTE2", "copy", <<Ub("recvTile")>>, <<Gm("recv", k)>>)
        /\ MoveAt(s, 4, "MTE2", "copy", <<Ub("gammaTile")>>, <<Gm("gamma", k)>>)
        /\ MoveAt(s, 5, "MTE2", "copy", <<Ub("sTile")>>, <<Gm("s_local", k)>>)
        /\ MoveAt(s, 8, "V", "TROWEXPANDMUL", <<Ub("recvTile")>>, <<Ub("recvTile"), Ub("gammaTile")>>)
        /\ MoveAt(s, 9, "V", "TADD", <<Ub("sTile")>>, <<Ub("sTile"), Ub("recvTile")>>)
        /\ MoveAt(s, 12, "MTE3", "copy", <<Gm("output", k)>>, <<Ub("sTile")>>)
    BY DEF ForwardLastRows
  <2> QED
    BY <2>1, CellsUsed
<1>6. /\ \A c : Takes(s, 3, c) <=> c = Gm("recv", k)
      /\ \A c : Takes(s, 4, c) <=> c = Gm("gamma", k)
      /\ \A c : Takes(s, 5, c) <=> c = Gm("s_local", k)
      /\ \A c : Takes(s, 8, c) <=> c = Ub("recvTile") \/ c = Ub("gammaTile")
      /\ \A c : Takes(s, 9, c) <=> c = Ub("sTile") \/ c = Ub("recvTile")
      /\ \A c : Takes(s, 12, c) <=> c = Ub("sTile")
  <2>1. /\ MoveAt(s, 3, "MTE2", "copy", <<Ub("recvTile")>>, <<Gm("recv", k)>>)
        /\ MoveAt(s, 4, "MTE2", "copy", <<Ub("gammaTile")>>, <<Gm("gamma", k)>>)
        /\ MoveAt(s, 5, "MTE2", "copy", <<Ub("sTile")>>, <<Gm("s_local", k)>>)
        /\ MoveAt(s, 8, "V", "TROWEXPANDMUL", <<Ub("recvTile")>>, <<Ub("recvTile"), Ub("gammaTile")>>)
        /\ MoveAt(s, 9, "V", "TADD", <<Ub("sTile")>>, <<Ub("sTile"), Ub("recvTile")>>)
        /\ MoveAt(s, 12, "MTE3", "copy", <<Gm("output", k)>>, <<Ub("sTile")>>)
    BY DEF ForwardLastRows
  <2> QED
    BY <2>1, CellsUsed
<1> QED
  BY <1>2, <1>3, <1>4, <1>5, <1>6 DEF ForwardLastCells

LEMMA ForwardLastTidy == ASSUME NEW s, NEW k, ForwardLastRows(s, k) PROVE Sound(s) /\ Tidy(s)
<1>1. IsList(s) /\ Len(s) = 12
  BY DEF ForwardLastRows
<1>2. Paired(s)
  <2>1. PairedAt(s, 6) /\ PairedAt(s, 7)
    BY SyncPaired DEF ForwardLastRows
  <2>2. PairedAt(s, 10) /\ PairedAt(s, 11)
    BY SyncPaired DEF ForwardLastRows
  <2>3. /\ PairedAt(s, 1) /\ PairedAt(s, 2) /\ PairedAt(s, 3) /\ PairedAt(s, 4) /\ PairedAt(s, 5)
        /\ PairedAt(s, 8) /\ PairedAt(s, 9) /\ PairedAt(s, 12)
    BY StillPaired DEF ForwardLastRows
  <2> QED
    BY <1>1, <2>1, <2>2, <2>3 DEF Paired
<1>3. /\ RunsOn(s, 3, "MTE2") /\ RunsOn(s, 4, "MTE2") /\ RunsOn(s, 5, "MTE2") /\ RunsOn(s, 8, "V")
      /\ RunsOn(s, 9, "V") /\ RunsOn(s, 12, "MTE3")
  BY MoveRuns DEF ForwardLastRows
<1>4. ForwardLastCells(s, k)
  BY ForwardLastUses
<1>5. Before(s, 3, 8)
  BY <1>3, ByFlag DEF ForwardLastRows
<1>6. Before(s, 3, 9)
  BY <1>3, ByFlag DEF ForwardLastRows
<1>7. Before(s, 4, 8)
  BY <1>3, ByFlag DEF ForwardLastRows
<1>8. Before(s, 5, 9)
  BY <1>3, ByFlag DEF ForwardLastRows
<1>9. Before(s, 5, 8)
  BY <1>3, ByFlag DEF ForwardLastRows
<1>10. Before(s, 8, 12)
  BY <1>3, ByFlag DEF ForwardLastRows
<1>11. Before(s, 5, 12)
  BY <1>9, <1>10, ByBoth
<1>12. Before(s, 8, 9)
  BY <1>3, ByPipe
<1>13. Before(s, 9, 12)
  BY <1>3, ByFlag DEF ForwardLastRows
<1>14. OrderedFrom(s, 3)
  <2>1. ASSUME NEW b \in 1..12, NEW c, 3 < b, Clash(s, 3, b, c) PROVE Before(s, 3, b)
    BY <1>4, <1>5, <1>6, <2>1, Named DEF ForwardLastCells, Clash
  <2> QED
    BY <1>1, <2>1, ClashBefore
<1>15. OrderedFrom(s, 4)
  <2>1. ASSUME NEW b \in 1..12, NEW c, 4 < b, Clash(s, 4, b, c) PROVE Before(s, 4, b)
    BY <1>4, <1>7, <2>1, Named DEF ForwardLastCells, Clash
  <2> QED
    BY <1>1, <2>1, ClashBefore
<1>16. OrderedFrom(s, 5)
  <2>1. ASSUME NEW b \in 1..12, NEW c, 5 < b, Clash(s, 5, b, c) PROVE Before(s, 5, b)
    BY <1>4, <1>9, <1>8, <1>11, <2>1, Named DEF ForwardLastCells, Clash
  <2> QED
    BY <1>1, <2>1, ClashBefore
<1>17. OrderedFrom(s, 8)
  <2>1. ASSUME NEW b \in 1..12, NEW c, 8 < b, Clash(s, 8, b, c) PROVE Before(s, 8, b)
    BY <1>4, <1>12, <1>10, <2>1, Named DEF ForwardLastCells, Clash
  <2> QED
    BY <1>1, <2>1, ClashBefore
<1>18. OrderedFrom(s, 9)
  <2>1. ASSUME NEW b \in 1..12, NEW c, 9 < b, Clash(s, 9, b, c) PROVE Before(s, 9, b)
    BY <1>4, <1>13, <2>1, Named DEF ForwardLastCells, Clash
  <2> QED
    BY <1>1, <2>1, ClashBefore
<1>19. OrderedFrom(s, 12)
  <2>1. ASSUME NEW b \in 1..12, NEW c, 12 < b, Clash(s, 12, b, c) PROVE Before(s, 12, b)
    BY <1>4, <2>1, Named DEF ForwardLastCells, Clash
  <2> QED
    BY <1>1, <2>1, ClashBefore
<1>20. Ordered(s)
  BY <1>1, <1>4, <1>14, <1>15, <1>16, <1>17, <1>18, <1>19, OrderedAll DEF ForwardLastCells
<1>21. Plain(s)
  BY <1>1, <1>4 DEF ForwardLastCells, Plain, StillAt
<1> QED
  BY <1>1, <1>2, <1>20, <1>21 DEF Sound, Tidy

ForwardLastMade(k) ==
  <<Scratch, Scratch, Gm("recv", k), Gm("gamma", k), Gm("s_local", k),
    Scratch, Scratch, <<"TROWEXPANDMUL", Gm("recv", k), Gm("gamma", k)>>,
    <<"TADD", Gm("s_local", k), <<"TROWEXPANDMUL", Gm("recv", k), Gm("gamma", k)>>>>, Scratch,
    Scratch, <<"TADD", Gm("s_local", k), <<"TROWEXPANDMUL", Gm("recv", k), Gm("gamma", k)>>>>>>

LEMMA ForwardLastMakes ==
  ASSUME NEW s, NEW k, ForwardLastRows(s, k)
  PROVE  /\ Annotated(s, ForwardLastMade(k))
         /\ Delivers(s, ForwardLastMade(k),
                {<<Gm("output", k), <<"TADD", Gm("s_local", k),
                <<"TROWEXPANDMUL", Gm("recv", k), Gm("gamma", k)>>>>>>})
<1> DEFINE v == ForwardLastMade(k)
<1>1. IsList(s) /\ Len(s) = 12
  BY DEF ForwardLastRows
<1>2. IsList(v) /\ Len(v) = 12
  <2>1. v = Slice(v, 0, 12)
    BY DEF Slice, ForwardLastMade
  <2>2. PICK n \in Nat : n = 12
    OBVIOUS
  <2> HIDE DEF v
  <2> QED
    BY <2>1, <2>2, ListOf
<1>3. /\ v[1] = Scratch /\ v[2] = Scratch /\ v[3] = Gm("recv", k) /\ v[4] = Gm("gamma", k)
      /\ v[5] = Gm("s_local", k) /\ v[6] = Scratch /\ v[7] = Scratch
      /\ v[8] = <<"TROWEXPANDMUL", Gm("recv", k), Gm("gamma", k)>>
      /\ v[9] = <<"TADD", Gm("s_local", k), <<"TROWEXPANDMUL", Gm("recv", k), Gm("gamma", k)>>>>
      /\ v[10] = Scratch /\ v[11] = Scratch
      /\ v[12] = <<"TADD", Gm("s_local", k), <<"TROWEXPANDMUL", Gm("recv", k), Gm("gamma", k)>>>>
  BY DEF ForwardLastMade
<1> HIDE DEF v
<1>0. ForwardLastCells(s, k)
  BY ForwardLastUses
<1>4. /\ s[3].dst[1] = Ub("recvTile") /\ s[4].dst[1] = Ub("gammaTile") /\ s[5].dst[1] = Ub("sTile")
      /\ s[8].dst[1] = Ub("recvTile") /\ s[9].dst[1] = Ub("sTile") /\ s[12].dst[1] = Gm("output", k)
  BY DEF ForwardLastRows, MoveAt
<1>5. \A j \in 1..12 : Puts(s, j, Ub("recvTile")) => j \in {3, 8}
  BY <1>0, Named DEF ForwardLastCells
<1>6. \A j \in 1..12 : Puts(s, j, Gm("recv", k)) => j \in {}
  BY <1>0, Named DEF ForwardLastCells
<1>7. \A j \in 1..12 : Puts(s, j, Ub("gammaTile")) => j \in {4}
  BY <1>0, Named DEF ForwardLastCells
<1>8. \A j \in 1..12 : Puts(s, j, Gm("gamma", k)) => j \in {}
  BY <1>0, Named DEF ForwardLastCells
<1>9. \A j \in 1..12 : Puts(s, j, Ub("sTile")) => j \in {5, 9}
  BY <1>0, Named DEF ForwardLastCells
<1>10. \A j \in 1..12 : Puts(s, j, Gm("s_local", k)) => j \in {}
  BY <1>0, Named DEF ForwardLastCells
<1>11. \A j \in 1..12 : Puts(s, j, Gm("output", k)) => j \in {12}
  BY <1>0, Named DEF ForwardLastCells
<1>12. v[3] = Made(s, v, 3)
  <2>1. NoWrite(s, Gm("recv", k), 3)
    BY <1>0, <1>1, <1>4, <1>6 DEF ForwardLastCells, LastWrite, NoWrite
  <2>2. Holds(s, v, Gm("recv", k), 3) = Gm("recv", k)
    BY <2>1, HeldBy
  <2>3. Made(s, v, 3) = Holds(s, v, Gm("recv", k), 3)
    BY MadeOf DEF ForwardLastRows
  <2> QED
    BY <1>3, <2>2, <2>3
<1>13. v[4] = Made(s, v, 4)
  <2>1. NoWrite(s, Gm("gamma", k), 4)
    BY <1>0, <1>1, <1>4, <1>8 DEF ForwardLastCells, LastWrite, NoWrite
  <2>2. Holds(s, v, Gm("gamma", k), 4) = Gm("gamma", k)
    BY <2>1, HeldBy
  <2>3. Made(s, v, 4) = Holds(s, v, Gm("gamma", k), 4)
    BY MadeOf DEF ForwardLastRows
  <2> QED
    BY <1>3, <2>2, <2>3
<1>14. v[5] = Made(s, v, 5)
  <2>1. NoWrite(s, Gm("s_local", k), 5)
    BY <1>0, <1>1, <1>4, <1>10 DEF ForwardLastCells, LastWrite, NoWrite
  <2>2. Holds(s, v, Gm("s_local", k), 5) = Gm("s_local", k)
    BY <2>1, HeldBy
  <2>3. Made(s, v, 5) = Holds(s, v, Gm("s_local", k), 5)
    BY MadeOf DEF ForwardLastRows
  <2> QED
    BY <1>3, <2>2, <2>3
<1>15. v[8] = Made(s, v, 8)
  <2>1. LastWrite(s, Ub("recvTile"), 8, 3) /\ LastWrite(s, Ub("gammaTile"), 8, 4)
    BY <1>0, <1>1, <1>4, <1>5, <1>7 DEF ForwardLastCells, LastWrite, NoWrite
  <2>2. Holds(s, v, Ub("recvTile"), 8) = v[3] /\ Holds(s, v, Ub("gammaTile"), 8) = v[4]
    BY <2>1, HeldBy
  <2>3. Made(s, v, 8) = <<"TROWEXPANDMUL", Holds(s, v, Ub("recvTile"), 8), Holds(s, v, Ub("gammaTile"), 8)>>
    <3>1. "TROWEXPANDMUL" # "copy" /\
              MoveAt(s, 8, "V", "TROWEXPANDMUL", <<Ub("recvTile")>>, <<Ub("recvTile"), Ub("gammaTile")>>)
      BY DEF ForwardLastRows
    <3> QED
      BY <3>1, MadeOfTwo
  <2> QED
    BY <1>3, <2>2, <2>3
<1>16. v[9] = Made(s, v, 9)
  <2>1. LastWrite(s, Ub("sTile"), 9, 5) /\ LastWrite(s, Ub("recvTile"), 9, 8)
    BY <1>0, <1>1, <1>4, <1>9, <1>5 DEF ForwardLastCells, LastWrite, NoWrite
  <2>2. Holds(s, v, Ub("sTile"), 9) = v[5] /\ Holds(s, v, Ub("recvTile"), 9) = v[8]
    BY <2>1, HeldBy
  <2>3. Made(s, v, 9) = <<"TADD", Holds(s, v, Ub("sTile"), 9), Holds(s, v, Ub("recvTile"), 9)>>
    <3>1. "TADD" # "copy" /\ MoveAt(s, 9, "V", "TADD", <<Ub("sTile")>>, <<Ub("sTile"), Ub("recvTile")>>)
      BY DEF ForwardLastRows
    <3> QED
      BY <3>1, MadeOfTwo
  <2> QED
    BY <1>3, <2>2, <2>3
<1>17. v[12] = Made(s, v, 12)
  <2>1. LastWrite(s, Ub("sTile"), 12, 9)
    BY <1>0, <1>1, <1>4, <1>9 DEF ForwardLastCells, LastWrite, NoWrite
  <2>2. Holds(s, v, Ub("sTile"), 12) = v[9]
    BY <2>1, HeldBy
  <2>3. Made(s, v, 12) = Holds(s, v, Ub("sTile"), 12)
    BY MadeOf DEF ForwardLastRows
  <2> QED
    BY <1>3, <2>2, <2>3
<1>18. /\ v[1] = Made(s, v, 1) /\ v[2] = Made(s, v, 2) /\ v[6] = Made(s, v, 6) /\ v[7] = Made(s, v, 7)
      /\ v[10] = Made(s, v, 10) /\ v[11] = Made(s, v, 11)
  <2>1. /\ StillAt(s, 1) /\ StillAt(s, 2) /\ StillAt(s, 6) /\ StillAt(s, 7) /\ StillAt(s, 10)
        /\ StillAt(s, 11)
    BY FlagsAreStill DEF ForwardLastRows
  <2> QED
    BY <1>3, <2>1, MadeStill
<1>19. Annotated(s, v)
  BY <1>1, <1>2, <1>12, <1>13, <1>14, <1>15, <1>16, <1>17, <1>18 DEF Annotated
<1>20. Writers(s, Gm("output", k)) # {} /\
           Contents(s, v, Gm("output", k), Writers(s, Gm("output", k))) = v[12]
  <2>1. Leaves(s, Gm("output", k), 12)
    BY <1>0, <1>1, <1>4, <1>11 DEF ForwardLastCells, Leaves, LastWrite
  <2> QED
    BY <2>1, LeftBy
<1> QED
  BY <1>3, <1>19, <1>20 DEF Delivers, v

LEMMA ForwardLastFits ==
  ASSUME NEW s, NEW k, ForwardLastRows(s, k) PROVE Local(s, k) /\ Headed(s)
<1>1. Len(s) = 12
  BY DEF ForwardLastRows
<1>2. ForwardLastCells(s, k)
  BY ForwardLastUses
<1>3. Headed(s)
  <2>1. 2 \in 1..Len(s) /\ IsFence(s[2])
    BY <1>1 DEF ForwardLastRows, FenceAt
  <2>2. \A b \in 1..Len(s) : Moves(s[b]) => 2 < b
    <3>1. \A b \in 1..12 : b \in {3, 4, 5, 8, 9, 12} \/ StillAt(s, b)
      BY <1>2 DEF ForwardLastCells
    <3> QED
      BY <1>1, <3>1 DEF StillAt
  <2> QED
    BY <2>1, <2>2 DEF Headed
<1>4. /\ Ub("recvTile")[1] = "recvTile" /\ Gm("recv", k)[1] = "recv" /\ Gm("recv", k)[2] = k
      /\ Ub("gammaTile")[1] = "gammaTile" /\ Gm("gamma", k)[1] = "gamma" /\ Gm("gamma", k)[2] = k
      /\ Ub("sTile")[1] = "sTile" /\ Gm("s_local", k)[1] = "s_local" /\ Gm("s_local", k)[2] = k
      /\ Gm("output", k)[1] = "output" /\ Gm("output", k)[2] = k
  BY Named
<1>5. \A b \in 1..12 : \A c : Puts(s, b, c) \/ Takes(s, b, c) => b \in {3, 4, 5, 8, 9, 12}
  BY <1>2 DEF ForwardLastCells
<1>6. \A i \in 1..Len(s) : \A c : Puts(s, i, c) => c[1] \in Tiles \/ (c[1] \in Outputs /\ c[2] = k)
  <2>1. \A i \in {3, 4, 5, 8, 9, 12} : \A c : Puts(s, i, c) => c = Ub("recvTile") \/ c = Ub("gammaTile") \/
            c = Ub("sTile") \/ c = Gm("output", k)
    BY <1>2 DEF ForwardLastCells
  <2> QED
    BY <1>1, <1>4, <1>5, <2>1 DEF Tiles, Outputs
<1>7. \A c : Takes(s, 3, c) => Known(s, 3, c)
  <2>1. Known(s, 3, Gm("recv", k))
    BY <1>4, KnownBy DEF Inputs
  <2> QED
    BY <1>2, <2>1 DEF ForwardLastCells
<1>8. \A c : Takes(s, 4, c) => Known(s, 4, c)
  <2>1. Known(s, 4, Gm("gamma", k))
    BY <1>4, KnownBy DEF Inputs
  <2> QED
    BY <1>2, <2>1 DEF ForwardLastCells
<1>9. \A c : Takes(s, 5, c) => Known(s, 5, c)
  <2>1. Known(s, 5, Gm("s_local", k))
    BY <1>4, KnownBy DEF Inputs
  <2> QED
    BY <1>2, <2>1 DEF ForwardLastCells
<1>10. \A c : Takes(s, 8, c) => Known(s, 8, c)
  <2>1. Known(s, 8, Ub("recvTile"))
    <3>1. 3 \in 1..(8 - 1) /\ Puts(s, 3, Ub("recvTile"))
      BY <1>2 DEF ForwardLastCells
    <3> QED
      BY <3>1, KnownBy
  <2>2. Known(s, 8, Ub("gammaTile"))
    <3>1. 4 \in 1..(8 - 1) /\ Puts(s, 4, Ub("gammaTile"))
      BY <1>2 DEF ForwardLastCells
    <3> QED
      BY <3>1, KnownBy
  <2> QED
    BY <1>2, <2>1, <2>2 DEF ForwardLastCells
<1>11. \A c : Takes(s, 9, c) => Known(s, 9, c)
  <2>1. Known(s, 9, Ub("sTile"))
    <3>1. 5 \in 1..(9 - 1) /\ Puts(s, 5, Ub("sTile"))
      BY <1>2 DEF ForwardLastCells
    <3> QED
      BY <3>1, KnownBy
  <2>2. Known(s, 9, Ub("recvTile"))
    <3>1. 8 \in 1..(9 - 1) /\ Puts(s, 8, Ub("recvTile"))
      BY <1>2 DEF ForwardLastCells
    <3> QED
      BY <3>1, KnownBy
  <2> QED
    BY <1>2, <2>1, <2>2 DEF ForwardLastCells
<1>12. \A c : Takes(s, 12, c) => Known(s, 12, c)
  <2>1. Known(s, 12, Ub("sTile"))
    <3>1. 9 \in 1..(12 - 1) /\ Puts(s, 9, Ub("sTile"))
      BY <1>2 DEF ForwardLastCells
    <3> QED
      BY <3>1, KnownBy
  <2> QED
    BY <1>2, <2>1 DEF ForwardLastCells
<1>13. \A i \in 1..Len(s) : \A c : Takes(s, i, c) => Known(s, i, c)
  BY <1>1, <1>5, <1>7, <1>8, <1>9, <1>10, <1>11, <1>12
<1> QED
  BY <1>3, <1>6, <1>13 DEF Local

ForwardLastStores(k) ==
  {<<Gm("output", k), ScanResult("last", k)>>}

LEMMA ForwardLastBlock ==
  ASSUME NEW k
  PROVE  /\ IsBlock(ForwardBlock("last", k), ForwardLastMade(k), ForwardLastStores(k), k)
         /\ Headed(ForwardBlock("last", k))
<1> DEFINE s == ForwardBlock("last", k)
<1>1. ForwardLastRows(s, k)
  BY ForwardLastIs
<1> HIDE DEF s
<1>2. Sound(s) /\ Tidy(s) /\ Local(s, k) /\ Headed(s)
  BY <1>1, ForwardLastTidy, ForwardLastFits
<1>3. Annotated(s, ForwardLastMade(k)) /\ Delivers(s, ForwardLastMade(k), ForwardLastStores(k))
  <2>1. "last" # "first"
    OBVIOUS
  <2>2. /\ Annotated(s, ForwardLastMade(k))
        /\ Delivers(s, ForwardLastMade(k),
               {<<Gm("output", k), <<"TADD", Gm("s_local", k),
               <<"TROWEXPANDMUL", Gm("recv", k), Gm("gamma", k)>>>>>>})
    BY <1>1, ForwardLastMakes, Zenon
  <2> QED
    BY <2>1, <2>2, Zenon DEF ForwardLastStores, ScanResult
<1>4. \A r \in ForwardLastStores(k) : \E x \in Outputs : r[1] = Gm(x, k)
  BY DEF ForwardLastStores, Outputs
<1> QED
  BY <1>2, <1>3, <1>4 DEF IsBlock, s

LEMMA ForwardLastScan ==
  Sound(AllScan("last")) /\ Makes(AllScan("last"), PromisedScan("last"))
<1> DEFINE b == [i \in 1..K |-> ForwardBlock("last", i - 1)]
           u == [i \in 1..K |-> ForwardLastMade(i - 1)]
           P == [i \in 1..K |-> ForwardLastStores(i - 1)]
<1>1. \A i \in 1..K : b[i] = ForwardBlock("last", i - 1) /\ u[i] = ForwardLastMade(i - 1) /\
          P[i] = ForwardLastStores(i - 1)
  OBVIOUS
<1>2. AllScan("last") = Looped(b, K)
  <2>1. [i \in 1..K |-> b[i]] = [i \in 1..K |-> ForwardBlock("last", i - 1)]
    OBVIOUS
  <2> QED
    BY <2>1, Zenon DEF AllScan, Loop, Looped, Then
<1>3. Together(P, K) = PromisedScan("last")
  <2>1. \A k : k \in Blocks <=> \E i \in 1..K : k = i - 1
    BY BlocksAssumption DEF Blocks
  <2> HIDE DEF P
  <2>2. \A r : r \in Together(P, K) <=> \E k \in Blocks : r \in ForwardLastStores(k)
    BY <1>1, <2>1 DEF Together
  <2>3. \A r : r \in PromisedScan("last") <=> \E k \in Blocks : r \in ForwardLastStores(k)
    BY DEF PromisedScan, ForwardLastStores
  <2> QED
    BY <2>2, <2>3
<1> HIDE DEF b, u, P
<1>4. \A i \in 1..K : IsBlock(b[i], u[i], P[i], i - 1) /\ Headed(b[i])
  BY <1>1, ForwardLastBlock
<1>5. Sound(Looped(b, K)) /\ Makes(Looped(b, K), Together(P, K))
  BY <1>4, ScanMakes
<1> QED
  BY <1>2, <1>3, <1>5

-----------------------------------------------------------------------------
(* The blocks of allscan_backward_kernel.cpp *)

\* A block of the reverse scan on the last rank
BackwardLastRows(s, k) ==
  /\ IsList(s) /\ Len(s) = 27 /\ MoveAt(s, 1, "MTE2", "copy", <<Ub("sTile")>>, <<Gm("g_out", k)>>)
  /\ SetAt(s, 2, "MTE2", "MTE3", 0) /\ WaitAt(s, 3, "MTE2", "MTE3", 0)
  /\ MoveAt(s, 4, "MTE3", "copy", <<Gm("dS", k)>>, <<Ub("sTile")>>)
  /\ MoveAt(s, 5, "MTE2", "copy", <<Ub("gammaTile")>>, <<Gm("gamma", k)>>)
  /\ SetAt(s, 6, "MTE2", "V", 2) /\ WaitAt(s, 7, "MTE2", "V", 2)
  /\ MoveAt(s, 8, "V", "TROWEXPANDMUL", <<Ub("recvTile")>>, <<Ub("sTile"), Ub("gammaTile")>>)
  /\ SetAt(s, 9, "V", "MTE3", 2) /\ WaitAt(s, 10, "V", "MTE3", 2)
  /\ MoveAt(s, 11, "MTE3", "copy", <<Gm("remote", k)>>, <<Ub("recvTile")>>)
  /\ SetAt(s, 12, "MTE3", "S", 7) /\ WaitAt(s, 13, "MTE3", "S", 7) /\ FenceAt(s, 14)
  /\ PauseAt(s, 15) /\ SetAt(s, 16, "MTE3", "MTE2", 3) /\ WaitAt(s, 17, "MTE3", "MTE2", 3)
  /\ MoveAt(s, 18, "MTE2", "copy", <<Ub("recvTile")>>, <<Gm("out_prev", k)>>)
  /\ SetAt(s, 19, "MTE2", "V", 1) /\ WaitAt(s, 20, "MTE2", "V", 1)
  /\ MoveAt(s, 21, "V", "TMUL", <<Ub("recvTile")>>, <<Ub("sTile"), Ub("recvTile")>>)
  /\ PauseAt(s, 22)
  /\ MoveAt(s, 23, "V", "TROWSUM", <<Ub("dgammaTile"), Ub("sTile")>>, <<Ub("recvTile")>>)
  /\ SetAt(s, 24, "V", "MTE3", 1) /\ WaitAt(s, 25, "V", "MTE3", 1)
  /\ MoveAt(s, 26, "MTE3", "copy", <<Gm("dgamma", k)>>, <<Ub("dgammaTile")>>) /\ FenceAt(s, 27)

LEMMA BackwardLastIs == ASSUME NEW k PROVE BackwardLastRows(BackwardBlock("last", k), k)
<1> DEFINE u == <<Load(Ub("sTile"), Gm("g_out", k)), SetFlag("MTE2", "MTE3", 0),
                  WaitFlag("MTE2", "MTE3", 0), Store(Gm("dS", k), Ub("sTile")),
                  Load(Ub("gammaTile"), Gm("gamma", k)), SetFlag("MTE2", "V", 2),
                  WaitFlag("MTE2", "V", 2),
                  Vec("TROWEXPANDMUL", Ub("recvTile"), <<Ub("sTile"), Ub("gammaTile")>>),
                  SetFlag("V", "MTE3", 2), WaitFlag("V", "MTE3", 2),
                  Store(Gm("remote", k), Ub("recvTile")), SetFlag("MTE3", "S", 7),
                  WaitFlag("MTE3", "S", 7), Barrier, Scalar("TNOTIFY"),
                  SetFlag("MTE3", "MTE2", 3), WaitFlag("MTE3", "MTE2", 3),
                  Load(Ub("recvTile"), Gm("out_prev", k)), SetFlag("MTE2", "V", 1),
                  WaitFlag("MTE2", "V", 1),
                  Vec("TMUL", Ub("recvTile"), <<Ub("sTile"), Ub("recvTile")>>), BarrierV,
                  Op("V", "TROWSUM", <<Ub("dgammaTile"), Ub("sTile")>>, <<Ub("recvTile")>>),
                  SetFlag("V", "MTE3", 1), WaitFlag("V", "MTE3", 1),
                  Store(Gm("dgamma", k), Ub("dgammaTile")), Barrier>>
           s == BackwardBlock("last", k)
<1>1. <<Load(Ub("sTile"), Gm("g_out", k))>> = Slice(u, 0, 1)
  BY DEF Slice
<1>2. Sync("MTE2", "MTE3", 0) = Slice(u, 1, 3)
  BY DEF Slice, Sync
<1>3. BackwardSource(k) = Slice(u, 0, 3)
  <2> HIDE DEF u
  <2>1. /\ Then(Slice(u, 0, 1), Slice(u, 1, 3)) = Slice(u, 0, 3)
    BY Slices
  <2> QED
    BY <1>1, <1>2, <2>1, Zenon DEF Then, BackwardSource
<1>4. <<Store(Gm("dS", k), Ub("sTile"))>> = Slice(u, 3, 4)
  BY DEF Slice
<1>5. <<Load(Ub("gammaTile"), Gm("gamma", k))>> = Slice(u, 4, 5)
  BY DEF Slice
<1>6. Sync("MTE2", "V", 2) = Slice(u, 5, 7)
  BY DEF Slice, Sync
<1>7. <<Vec("TROWEXPANDMUL", Ub("recvTile"), <<Ub("sTile"), Ub("gammaTile")>>)>> = Slice(u, 7, 8)
  BY DEF Slice
<1>8. Sync("V", "MTE3", 2) = Slice(u, 8, 10)
  BY DEF Slice, Sync
<1>9. <<Store(Gm("remote", k), Ub("recvTile"))>> = Slice(u, 10, 11)
  BY DEF Slice
<1>10. Sync("MTE3", "S", 7) = Slice(u, 11, 13)
  BY DEF Slice, Sync
<1>11. <<Barrier, Scalar("TNOTIFY")>> = Slice(u, 13, 15)
  BY DEF Slice
<1>12. FlushOut = Slice(u, 11, 15)
  <2> HIDE DEF u
  <2>1. /\ Then(Slice(u, 11, 13), Slice(u, 13, 15)) = Slice(u, 11, 15)
    BY Slices
  <2> QED
    BY <1>10, <1>11, <2>1, Zenon DEF Then, FlushOut
<1>13. BackwardPush(k) = Slice(u, 4, 15)
  <2> HIDE DEF u
  <2>1. /\ Then(Slice(u, 4, 5), Slice(u, 5, 7)) = Slice(u, 4, 7)
        /\ Then(Slice(u, 4, 7), Slice(u, 7, 8)) = Slice(u, 4, 8)
        /\ Then(Slice(u, 4, 8), Slice(u, 8, 10)) = Slice(u, 4, 10)
        /\ Then(Slice(u, 4, 10), Slice(u, 10, 11)) = Slice(u, 4, 11)
        /\ Then(Slice(u, 4, 11), Slice(u, 11, 15)) = Slice(u, 4, 15)
    BY Slices
  <2> QED
    BY <1>5, <1>6, <1>7, <1>8, <1>9, <1>12, <2>1, Zenon DEF Then, BackwardPush
<1>14. Sync("MTE3", "MTE2", 3) = Slice(u, 15, 17)
  BY DEF Slice, Sync
<1>15. <<Load(Ub("recvTile"), Gm("out_prev", k))>> = Slice(u, 17, 18)
  BY DEF Slice
<1>16. Sync("MTE2", "V", 1) = Slice(u, 18, 20)
  BY DEF Slice, Sync
<1>17. <<Vec("TMUL", Ub("recvTile"), <<Ub("sTile"), Ub("recvTile")>>), BarrierV,
           Op("V", "TROWSUM", <<Ub("dgammaTile"), Ub("sTile")>>, <<Ub("recvTile")>>)>> = Slice(u, 20, 23)
  BY DEF Slice
<1>18. Sync("V", "MTE3", 1) = Slice(u, 23, 25)
  BY DEF Slice, Sync
<1>19. <<Store(Gm("dgamma", k), Ub("dgammaTile"))>> = Slice(u, 25, 26)
  BY DEF Slice
<1>20. GammaGradOpen(k) = Slice(u, 15, 26)
  <2> HIDE DEF u
  <2>1. /\ Then(Slice(u, 15, 17), Slice(u, 17, 18)) = Slice(u, 15, 18)
        /\ Then(Slice(u, 15, 18), Slice(u, 18, 20)) = Slice(u, 15, 20)
        /\ Then(Slice(u, 15, 20), Slice(u, 20, 23)) = Slice(u, 15, 23)
        /\ Then(Slice(u, 15, 23), Slice(u, 23, 25)) = Slice(u, 15, 25)
        /\ Then(Slice(u, 15, 25), Slice(u, 25, 26)) = Slice(u, 15, 26)
    BY Slices
  <2> QED
    BY <1>14, <1>15, <1>16, <1>17, <1>18, <1>19, <2>1, Zenon DEF Then, GammaGradOpen
<1>21. <<Barrier>> = Slice(u, 26, 27)
  BY DEF Slice
<1>22. GammaGrad(k) = Slice(u, 15, 27)
  <2> HIDE DEF u
  <2>1. /\ Then(Slice(u, 15, 26), Slice(u, 26, 27)) = Slice(u, 15, 27)
    BY Slices
  <2> QED
    BY <1>20, <1>21, <2>1, Zenon DEF Then, GammaGrad
<1>23. s = Slice(u, 0, 27)
  <2> HIDE DEF u
  <2>1. /\ Then(Slice(u, 0, 3), Slice(u, 3, 4)) = Slice(u, 0, 4)
        /\ Then(Slice(u, 4, 15), Slice(u, 15, 27)) = Slice(u, 4, 27)
        /\ Then(Slice(u, 0, 4), Slice(u, 4, 27)) = Slice(u, 0, 27)
    BY Slices
  <2>2. "last" # "first"
    OBVIOUS
  <2> QED
    BY <1>3, <1>4, <1>13, <1>22, <2>1, <2>2, Zenon DEF Then, BackwardBlock
<1>24. PICK n \in Nat : n = 27
  OBVIOUS
<1>25. IsList(s) /\ Len(s) = 27 /\ \A i \in 1..27 : s[i] = u[i]
  <2> HIDE DEF u, s
  <2>1. IsList(Slice(u, 0, n)) /\ Len(Slice(u, 0, n)) = n /\ \A i \in 1..n : Slice(u, 0, n)[i] = u[i]
    BY SliceAll
  <2> QED
    BY <1>23, <1>24, <2>1
<1> HIDE DEF s
<1>26. /\ Entry(s, 1, Load(Ub("sTile"), Gm("g_out", k))) /\ Entry(s, 2, SetFlag("MTE2", "MTE3", 0))
       /\ Entry(s, 3, WaitFlag("MTE2", "MTE3", 0)) /\ Entry(s, 4, Store(Gm("dS", k), Ub("sTile")))
       /\ Entry(s, 5, Load(Ub("gammaTile"), Gm("gamma", k))) /\ Entry(s, 6, SetFlag("MTE2", "V", 2))
       /\ Entry(s, 7, WaitFlag("MTE2", "V", 2))
       /\ Entry(s, 8, Vec("TROWEXPANDMUL", Ub("recvTile"), <<Ub("sTile"), Ub("gammaTile")>>))
       /\ Entry(s, 9, SetFlag("V", "MTE3", 2)) /\ Entry(s, 10, WaitFlag("V", "MTE3", 2))
       /\ Entry(s, 11, Store(Gm("remote", k), Ub("recvTile"))) /\ Entry(s, 12, SetFlag("MTE3", "S", 7))
       /\ Entry(s, 13, WaitFlag("MTE3", "S", 7)) /\ Entry(s, 14, Barrier)
       /\ Entry(s, 15, Scalar("TNOTIFY")) /\ Entry(s, 16, SetFlag("MTE3", "MTE2", 3))
       /\ Entry(s, 17, WaitFlag("MTE3", "MTE2", 3))
       /\ Entry(s, 18, Load(Ub("recvTile"), Gm("out_prev", k))) /\ Entry(s, 19, SetFlag("MTE2", "V", 1))
       /\ Entry(s, 20, WaitFlag("MTE2", "V", 1))
       /\ Entry(s, 21, Vec("TMUL", Ub("recvTile"), <<Ub("sTile"), Ub("recvTile")>>))
       /\ Entry(s, 22, BarrierV)
       /\ Entry(s, 23, Op("V", "TROWSUM", <<Ub("dgammaTile"), Ub("sTile")>>, <<Ub("recvTile")>>))
       /\ Entry(s, 24, SetFlag("V", "MTE3", 1)) /\ Entry(s, 25, WaitFlag("V", "MTE3", 1))
       /\ Entry(s, 26, Store(Gm("dgamma", k), Ub("dgammaTile"))) /\ Entry(s, 27, Barrier)
  BY <1>25 DEF Entry
<1> HIDE DEF u
<1>27. /\ SetAt(s, 2, "MTE2", "MTE3", 0) /\ WaitAt(s, 3, "MTE2", "MTE3", 0) /\ SetAt(s, 6, "MTE2", "V", 2)
       /\ WaitAt(s, 7, "MTE2", "V", 2) /\ SetAt(s, 9, "V", "MTE3", 2) /\ WaitAt(s, 10, "V", "MTE3", 2)
       /\ SetAt(s, 12, "MTE3", "S", 7) /\ WaitAt(s, 13, "MTE3", "S", 7) /\ FenceAt(s, 14) /\ PauseAt(s, 15)
  BY <1>25, <1>26, SyncsAre
<1>28. /\ SetAt(s, 16, "MTE3", "MTE2", 3) /\ WaitAt(s, 17, "MTE3", "MTE2", 3)
       /\ SetAt(s, 19, "MTE2", "V", 1) /\ WaitAt(s, 20, "MTE2", "V", 1) /\ PauseAt(s, 22)
       /\ SetAt(s, 24, "V", "MTE3", 1) /\ WaitAt(s, 25, "V", "MTE3", 1) /\ FenceAt(s, 27)
  BY <1>25, <1>26, SyncsAre
<1>29. /\ MoveAt(s, 1, "MTE2", "copy", <<Ub("sTile")>>, <<Gm("g_out", k)>>)
       /\ MoveAt(s, 4, "MTE3", "copy", <<Gm("dS", k)>>, <<Ub("sTile")>>)
       /\ MoveAt(s, 5, "MTE2", "copy", <<Ub("gammaTile")>>, <<Gm("gamma", k)>>)
       /\ MoveAt(s, 8, "V", "TROWEXPANDMUL", <<Ub("recvTile")>>, <<Ub("sTile"), Ub("gammaTile")>>)
       /\ MoveAt(s, 11, "MTE3", "copy", <<Gm("remote", k)>>, <<Ub("recvTile")>>)
       /\ MoveAt(s, 18, "MTE2", "copy", <<Ub("recvTile")>>, <<Gm("out_prev", k)>>)
       /\ MoveAt(s, 21, "V", "TMUL", <<Ub("recvTile")>>, <<Ub("sTile"), Ub("recvTile")>>)
       /\ MoveAt(s, 23, "V", "TROWSUM", <<Ub("dgammaTile"), Ub("sTile")>>, <<Ub("recvTile")>>)
       /\ MoveAt(s, 26, "MTE3", "copy", <<Gm("dgamma", k)>>, <<Ub("dgammaTile")>>)
  BY <1>25, <1>26, MovesAre
<1> QED
  BY <1>25, <1>27, <1>28, <1>29 DEF BackwardLastRows, s

BackwardLastCells(s, k) ==
  /\ \A b \in 1..27 : b \in {1, 4, 5, 8, 11, 18, 21, 23, 26} \/ StillAt(s, b)
  /\ \A b \in {1, 4, 5, 8, 11, 18, 21, 23, 26} : Moves(s[b])
  /\ \A b \in 1..27 : \A c : Puts(s, b, c) \/ Takes(s, b, c) => b \in {1, 4, 5, 8, 11, 18, 21, 23, 26}
  /\ \A c : Puts(s, 1, c) <=> c = Ub("sTile")
  /\ \A c : Puts(s, 4, c) <=> c = Gm("dS", k)
  /\ \A c : Puts(s, 5, c) <=> c = Ub("gammaTile")
  /\ \A c : Puts(s, 8, c) <=> c = Ub("recvTile")
  /\ \A c : Puts(s, 11, c) <=> c = Gm("remote", k)
  /\ \A c : Puts(s, 18, c) <=> c = Ub("recvTile")
  /\ \A c : Puts(s, 21, c) <=> c = Ub("recvTile")
  /\ \A c : Puts(s, 23, c) <=> c = Ub("dgammaTile") \/ c = Ub("sTile")
  /\ \A c : Puts(s, 26, c) <=> c = Gm("dgamma", k)
  /\ \A c : Takes(s, 1, c) <=> c = Gm("g_out", k)
  /\ \A c : Takes(s, 4, c) <=> c = Ub("sTile")
  /\ \A c : Takes(s, 5, c) <=> c = Gm("gamma", k)
  /\ \A c : Takes(s, 8, c) <=> c = Ub("sTile") \/ c = Ub("gammaTile")
  /\ \A c : Takes(s, 11, c) <=> c = Ub("recvTile")
  /\ \A c : Takes(s, 18, c) <=> c = Gm("out_prev", k)
  /\ \A c : Takes(s, 21, c) <=> c = Ub("sTile") \/ c = Ub("recvTile")
  /\ \A c : Takes(s, 23, c) <=> c = Ub("recvTile")
  /\ \A c : Takes(s, 26, c) <=> c = Ub("dgammaTile")

LEMMA BackwardLastUses == ASSUME NEW s, NEW k, BackwardLastRows(s, k) PROVE BackwardLastCells(s, k)
<1>1. /\ StillAt(s, 2) /\ StillAt(s, 3) /\ StillAt(s, 6) /\ StillAt(s, 7) /\ StillAt(s, 9)
      /\ StillAt(s, 10) /\ StillAt(s, 12) /\ StillAt(s, 13) /\ StillAt(s, 14) /\ StillAt(s, 15)
      /\ StillAt(s, 16) /\ StillAt(s, 17) /\ StillAt(s, 19) /\ StillAt(s, 20) /\ StillAt(s, 22)
      /\ StillAt(s, 24) /\ StillAt(s, 25) /\ StillAt(s, 27)
  BY FlagsAreStill DEF BackwardLastRows
<1>2. \A b \in 1..27 : b \in {1, 4, 5, 8, 11, 18, 21, 23, 26} \/ StillAt(s, b)
  BY <1>1
<1>3. \A b \in {1, 4, 5, 8, 11, 18, 21, 23, 26} : Moves(s[b])
  BY DEF BackwardLastRows, MoveAt
<1>4. \A b \in 1..27 : \A c : Puts(s, b, c) \/ Takes(s, b, c) => b \in {1, 4, 5, 8, 11, 18, 21, 23, 26}
  BY <1>2, CellsUsed
<1>5. /\ \A c : Puts(s, 1, c) <=> c = Ub("sTile")
      /\ \A c : Puts(s, 4, c) <=> c = Gm("dS", k)
      /\ \A c : Puts(s, 5, c) <=> c = Ub("gammaTile")
      /\ \A c : Puts(s, 8, c) <=> c = Ub("recvTile")
      /\ \A c : Puts(s, 11, c) <=> c = Gm("remote", k)
      /\ \A c : Puts(s, 18, c) <=> c = Ub("recvTile")
  <2>1. /\ MoveAt(s, 1, "MTE2", "copy", <<Ub("sTile")>>, <<Gm("g_out", k)>>)
        /\ MoveAt(s, 4, "MTE3", "copy", <<Gm("dS", k)>>, <<Ub("sTile")>>)
        /\ MoveAt(s, 5, "MTE2", "copy", <<Ub("gammaTile")>>, <<Gm("gamma", k)>>)
        /\ MoveAt(s, 8, "V", "TROWEXPANDMUL", <<Ub("recvTile")>>, <<Ub("sTile"), Ub("gammaTile")>>)
        /\ MoveAt(s, 11, "MTE3", "copy", <<Gm("remote", k)>>, <<Ub("recvTile")>>)
        /\ MoveAt(s, 18, "MTE2", "copy", <<Ub("recvTile")>>, <<Gm("out_prev", k)>>)
    BY DEF BackwardLastRows
  <2> QED
    BY <2>1, CellsUsed
<1>6. /\ \A c : Puts(s, 21, c) <=> c = Ub("recvTile")
      /\ \A c : Puts(s, 23, c) <=> c = Ub("dgammaTile") \/ c = Ub("sTile")
      /\ \A c : Puts(s, 26, c) <=> c = Gm("dgamma", k)
  <2>1. /\ MoveAt(s, 21, "V", "TMUL", <<Ub("recvTile")>>, <<Ub("sTile"), Ub("recvTile")>>)
        /\ MoveAt(s, 23, "V", "TROWSUM", <<Ub("dgammaTile"), Ub("sTile")>>, <<Ub("recvTile")>>)
        /\ MoveAt(s, 26, "MTE3", "copy", <<Gm("dgamma", k)>>, <<Ub("dgammaTile")>>)
    BY DEF BackwardLastRows
  <2> QED
    BY <2>1, CellsUsed
<1>7. /\ \A c : Takes(s, 1, c) <=> c = Gm("g_out", k)
      /\ \A c : Takes(s, 4, c) <=> c = Ub("sTile")
      /\ \A c : Takes(s, 5, c) <=> c = Gm("gamma", k)
      /\ \A c : Takes(s, 8, c) <=> c = Ub("sTile") \/ c = Ub("gammaTile")
      /\ \A c : Takes(s, 11, c) <=> c = Ub("recvTile")
      /\ \A c : Takes(s, 18, c) <=> c = Gm("out_prev", k)
  <2>1. /\ MoveAt(s, 1, "MTE2", "copy", <<Ub("sTile")>>, <<Gm("g_out", k)>>)
        /\ MoveAt(s, 4, "MTE3", "copy", <<Gm("dS", k)>>, <<Ub("sTile")>>)
        /\ MoveAt(s, 5, "MTE2", "copy", <<Ub("gammaTile")>>, <<Gm("gamma", k)>>)
        /\ MoveAt(s, 8, "V", "TROWEXPANDMUL", <<Ub("recvTile")>>, <<Ub("sTile"), Ub("gammaTile")>>)
        /\ MoveAt(s, 11, "MTE3", "copy", <<Gm("remote", k)>>, <<Ub("recvTile")>>)
        /\ MoveAt(s, 18, "MTE2", "copy", <<Ub("recvTile")>>, <<Gm("out_prev", k)>>)
    BY DEF BackwardLastRows
  <2> QED
    BY <2>1, CellsUsed
<1>8. /\ \A c : Takes(s, 21, c) <=> c = Ub("sTile") \/ c = Ub("recvTile")
      /\ \A c : Takes(s, 23, c) <=> c = Ub("recvTile")
      /\ \A c : Takes(s, 26, c) <=> c = Ub("dgammaTile")
  <2>1. /\ MoveAt(s, 21, "V", "TMUL", <<Ub("recvTile")>>, <<Ub("sTile"), Ub("recvTile")>>)
        /\ MoveAt(s, 23, "V", "TROWSUM", <<Ub("dgammaTile"), Ub("sTile")>>, <<Ub("recvTile")>>)
        /\ MoveAt(s, 26, "MTE3", "copy", <<Gm("dgamma", k)>>, <<Ub("dgammaTile")>>)
    BY DEF BackwardLastRows
  <2> QED
    BY <2>1, CellsUsed
<1> QED
  BY <1>2, <1>3, <1>4, <1>5, <1>6, <1>7, <1>8 DEF BackwardLastCells

LEMMA BackwardLastTidy == ASSUME NEW s, NEW k, BackwardLastRows(s, k) PROVE Sound(s) /\ Tidy(s)
<1>1. IsList(s) /\ Len(s) = 27
  BY DEF BackwardLastRows
<1>2. Paired(s)
  <2>1. PairedAt(s, 2) /\ PairedAt(s, 3)
    BY SyncPaired DEF BackwardLastRows
  <2>2. PairedAt(s, 6) /\ PairedAt(s, 7)
    BY SyncPaired DEF BackwardLastRows
  <2>3. PairedAt(s, 9) /\ PairedAt(s, 10)
    BY SyncPaired DEF BackwardLastRows
  <2>4. PairedAt(s, 12) /\ PairedAt(s, 13)
    BY SyncPaired DEF BackwardLastRows
  <2>5. PairedAt(s, 16) /\ PairedAt(s, 17)
    BY SyncPaired DEF BackwardLastRows
  <2>6. PairedAt(s, 19) /\ PairedAt(s, 20)
    BY SyncPaired DEF BackwardLastRows
  <2>7. PairedAt(s, 24) /\ PairedAt(s, 25)
    BY SyncPaired DEF BackwardLastRows
  <2>8. /\ PairedAt(s, 1) /\ PairedAt(s, 4) /\ PairedAt(s, 5) /\ PairedAt(s, 8) /\ PairedAt(s, 11)
        /\ PairedAt(s, 14) /\ PairedAt(s, 15) /\ PairedAt(s, 18) /\ PairedAt(s, 21) /\ PairedAt(s, 22)
        /\ PairedAt(s, 23) /\ PairedAt(s, 26) /\ PairedAt(s, 27)
    BY StillPaired DEF BackwardLastRows
  <2> QED
    BY <1>1, <2>1, <2>2, <2>3, <2>4, <2>5, <2>6, <2>7, <2>8 DEF Paired
<1>3. /\ RunsOn(s, 1, "MTE2") /\ RunsOn(s, 4, "MTE3") /\ RunsOn(s, 5, "MTE2") /\ RunsOn(s, 8, "V")
      /\ RunsOn(s, 11, "MTE3") /\ RunsOn(s, 18, "MTE2") /\ RunsOn(s, 21, "V") /\ RunsOn(s, 23, "V")
      /\ RunsOn(s, 26, "MTE3")
  BY MoveRuns DEF BackwardLastRows
<1>4. BackwardLastCells(s, k)
  BY BackwardLastUses
<1>5. Before(s, 1, 4)
  BY <1>3, ByFlag DEF BackwardLastRows
<1>6. Before(s, 1, 8)
  BY <1>3, ByFlag DEF BackwardLastRows
<1>7. \A a, b \in 1..27 : a < 14 /\ 14 < b => Before(s, a, b)
  <2>1. FenceAt(s, 14)
    BY DEF BackwardLastRows
  <2> QED
    BY <1>1, <2>1, Divided
<1>8. Before(s, 5, 8)
  BY <1>3, ByFlag DEF BackwardLastRows
<1>9. Before(s, 8, 11)
  BY <1>3, ByFlag DEF BackwardLastRows
<1>10. Before(s, 8, 21)
  BY <1>3, ByPipe
<1>11. Before(s, 8, 23)
  BY <1>3, ByPipe
<1>12. Before(s, 18, 21)
  BY <1>3, ByFlag DEF BackwardLastRows
<1>13. Before(s, 18, 23)
  BY <1>3, ByFlag DEF BackwardLastRows
<1>14. Before(s, 21, 23)
  BY <1>3, ByPipe
<1>15. Before(s, 23, 26)
  BY <1>3, ByFlag DEF BackwardLastRows
<1>16. OrderedFrom(s, 1)
  <2>1. ASSUME NEW b \in 1..27, NEW c, 1 < b, Clash(s, 1, b, c) PROVE Before(s, 1, b)
    BY <1>4, <1>5, <1>6, <1>7, <2>1, Named DEF BackwardLastCells, Clash
  <2> QED
    BY <1>1, <2>1, ClashBefore
<1>17. OrderedFrom(s, 4)
  <2>1. ASSUME NEW b \in 1..27, NEW c, 4 < b, Clash(s, 4, b, c) PROVE Before(s, 4, b)
    BY <1>4, <1>7, <2>1, Named DEF BackwardLastCells, Clash
  <2> QED
    BY <1>1, <2>1, ClashBefore
<1>18. OrderedFrom(s, 5)
  <2>1. ASSUME NEW b \in 1..27, NEW c, 5 < b, Clash(s, 5, b, c) PROVE Before(s, 5, b)
    BY <1>4, <1>8, <2>1, Named DEF BackwardLastCells, Clash
  <2> QED
    BY <1>1, <2>1, ClashBefore
<1>19. OrderedFrom(s, 8)
  <2>1. ASSUME NEW b \in 1..27, NEW c, 8 < b, Clash(s, 8, b, c) PROVE Before(s, 8, b)
    BY <1>4, <1>9, <1>7, <1>10, <1>11, <2>1, Named DEF BackwardLastCells, Clash
  <2> QED
    BY <1>1, <2>1, ClashBefore
<1>20. OrderedFrom(s, 11)
  <2>1. ASSUME NEW b \in 1..27, NEW c, 11 < b, Clash(s, 11, b, c) PROVE Before(s, 11, b)
    BY <1>4, <1>7, <2>1, Named DEF BackwardLastCells, Clash
  <2> QED
    BY <1>1, <2>1, ClashBefore
<1>21. OrderedFrom(s, 18)
  <2>1. ASSUME NEW b \in 1..27, NEW c, 18 < b, Clash(s, 18, b, c) PROVE Before(s, 18, b)
    BY <1>4, <1>12, <1>13, <2>1, Named DEF BackwardLastCells, Clash
  <2> QED
    BY <1>1, <2>1, ClashBefore
<1>22. OrderedFrom(s, 21)
  <2>1. ASSUME NEW b \in 1..27, NEW c, 21 < b, Clash(s, 21, b, c) PROVE Before(s, 21, b)
    BY <1>4, <1>14, <2>1, Named DEF BackwardLastCells, Clash
  <2> QED
    BY <1>1, <2>1, ClashBefore
<1>23. OrderedFrom(s, 23)
  <2>1. ASSUME NEW b \in 1..27, NEW c, 23 < b, Clash(s, 23, b, c) PROVE Before(s, 23, b)
    BY <1>4, <1>15, <2>1, Named DEF BackwardLastCells, Clash
  <2> QED
    BY <1>1, <2>1, ClashBefore
<1>24. OrderedFrom(s, 26)
  <2>1. ASSUME NEW b \in 1..27, NEW c, 26 < b, Clash(s, 26, b, c) PROVE Before(s, 26, b)
    BY <1>4, <2>1, Named DEF BackwardLastCells, Clash
  <2> QED
    BY <1>1, <2>1, ClashBefore
<1>25. Ordered(s)
  BY <1>1, <1>4, <1>16, <1>17, <1>18, <1>19, <1>20, <1>21, <1>22, <1>23, <1>24, OrderedAll
     DEF BackwardLastCells
<1>26. Plain(s)
  BY <1>1, <1>4 DEF BackwardLastCells, Plain, StillAt
<1> QED
  BY <1>1, <1>2, <1>25, <1>26 DEF Sound, Tidy

BackwardLastMade(k) ==
  <<Gm("g_out", k), Scratch, Scratch, Gm("g_out", k), Gm("gamma", k),
    Scratch, Scratch, <<"TROWEXPANDMUL", Gm("g_out", k), Gm("gamma", k)>>, Scratch, Scratch,
    <<"TROWEXPANDMUL", Gm("g_out", k), Gm("gamma", k)>>, Scratch, Scratch, Scratch, Scratch,
    Scratch, Scratch, Gm("out_prev", k), Scratch, Scratch,
    <<"TMUL", Gm("g_out", k), Gm("out_prev", k)>>, Scratch,
    <<"TROWSUM", <<"TMUL", Gm("g_out", k), Gm("out_prev", k)>>>>, Scratch, Scratch,
    <<"TROWSUM", <<"TMUL", Gm("g_out", k), Gm("out_prev", k)>>>>, Scratch>>

LEMMA BackwardLastMakes ==
  ASSUME NEW s, NEW k, BackwardLastRows(s, k)
  PROVE  /\ Annotated(s, BackwardLastMade(k))
         /\ Delivers(s, BackwardLastMade(k), {<<Gm("dS", k), Gm("g_out", k)>>,
                      <<Gm("remote", k), <<"TROWEXPANDMUL", Gm("g_out", k), Gm("gamma", k)>>>>,
                      <<Gm("dgamma", k), <<"TROWSUM", <<"TMUL", Gm("g_out", k), Gm("out_prev", k)>>>>>>})
<1> DEFINE v == BackwardLastMade(k)
<1>1. IsList(s) /\ Len(s) = 27
  BY DEF BackwardLastRows
<1>2. IsList(v) /\ Len(v) = 27
  <2>1. v = Slice(v, 0, 27)
    BY DEF Slice, BackwardLastMade
  <2>2. PICK n \in Nat : n = 27
    OBVIOUS
  <2> HIDE DEF v
  <2> QED
    BY <2>1, <2>2, ListOf
<1>3. /\ v[1] = Gm("g_out", k) /\ v[2] = Scratch /\ v[3] = Scratch /\ v[4] = Gm("g_out", k)
      /\ v[5] = Gm("gamma", k) /\ v[6] = Scratch /\ v[7] = Scratch
      /\ v[8] = <<"TROWEXPANDMUL", Gm("g_out", k), Gm("gamma", k)>> /\ v[9] = Scratch /\ v[10] = Scratch
      /\ v[11] = <<"TROWEXPANDMUL", Gm("g_out", k), Gm("gamma", k)>> /\ v[12] = Scratch /\ v[13] = Scratch
      /\ v[14] = Scratch /\ v[15] = Scratch /\ v[16] = Scratch /\ v[17] = Scratch
      /\ v[18] = Gm("out_prev", k) /\ v[19] = Scratch /\ v[20] = Scratch
      /\ v[21] = <<"TMUL", Gm("g_out", k), Gm("out_prev", k)>> /\ v[22] = Scratch
      /\ v[23] = <<"TROWSUM", <<"TMUL", Gm("g_out", k), Gm("out_prev", k)>>>> /\ v[24] = Scratch
      /\ v[25] = Scratch /\ v[26] = <<"TROWSUM", <<"TMUL", Gm("g_out", k), Gm("out_prev", k)>>>>
      /\ v[27] = Scratch
  <2>1. /\ v[1] = Gm("g_out", k) /\ v[2] = Scratch /\ v[3] = Scratch /\ v[4] = Gm("g_out", k)
        /\ v[5] = Gm("gamma", k) /\ v[6] = Scratch /\ v[7] = Scratch
        /\ v[8] = <<"TROWEXPANDMUL", Gm("g_out", k), Gm("gamma", k)>> /\ v[9] = Scratch /\ v[10] = Scratch
        /\ v[11] = <<"TROWEXPANDMUL", Gm("g_out", k), Gm("gamma", k)>> /\ v[12] = Scratch /\ v[13] = Scratch
        /\ v[14] = Scratch
    BY DEF BackwardLastMade
  <2>2. /\ v[15] = Scratch /\ v[16] = Scratch /\ v[17] = Scratch /\ v[18] = Gm("out_prev", k)
        /\ v[19] = Scratch /\ v[20] = Scratch /\ v[21] = <<"TMUL", Gm("g_out", k), Gm("out_prev", k)>>
        /\ v[22] = Scratch /\ v[23] = <<"TROWSUM", <<"TMUL", Gm("g_out", k), Gm("out_prev", k)>>>>
        /\ v[24] = Scratch /\ v[25] = Scratch
        /\ v[26] = <<"TROWSUM", <<"TMUL", Gm("g_out", k), Gm("out_prev", k)>>>> /\ v[27] = Scratch
    BY DEF BackwardLastMade
  <2> HIDE DEF v
  <2> QED
    BY <2>1, <2>2
<1> HIDE DEF v
<1>0. BackwardLastCells(s, k)
  BY BackwardLastUses
<1>4. /\ s[1].dst[1] = Ub("sTile") /\ s[4].dst[1] = Gm("dS", k) /\ s[5].dst[1] = Ub("gammaTile")
      /\ s[8].dst[1] = Ub("recvTile") /\ s[11].dst[1] = Gm("remote", k) /\ s[18].dst[1] = Ub("recvTile")
      /\ s[21].dst[1] = Ub("recvTile") /\ s[23].dst[1] = Ub("dgammaTile")
      /\ s[26].dst[1] = Gm("dgamma", k)
  BY DEF BackwardLastRows, MoveAt
<1>5. \A j \in 1..27 : Puts(s, j, Ub("sTile")) => j \in {1, 23}
  BY <1>0, Named DEF BackwardLastCells
<1>6. \A j \in 1..27 : Puts(s, j, Gm("g_out", k)) => j \in {}
  BY <1>0, Named DEF BackwardLastCells
<1>7. \A j \in 1..27 : Puts(s, j, Gm("dS", k)) => j \in {4}
  BY <1>0, Named DEF BackwardLastCells
<1>8. \A j \in 1..27 : Puts(s, j, Ub("gammaTile")) => j \in {5}
  BY <1>0, Named DEF BackwardLastCells
<1>9. \A j \in 1..27 : Puts(s, j, Gm("gamma", k)) => j \in {}
  BY <1>0, Named DEF BackwardLastCells
<1>10. \A j \in 1..27 : Puts(s, j, Ub("recvTile")) => j \in {8, 18, 21}
  BY <1>0, Named DEF BackwardLastCells
<1>11. \A j \in 1..27 : Puts(s, j, Gm("remote", k)) => j \in {11}
  BY <1>0, Named DEF BackwardLastCells
<1>12. \A j \in 1..27 : Puts(s, j, Gm("out_prev", k)) => j \in {}
  BY <1>0, Named DEF BackwardLastCells
<1>13. \A j \in 1..27 : Puts(s, j, Ub("dgammaTile")) => j \in {23}
  BY <1>0, Named DEF BackwardLastCells
<1>14. \A j \in 1..27 : Puts(s, j, Gm("dgamma", k)) => j \in {26}
  BY <1>0, Named DEF BackwardLastCells
<1>15. v[1] = Made(s, v, 1)
  <2>1. NoWrite(s, Gm("g_out", k), 1)
    BY <1>0, <1>1, <1>4, <1>6 DEF BackwardLastCells, LastWrite, NoWrite
  <2>2. Holds(s, v, Gm("g_out", k), 1) = Gm("g_out", k)
    BY <2>1, HeldBy
  <2>3. Made(s, v, 1) = Holds(s, v, Gm("g_out", k), 1)
    BY MadeOf DEF BackwardLastRows
  <2> QED
    BY <1>3, <2>2, <2>3
<1>16. v[4] = Made(s, v, 4)
  <2>1. LastWrite(s, Ub("sTile"), 4, 1)
    BY <1>0, <1>1, <1>4, <1>5 DEF BackwardLastCells, LastWrite, NoWrite
  <2>2. Holds(s, v, Ub("sTile"), 4) = v[1]
    BY <2>1, HeldBy
  <2>3. Made(s, v, 4) = Holds(s, v, Ub("sTile"), 4)
    BY MadeOf DEF BackwardLastRows
  <2> QED
    BY <1>3, <2>2, <2>3
<1>17. v[5] = Made(s, v, 5)
  <2>1. NoWrite(s, Gm("gamma", k), 5)
    BY <1>0, <1>1, <1>4, <1>9 DEF BackwardLastCells, LastWrite, NoWrite
  <2>2. Holds(s, v, Gm("gamma", k), 5) = Gm("gamma", k)
    BY <2>1, HeldBy
  <2>3. Made(s, v, 5) = Holds(s, v, Gm("gamma", k), 5)
    BY MadeOf DEF BackwardLastRows
  <2> QED
    BY <1>3, <2>2, <2>3
<1>18. v[8] = Made(s, v, 8)
  <2>1. LastWrite(s, Ub("sTile"), 8, 1) /\ LastWrite(s, Ub("gammaTile"), 8, 5)
    BY <1>0, <1>1, <1>4, <1>5, <1>8 DEF BackwardLastCells, LastWrite, NoWrite
  <2>2. Holds(s, v, Ub("sTile"), 8) = v[1] /\ Holds(s, v, Ub("gammaTile"), 8) = v[5]
    BY <2>1, HeldBy
  <2>3. Made(s, v, 8) = <<"TROWEXPANDMUL", Holds(s, v, Ub("sTile"), 8), Holds(s, v, Ub("gammaTile"), 8)>>
    <3>1. "TROWEXPANDMUL" # "copy" /\
              MoveAt(s, 8, "V", "TROWEXPANDMUL", <<Ub("recvTile")>>, <<Ub("sTile"), Ub("gammaTile")>>)
      BY DEF BackwardLastRows
    <3> QED
      BY <3>1, MadeOfTwo
  <2> QED
    BY <1>3, <2>2, <2>3
<1>19. v[11] = Made(s, v, 11)
  <2>1. LastWrite(s, Ub("recvTile"), 11, 8)
    BY <1>0, <1>1, <1>4, <1>10 DEF BackwardLastCells, LastWrite, NoWrite
  <2>2. Holds(s, v, Ub("recvTile"), 11) = v[8]
    BY <2>1, HeldBy
  <2>3. Made(s, v, 11) = Holds(s, v, Ub("recvTile"), 11)
    BY MadeOf DEF BackwardLastRows
  <2> QED
    BY <1>3, <2>2, <2>3
<1>20. v[18] = Made(s, v, 18)
  <2>1. NoWrite(s, Gm("out_prev", k), 18)
    BY <1>0, <1>1, <1>4, <1>12 DEF BackwardLastCells, LastWrite, NoWrite
  <2>2. Holds(s, v, Gm("out_prev", k), 18) = Gm("out_prev", k)
    BY <2>1, HeldBy
  <2>3. Made(s, v, 18) = Holds(s, v, Gm("out_prev", k), 18)
    BY MadeOf DEF BackwardLastRows
  <2> QED
    BY <1>3, <2>2, <2>3
<1>21. v[21] = Made(s, v, 21)
  <2>1. LastWrite(s, Ub("sTile"), 21, 1) /\ LastWrite(s, Ub("recvTile"), 21, 18)
    BY <1>0, <1>1, <1>4, <1>5, <1>10 DEF BackwardLastCells, LastWrite, NoWrite
  <2>2. Holds(s, v, Ub("sTile"), 21) = v[1] /\ Holds(s, v, Ub("recvTile"), 21) = v[18]
    BY <2>1, HeldBy
  <2>3. Made(s, v, 21) = <<"TMUL", Holds(s, v, Ub("sTile"), 21), Holds(s, v, Ub("recvTile"), 21)>>
    <3>1. "TMUL" # "copy" /\ MoveAt(s, 21, "V", "TMUL", <<Ub("recvTile")>>, <<Ub("sTile"), Ub("recvTile")>>)
      BY DEF BackwardLastRows
    <3> QED
      BY <3>1, MadeOfTwo
  <2> QED
    BY <1>3, <2>2, <2>3
<1>22. v[23] = Made(s, v, 23)
  <2>1. LastWrite(s, Ub("recvTile"), 23, 21)
    BY <1>0, <1>1, <1>4, <1>10 DEF BackwardLastCells, LastWrite, NoWrite
  <2>2. Holds(s, v, Ub("recvTile"), 23) = v[21]
    BY <2>1, HeldBy
  <2>3. Made(s, v, 23) = <<"TROWSUM", Holds(s, v, Ub("recvTile"), 23)>>
    <3>1. "TROWSUM" # "copy" /\ MoveAt(s, 23, "V", "TROWSUM", <<Ub("dgammaTile"), Ub("sTile")>>,
              <<Ub("recvTile")>>)
      BY DEF BackwardLastRows
    <3> QED
      BY <3>1, MadeOf
  <2> QED
    BY <1>3, <2>2, <2>3
<1>23. v[26] = Made(s, v, 26)
  <2>1. LastWrite(s, Ub("dgammaTile"), 26, 23)
    BY <1>0, <1>1, <1>4, <1>13 DEF BackwardLastCells, LastWrite, NoWrite
  <2>2. Holds(s, v, Ub("dgammaTile"), 26) = v[23]
    BY <2>1, HeldBy
  <2>3. Made(s, v, 26) = Holds(s, v, Ub("dgammaTile"), 26)
    BY MadeOf DEF BackwardLastRows
  <2> QED
    BY <1>3, <2>2, <2>3
<1>24. /\ v[2] = Made(s, v, 2) /\ v[3] = Made(s, v, 3) /\ v[6] = Made(s, v, 6) /\ v[7] = Made(s, v, 7)
      /\ v[9] = Made(s, v, 9) /\ v[10] = Made(s, v, 10) /\ v[12] = Made(s, v, 12)
      /\ v[13] = Made(s, v, 13) /\ v[14] = Made(s, v, 14) /\ v[15] = Made(s, v, 15)
      /\ v[16] = Made(s, v, 16) /\ v[17] = Made(s, v, 17) /\ v[19] = Made(s, v, 19)
      /\ v[20] = Made(s, v, 20) /\ v[22] = Made(s, v, 22) /\ v[24] = Made(s, v, 24)
      /\ v[25] = Made(s, v, 25) /\ v[27] = Made(s, v, 27)
  <2>1. /\ StillAt(s, 2) /\ StillAt(s, 3) /\ StillAt(s, 6) /\ StillAt(s, 7) /\ StillAt(s, 9)
        /\ StillAt(s, 10) /\ StillAt(s, 12) /\ StillAt(s, 13) /\ StillAt(s, 14) /\ StillAt(s, 15)
        /\ StillAt(s, 16) /\ StillAt(s, 17) /\ StillAt(s, 19) /\ StillAt(s, 20) /\ StillAt(s, 22)
        /\ StillAt(s, 24) /\ StillAt(s, 25) /\ StillAt(s, 27)
    BY FlagsAreStill DEF BackwardLastRows
  <2> QED
    BY <1>3, <2>1, MadeStill
<1>25. Annotated(s, v)
  BY <1>1, <1>2, <1>15, <1>16, <1>17, <1>18, <1>19, <1>20, <1>21, <1>22, <1>23, <1>24
     DEF Annotated
<1>26. Writers(s, Gm("dS", k)) # {} /\ Contents(s, v, Gm("dS", k), Writers(s, Gm("dS", k))) = v[4]
  <2>1. Leaves(s, Gm("dS", k), 4)
    BY <1>0, <1>1, <1>4, <1>7 DEF BackwardLastCells, Leaves, LastWrite
  <2> QED
    BY <2>1, LeftBy
<1>27. Writers(s, Gm("remote", k)) # {} /\
           Contents(s, v, Gm("remote", k), Writers(s, Gm("remote", k))) = v[11]
  <2>1. Leaves(s, Gm("remote", k), 11)
    BY <1>0, <1>1, <1>4, <1>11 DEF BackwardLastCells, Leaves, LastWrite
  <2> QED
    BY <2>1, LeftBy
<1>28. Writers(s, Gm("dgamma", k)) # {} /\
           Contents(s, v, Gm("dgamma", k), Writers(s, Gm("dgamma", k))) = v[26]
  <2>1. Leaves(s, Gm("dgamma", k), 26)
    BY <1>0, <1>1, <1>4, <1>14 DEF BackwardLastCells, Leaves, LastWrite
  <2> QED
    BY <2>1, LeftBy
<1> QED
  BY <1>3, <1>25, <1>26, <1>27, <1>28 DEF Delivers, v

LEMMA BackwardLastFits ==
  ASSUME NEW s, NEW k, BackwardLastRows(s, k) PROVE Local(s, k) /\ Tailed(s)
<1>1. Len(s) = 27
  BY DEF BackwardLastRows
<1>2. BackwardLastCells(s, k)
  BY BackwardLastUses
<1>3. Tailed(s)
  <2>1. 27 \in 1..Len(s) /\ IsFence(s[27])
    BY <1>1 DEF BackwardLastRows, FenceAt
  <2>2. \A a \in 1..Len(s) : Moves(s[a]) => a < 27
    <3>1. \A a \in 1..27 : a \in {1, 4, 5, 8, 11, 18, 21, 23, 26} \/ StillAt(s, a)
      BY <1>2 DEF BackwardLastCells
    <3> QED
      BY <1>1, <3>1 DEF StillAt
  <2> QED
    BY <2>1, <2>2 DEF Tailed
<1>4. /\ Ub("sTile")[1] = "sTile" /\ Gm("g_out", k)[1] = "g_out" /\ Gm("g_out", k)[2] = k
      /\ Gm("dS", k)[1] = "dS" /\ Gm("dS", k)[2] = k /\ Ub("gammaTile")[1] = "gammaTile"
      /\ Gm("gamma", k)[1] = "gamma" /\ Gm("gamma", k)[2] = k /\ Ub("recvTile")[1] = "recvTile"
      /\ Gm("remote", k)[1] = "remote" /\ Gm("remote", k)[2] = k
      /\ Gm("out_prev", k)[1] = "out_prev" /\ Gm("out_prev", k)[2] = k
      /\ Ub("dgammaTile")[1] = "dgammaTile" /\ Gm("dgamma", k)[1] = "dgamma" /\ Gm("dgamma", k)[2] = k
  BY Named
<1>5. \A b \in 1..27 : \A c : Puts(s, b, c) \/ Takes(s, b, c) => b \in {1, 4, 5, 8, 11, 18, 21, 23, 26}
  BY <1>2 DEF BackwardLastCells
<1>6. \A i \in 1..Len(s) : \A c : Puts(s, i, c) => c[1] \in Tiles \/ (c[1] \in Outputs /\ c[2] = k)
  <2>1. \A i \in {1, 4, 5, 8, 11, 18, 21, 23, 26} : \A c : Puts(s, i, c) => c = Ub("sTile") \/
            c = Gm("dS", k) \/ c = Ub("gammaTile") \/ c = Ub("recvTile") \/ c = Gm("remote", k) \/
            c = Ub("dgammaTile") \/ c = Gm("dgamma", k)
    BY <1>2 DEF BackwardLastCells
  <2> QED
    BY <1>1, <1>4, <1>5, <2>1 DEF Tiles, Outputs
<1>7. \A c : Takes(s, 1, c) => Known(s, 1, c)
  <2>1. Known(s, 1, Gm("g_out", k))
    BY <1>4, KnownBy DEF Inputs
  <2> QED
    BY <1>2, <2>1 DEF BackwardLastCells
<1>8. \A c : Takes(s, 4, c) => Known(s, 4, c)
  <2>1. Known(s, 4, Ub("sTile"))
    <3>1. 1 \in 1..(4 - 1) /\ Puts(s, 1, Ub("sTile"))
      BY <1>2 DEF BackwardLastCells
    <3> QED
      BY <3>1, KnownBy
  <2> QED
    BY <1>2, <2>1 DEF BackwardLastCells
<1>9. \A c : Takes(s, 5, c) => Known(s, 5, c)
  <2>1. Known(s, 5, Gm("gamma", k))
    BY <1>4, KnownBy DEF Inputs
  <2> QED
    BY <1>2, <2>1 DEF BackwardLastCells
<1>10. \A c : Takes(s, 8, c) => Known(s, 8, c)
  <2>1. Known(s, 8, Ub("sTile"))
    <3>1. 1 \in 1..(8 - 1) /\ Puts(s, 1, Ub("sTile"))
      BY <1>2 DEF BackwardLastCells
    <3> QED
      BY <3>1, KnownBy
  <2>2. Known(s, 8, Ub("gammaTile"))
    <3>1. 5 \in 1..(8 - 1) /\ Puts(s, 5, Ub("gammaTile"))
      BY <1>2 DEF BackwardLastCells
    <3> QED
      BY <3>1, KnownBy
  <2> QED
    BY <1>2, <2>1, <2>2 DEF BackwardLastCells
<1>11. \A c : Takes(s, 11, c) => Known(s, 11, c)
  <2>1. Known(s, 11, Ub("recvTile"))
    <3>1. 8 \in 1..(11 - 1) /\ Puts(s, 8, Ub("recvTile"))
      BY <1>2 DEF BackwardLastCells
    <3> QED
      BY <3>1, KnownBy
  <2> QED
    BY <1>2, <2>1 DEF BackwardLastCells
<1>12. \A c : Takes(s, 18, c) => Known(s, 18, c)
  <2>1. Known(s, 18, Gm("out_prev", k))
    BY <1>4, KnownBy DEF Inputs
  <2> QED
    BY <1>2, <2>1 DEF BackwardLastCells
<1>13. \A c : Takes(s, 21, c) => Known(s, 21, c)
  <2>1. Known(s, 21, Ub("sTile"))
    <3>1. 1 \in 1..(21 - 1) /\ Puts(s, 1, Ub("sTile"))
      BY <1>2 DEF BackwardLastCells
    <3> QED
      BY <3>1, KnownBy
  <2>2. Known(s, 21, Ub("recvTile"))
    <3>1. 18 \in 1..(21 - 1) /\ Puts(s, 18, Ub("recvTile"))
      BY <1>2 DEF BackwardLastCells
    <3> QED
      BY <3>1, KnownBy
  <2> QED
    BY <1>2, <2>1, <2>2 DEF BackwardLastCells
<1>14. \A c : Takes(s, 23, c) => Known(s, 23, c)
  <2>1. Known(s, 23, Ub("recvTile"))
    <3>1. 21 \in 1..(23 - 1) /\ Puts(s, 21, Ub("recvTile"))
      BY <1>2 DEF BackwardLastCells
    <3> QED
      BY <3>1, KnownBy
  <2> QED
    BY <1>2, <2>1 DEF BackwardLastCells
<1>15. \A c : Takes(s, 26, c) => Known(s, 26, c)
  <2>1. Known(s, 26, Ub("dgammaTile"))
    <3>1. 23 \in 1..(26 - 1) /\ Puts(s, 23, Ub("dgammaTile"))
      BY <1>2 DEF BackwardLastCells
    <3> QED
      BY <3>1, KnownBy
  <2> QED
    BY <1>2, <2>1 DEF BackwardLastCells
<1>16. \A i \in 1..Len(s) : \A c : Takes(s, i, c) => Known(s, i, c)
  BY <1>1, <1>5, <1>7, <1>8, <1>9, <1>10, <1>11, <1>12, <1>13, <1>14, <1>15
<1> QED
  BY <1>3, <1>6, <1>16 DEF Local

BackwardLastStores(k) ==
  {<<Gm("dS", k), StateGrad("last", k)>>, <<Gm("remote", k), Message("last", k)>>,
   <<Gm("dgamma", k), DecayGrad("last", k)>>}

LEMMA BackwardLastBlock ==
  ASSUME NEW k
  PROVE  /\ IsBlock(BackwardBlock("last", k), BackwardLastMade(k), BackwardLastStores(k), k)
         /\ Tailed(BackwardBlock("last", k))
<1> DEFINE s == BackwardBlock("last", k)
<1>1. BackwardLastRows(s, k)
  BY BackwardLastIs
<1> HIDE DEF s
<1>2. Sound(s) /\ Tidy(s) /\ Local(s, k) /\ Tailed(s)
  BY <1>1, BackwardLastTidy, BackwardLastFits
<1>3. Annotated(s, BackwardLastMade(k)) /\ Delivers(s, BackwardLastMade(k), BackwardLastStores(k))
  <2>1. "last" # "first"
    OBVIOUS
  <2>2. /\ Annotated(s, BackwardLastMade(k))
        /\ Delivers(s, BackwardLastMade(k), {<<Gm("dS", k), Gm("g_out", k)>>,
                              <<Gm("remote", k), <<"TROWEXPANDMUL", Gm("g_out", k), Gm("gamma", k)>>>>,
                              <<Gm("dgamma", k), <<"TROWSUM",
                                  <<"TMUL", Gm("g_out", k), Gm("out_prev", k)>>>>>>})
    BY <1>1, BackwardLastMakes, Zenon
  <2> QED
    BY <2>1, <2>2, Zenon DEF BackwardLastStores, StateGrad, Message, DecayGrad
<1>4. \A r \in BackwardLastStores(k) : \E x \in Outputs : r[1] = Gm(x, k)
  BY DEF BackwardLastStores, Outputs
<1> QED
  BY <1>2, <1>3, <1>4 DEF IsBlock, s

LEMMA BackwardLastScan ==
  Sound(AllScanBackward("last")) /\ Makes(AllScanBackward("last"), PromisedBackward("last"))
<1> DEFINE b == [i \in 1..K |-> BackwardBlock("last", i - 1)]
           u == [i \in 1..K |-> BackwardLastMade(i - 1)]
           P == [i \in 1..K |-> BackwardLastStores(i - 1)]
<1>1. \A i \in 1..K : b[i] = BackwardBlock("last", i - 1) /\ u[i] = BackwardLastMade(i - 1) /\
          P[i] = BackwardLastStores(i - 1)
  OBVIOUS
<1>2. AllScanBackward("last") = Looped(b, K)
  <2>1. [i \in 1..K |-> b[i]] = [i \in 1..K |-> BackwardBlock("last", i - 1)]
    OBVIOUS
  <2> QED
    BY <2>1, Zenon DEF AllScanBackward, Loop, Looped, Then
<1>3. Together(P, K) = PromisedBackward("last")
  <2>1. \A k : k \in Blocks <=> \E i \in 1..K : k = i - 1
    BY BlocksAssumption DEF Blocks
  <2> HIDE DEF P
  <2>2. \A r : r \in Together(P, K) <=> \E k \in Blocks : r \in BackwardLastStores(k)
    BY <1>1, <2>1 DEF Together
  <2>3. \A r : r \in PromisedBackward("last") <=> \E k \in Blocks : r \in BackwardLastStores(k)
    BY DEF PromisedBackward, BackwardLastStores
  <2> QED
    BY <2>2, <2>3
<1> HIDE DEF b, u, P
<1>4. \A i \in 1..K : IsBlock(b[i], u[i], P[i], i - 1) /\ Tailed(b[i])
  BY <1>1, BackwardLastBlock
<1>5. Sound(Looped(b, K)) /\ Makes(Looped(b, K), Together(P, K))
  BY <1>4, ScanMakes
<1> QED
  BY <1>2, <1>3, <1>5

\* A block of the reverse scan on a middle rank
BackwardMiddleRows(s, k) ==
  /\ IsList(s) /\ Len(s) = 33 /\ PauseAt(s, 1) /\ FenceAt(s, 2)
  /\ MoveAt(s, 3, "MTE2", "copy", <<Ub("recvTile")>>, <<Gm("recv", k)>>)
  /\ MoveAt(s, 4, "MTE2", "copy", <<Ub("sTile")>>, <<Gm("g_out", k)>>)
  /\ SetAt(s, 5, "MTE2", "V", 0) /\ WaitAt(s, 6, "MTE2", "V", 0)
  /\ MoveAt(s, 7, "V", "TADD", <<Ub("sTile")>>, <<Ub("sTile"), Ub("recvTile")>>)
  /\ SetAt(s, 8, "V", "MTE3", 0) /\ WaitAt(s, 9, "V", "MTE3", 0)
  /\ MoveAt(s, 10, "MTE3", "copy", <<Gm("dS", k)>>, <<Ub("sTile")>>)
  /\ MoveAt(s, 11, "MTE2", "copy", <<Ub("gammaTile")>>, <<Gm("gamma", k)>>)
  /\ SetAt(s, 12, "MTE2", "V", 2) /\ WaitAt(s, 13, "MTE2", "V", 2)
  /\ MoveAt(s, 14, "V", "TROWEXPANDMUL", <<Ub("recvTile")>>, <<Ub("sTile"), Ub("gammaTile")>>)
  /\ SetAt(s, 15, "V", "MTE3", 2) /\ WaitAt(s, 16, "V", "MTE3", 2)
  /\ MoveAt(s, 17, "MTE3", "copy", <<Gm("remote", k)>>, <<Ub("recvTile")>>)
  /\ SetAt(s, 18, "MTE3", "S", 7) /\ WaitAt(s, 19, "MTE3", "S", 7) /\ FenceAt(s, 20)
  /\ PauseAt(s, 21) /\ SetAt(s, 22, "MTE3", "MTE2", 3) /\ WaitAt(s, 23, "MTE3", "MTE2", 3)
  /\ MoveAt(s, 24, "MTE2", "copy", <<Ub("recvTile")>>, <<Gm("out_prev", k)>>)
  /\ SetAt(s, 25, "MTE2", "V", 1) /\ WaitAt(s, 26, "MTE2", "V", 1)
  /\ MoveAt(s, 27, "V", "TMUL", <<Ub("recvTile")>>, <<Ub("sTile"), Ub("recvTile")>>)
  /\ PauseAt(s, 28)
  /\ MoveAt(s, 29, "V", "TROWSUM", <<Ub("dgammaTile"), Ub("sTile")>>, <<Ub("recvTile")>>)
  /\ SetAt(s, 30, "V", "MTE3", 1) /\ WaitAt(s, 31, "V", "MTE3", 1)
  /\ MoveAt(s, 32, "MTE3", "copy", <<Gm("dgamma", k)>>, <<Ub("dgammaTile")>>) /\ FenceAt(s, 33)

LEMMA BackwardMiddleIs == ASSUME NEW k PROVE BackwardMiddleRows(BackwardBlock("middle", k), k)
<1> DEFINE u == <<Scalar("TWAIT"), Barrier, Load(Ub("recvTile"), Gm("recv", k)),
                  Load(Ub("sTile"), Gm("g_out", k)), SetFlag("MTE2", "V", 0),
                  WaitFlag("MTE2", "V", 0),
                  Vec("TADD", Ub("sTile"), <<Ub("sTile"), Ub("recvTile")>>),
                  SetFlag("V", "MTE3", 0), WaitFlag("V", "MTE3", 0),
                  Store(Gm("dS", k), Ub("sTile")), Load(Ub("gammaTile"), Gm("gamma", k)),
                  SetFlag("MTE2", "V", 2), WaitFlag("MTE2", "V", 2),
                  Vec("TROWEXPANDMUL", Ub("recvTile"), <<Ub("sTile"), Ub("gammaTile")>>),
                  SetFlag("V", "MTE3", 2), WaitFlag("V", "MTE3", 2),
                  Store(Gm("remote", k), Ub("recvTile")), SetFlag("MTE3", "S", 7),
                  WaitFlag("MTE3", "S", 7), Barrier, Scalar("TNOTIFY"),
                  SetFlag("MTE3", "MTE2", 3), WaitFlag("MTE3", "MTE2", 3),
                  Load(Ub("recvTile"), Gm("out_prev", k)), SetFlag("MTE2", "V", 1),
                  WaitFlag("MTE2", "V", 1),
                  Vec("TMUL", Ub("recvTile"), <<Ub("sTile"), Ub("recvTile")>>), BarrierV,
                  Op("V", "TROWSUM", <<Ub("dgammaTile"), Ub("sTile")>>, <<Ub("recvTile")>>),
                  SetFlag("V", "MTE3", 1), WaitFlag("V", "MTE3", 1),
                  Store(Gm("dgamma", k), Ub("dgammaTile")), Barrier>>
           s == BackwardBlock("middle", k)
<1>1. Wait = Slice(u, 0, 2)
  BY DEF Slice, Wait
<1>2. <<Load(Ub("recvTile"), Gm("recv", k)), Load(Ub("sTile"), Gm("g_out", k))>> = Slice(u, 2, 4)
  BY DEF Slice
<1>3. Sync("MTE2", "V", 0) = Slice(u, 4, 6)
  BY DEF Slice, Sync
<1>4. <<Vec("TADD", Ub("sTile"), <<Ub("sTile"), Ub("recvTile")>>)>> = Slice(u, 6, 7)
  BY DEF Slice
<1>5. Sync("V", "MTE3", 0) = Slice(u, 7, 9)
  BY DEF Slice, Sync
<1>6. BackwardWait(k) = Slice(u, 0, 9)
  <2> HIDE DEF u
  <2>1. /\ Then(Slice(u, 0, 2), Slice(u, 2, 4)) = Slice(u, 0, 4)
        /\ Then(Slice(u, 0, 4), Slice(u, 4, 6)) = Slice(u, 0, 6)
        /\ Then(Slice(u, 0, 6), Slice(u, 6, 7)) = Slice(u, 0, 7)
        /\ Then(Slice(u, 0, 7), Slice(u, 7, 9)) = Slice(u, 0, 9)
    BY Slices
  <2> QED
    BY <1>1, <1>2, <1>3, <1>4, <1>5, <2>1, Zenon DEF Then, BackwardWait
<1>7. <<Store(Gm("dS", k), Ub("sTile"))>> = Slice(u, 9, 10)
  BY DEF Slice
<1>8. <<Load(Ub("gammaTile"), Gm("gamma", k))>> = Slice(u, 10, 11)
  BY DEF Slice
<1>9. Sync("MTE2", "V", 2) = Slice(u, 11, 13)
  BY DEF Slice, Sync
<1>10. <<Vec("TROWEXPANDMUL", Ub("recvTile"), <<Ub("sTile"), Ub("gammaTile")>>)>> = Slice(u, 13, 14)
  BY DEF Slice
<1>11. Sync("V", "MTE3", 2) = Slice(u, 14, 16)
  BY DEF Slice, Sync
<1>12. <<Store(Gm("remote", k), Ub("recvTile"))>> = Slice(u, 16, 17)
  BY DEF Slice
<1>13. Sync("MTE3", "S", 7) = Slice(u, 17, 19)
  BY DEF Slice, Sync
<1>14. <<Barrier, Scalar("TNOTIFY")>> = Slice(u, 19, 21)
  BY DEF Slice
<1>15. FlushOut = Slice(u, 17, 21)
  <2> HIDE DEF u
  <2>1. /\ Then(Slice(u, 17, 19), Slice(u, 19, 21)) = Slice(u, 17, 21)
    BY Slices
  <2> QED
    BY <1>13, <1>14, <2>1, Zenon DEF Then, FlushOut
<1>16. BackwardPush(k) = Slice(u, 10, 21)
  <2> HIDE DEF u
  <2>1. /\ Then(Slice(u, 10, 11), Slice(u, 11, 13)) = Slice(u, 10, 13)
        /\ Then(Slice(u, 10, 13), Slice(u, 13, 14)) = Slice(u, 10, 14)
        /\ Then(Slice(u, 10, 14), Slice(u, 14, 16)) = Slice(u, 10, 16)
        /\ Then(Slice(u, 10, 16), Slice(u, 16, 17)) = Slice(u, 10, 17)
        /\ Then(Slice(u, 10, 17), Slice(u, 17, 21)) = Slice(u, 10, 21)
    BY Slices
  <2> QED
    BY <1>8, <1>9, <1>10, <1>11, <1>12, <1>15, <2>1, Zenon DEF Then, BackwardPush
<1>17. Sync("MTE3", "MTE2", 3) = Slice(u, 21, 23)
  BY DEF Slice, Sync
<1>18. <<Load(Ub("recvTile"), Gm("out_prev", k))>> = Slice(u, 23, 24)
  BY DEF Slice
<1>19. Sync("MTE2", "V", 1) = Slice(u, 24, 26)
  BY DEF Slice, Sync
<1>20. <<Vec("TMUL", Ub("recvTile"), <<Ub("sTile"), Ub("recvTile")>>), BarrierV,
           Op("V", "TROWSUM", <<Ub("dgammaTile"), Ub("sTile")>>, <<Ub("recvTile")>>)>> = Slice(u, 26, 29)
  BY DEF Slice
<1>21. Sync("V", "MTE3", 1) = Slice(u, 29, 31)
  BY DEF Slice, Sync
<1>22. <<Store(Gm("dgamma", k), Ub("dgammaTile"))>> = Slice(u, 31, 32)
  BY DEF Slice
<1>23. GammaGradOpen(k) = Slice(u, 21, 32)
  <2> HIDE DEF u
  <2>1. /\ Then(Slice(u, 21, 23), Slice(u, 23, 24)) = Slice(u, 21, 24)
        /\ Then(Slice(u, 21, 24), Slice(u, 24, 26)) = Slice(u, 21, 26)
        /\ Then(Slice(u, 21, 26), Slice(u, 26, 29)) = Slice(u, 21, 29)
        /\ Then(Slice(u, 21, 29), Slice(u, 29, 31)) = Slice(u, 21, 31)
        /\ Then(Slice(u, 21, 31), Slice(u, 31, 32)) = Slice(u, 21, 32)
    BY Slices
  <2> QED
    BY <1>17, <1>18, <1>19, <1>20, <1>21, <1>22, <2>1, Zenon DEF Then, GammaGradOpen
<1>24. <<Barrier>> = Slice(u, 32, 33)
  BY DEF Slice
<1>25. GammaGrad(k) = Slice(u, 21, 33)
  <2> HIDE DEF u
  <2>1. /\ Then(Slice(u, 21, 32), Slice(u, 32, 33)) = Slice(u, 21, 33)
    BY Slices
  <2> QED
    BY <1>23, <1>24, <2>1, Zenon DEF Then, GammaGrad
<1>26. s = Slice(u, 0, 33)
  <2> HIDE DEF u
  <2>1. /\ Then(Slice(u, 0, 9), Slice(u, 9, 10)) = Slice(u, 0, 10)
        /\ Then(Slice(u, 10, 21), Slice(u, 21, 33)) = Slice(u, 10, 33)
        /\ Then(Slice(u, 0, 10), Slice(u, 10, 33)) = Slice(u, 0, 33)
    BY Slices
  <2>2. "middle" # "first" /\ "middle" # "last"
    OBVIOUS
  <2> QED
    BY <1>6, <1>7, <1>16, <1>25, <2>1, <2>2, Zenon DEF Then, BackwardBlock
<1>27. PICK n \in Nat : n = 33
  OBVIOUS
<1>28. IsList(s) /\ Len(s) = 33 /\ \A i \in 1..33 : s[i] = u[i]
  <2> HIDE DEF u, s
  <2>1. IsList(Slice(u, 0, n)) /\ Len(Slice(u, 0, n)) = n /\ \A i \in 1..n : Slice(u, 0, n)[i] = u[i]
    BY SliceAll
  <2> QED
    BY <1>26, <1>27, <2>1
<1> HIDE DEF s
<1>29. /\ Entry(s, 1, Scalar("TWAIT")) /\ Entry(s, 2, Barrier)
       /\ Entry(s, 3, Load(Ub("recvTile"), Gm("recv", k)))
       /\ Entry(s, 4, Load(Ub("sTile"), Gm("g_out", k))) /\ Entry(s, 5, SetFlag("MTE2", "V", 0))
       /\ Entry(s, 6, WaitFlag("MTE2", "V", 0))
       /\ Entry(s, 7, Vec("TADD", Ub("sTile"), <<Ub("sTile"), Ub("recvTile")>>))
       /\ Entry(s, 8, SetFlag("V", "MTE3", 0)) /\ Entry(s, 9, WaitFlag("V", "MTE3", 0))
       /\ Entry(s, 10, Store(Gm("dS", k), Ub("sTile")))
       /\ Entry(s, 11, Load(Ub("gammaTile"), Gm("gamma", k))) /\ Entry(s, 12, SetFlag("MTE2", "V", 2))
       /\ Entry(s, 13, WaitFlag("MTE2", "V", 2))
       /\ Entry(s, 14, Vec("TROWEXPANDMUL", Ub("recvTile"), <<Ub("sTile"), Ub("gammaTile")>>))
       /\ Entry(s, 15, SetFlag("V", "MTE3", 2)) /\ Entry(s, 16, WaitFlag("V", "MTE3", 2))
       /\ Entry(s, 17, Store(Gm("remote", k), Ub("recvTile"))) /\ Entry(s, 18, SetFlag("MTE3", "S", 7))
       /\ Entry(s, 19, WaitFlag("MTE3", "S", 7)) /\ Entry(s, 20, Barrier)
       /\ Entry(s, 21, Scalar("TNOTIFY")) /\ Entry(s, 22, SetFlag("MTE3", "MTE2", 3))
       /\ Entry(s, 23, WaitFlag("MTE3", "MTE2", 3))
       /\ Entry(s, 24, Load(Ub("recvTile"), Gm("out_prev", k))) /\ Entry(s, 25, SetFlag("MTE2", "V", 1))
       /\ Entry(s, 26, WaitFlag("MTE2", "V", 1))
       /\ Entry(s, 27, Vec("TMUL", Ub("recvTile"), <<Ub("sTile"), Ub("recvTile")>>))
       /\ Entry(s, 28, BarrierV)
       /\ Entry(s, 29, Op("V", "TROWSUM", <<Ub("dgammaTile"), Ub("sTile")>>, <<Ub("recvTile")>>))
       /\ Entry(s, 30, SetFlag("V", "MTE3", 1)) /\ Entry(s, 31, WaitFlag("V", "MTE3", 1))
       /\ Entry(s, 32, Store(Gm("dgamma", k), Ub("dgammaTile"))) /\ Entry(s, 33, Barrier)
  BY <1>28 DEF Entry
<1> HIDE DEF u
<1>30. /\ PauseAt(s, 1) /\ FenceAt(s, 2) /\ SetAt(s, 5, "MTE2", "V", 0) /\ WaitAt(s, 6, "MTE2", "V", 0)
       /\ SetAt(s, 8, "V", "MTE3", 0) /\ WaitAt(s, 9, "V", "MTE3", 0) /\ SetAt(s, 12, "MTE2", "V", 2)
       /\ WaitAt(s, 13, "MTE2", "V", 2) /\ SetAt(s, 15, "V", "MTE3", 2) /\ WaitAt(s, 16, "V", "MTE3", 2)
  BY <1>28, <1>29, SyncsAre
<1>31. /\ SetAt(s, 18, "MTE3", "S", 7) /\ WaitAt(s, 19, "MTE3", "S", 7) /\ FenceAt(s, 20) /\ PauseAt(s, 21)
       /\ SetAt(s, 22, "MTE3", "MTE2", 3) /\ WaitAt(s, 23, "MTE3", "MTE2", 3)
       /\ SetAt(s, 25, "MTE2", "V", 1) /\ WaitAt(s, 26, "MTE2", "V", 1) /\ PauseAt(s, 28)
       /\ SetAt(s, 30, "V", "MTE3", 1)
  BY <1>28, <1>29, SyncsAre
<1>32. /\ WaitAt(s, 31, "V", "MTE3", 1) /\ FenceAt(s, 33)
  BY <1>28, <1>29, SyncsAre
<1>33. /\ MoveAt(s, 3, "MTE2", "copy", <<Ub("recvTile")>>, <<Gm("recv", k)>>)
       /\ MoveAt(s, 4, "MTE2", "copy", <<Ub("sTile")>>, <<Gm("g_out", k)>>)
       /\ MoveAt(s, 7, "V", "TADD", <<Ub("sTile")>>, <<Ub("sTile"), Ub("recvTile")>>)
       /\ MoveAt(s, 10, "MTE3", "copy", <<Gm("dS", k)>>, <<Ub("sTile")>>)
       /\ MoveAt(s, 11, "MTE2", "copy", <<Ub("gammaTile")>>, <<Gm("gamma", k)>>)
       /\ MoveAt(s, 14, "V", "TROWEXPANDMUL", <<Ub("recvTile")>>, <<Ub("sTile"), Ub("gammaTile")>>)
       /\ MoveAt(s, 17, "MTE3", "copy", <<Gm("remote", k)>>, <<Ub("recvTile")>>)
       /\ MoveAt(s, 24, "MTE2", "copy", <<Ub("recvTile")>>, <<Gm("out_prev", k)>>)
       /\ MoveAt(s, 27, "V", "TMUL", <<Ub("recvTile")>>, <<Ub("sTile"), Ub("recvTile")>>)
       /\ MoveAt(s, 29, "V", "TROWSUM", <<Ub("dgammaTile"), Ub("sTile")>>, <<Ub("recvTile")>>)
       /\ MoveAt(s, 32, "MTE3", "copy", <<Gm("dgamma", k)>>, <<Ub("dgammaTile")>>)
  BY <1>28, <1>29, MovesAre
<1> QED
  BY <1>28, <1>30, <1>31, <1>32, <1>33 DEF BackwardMiddleRows, s

BackwardMiddleCells(s, k) ==
  /\ \A b \in 1..33 : b \in {3, 4, 7, 10, 11, 14, 17, 24, 27, 29, 32} \/ StillAt(s, b)
  /\ \A b \in {3, 4, 7, 10, 11, 14, 17, 24, 27, 29, 32} : Moves(s[b])
  /\ \A b \in 1..33 : \A c : Puts(s, b, c) \/ Takes(s, b, c) =>
         b \in {3, 4, 7, 10, 11, 14, 17, 24, 27, 29, 32}
  /\ \A c : Puts(s, 3, c) <=> c = Ub("recvTile")
  /\ \A c : Puts(s, 4, c) <=> c = Ub("sTile")
  /\ \A c : Puts(s, 7, c) <=> c = Ub("sTile")
  /\ \A c : Puts(s, 10, c) <=> c = Gm("dS", k)
  /\ \A c : Puts(s, 11, c) <=> c = Ub("gammaTile")
  /\ \A c : Puts(s, 14, c) <=> c = Ub("recvTile")
  /\ \A c : Puts(s, 17, c) <=> c = Gm("remote", k)
  /\ \A c : Puts(s, 24, c) <=> c = Ub("recvTile")
  /\ \A c : Puts(s, 27, c) <=> c = Ub("recvTile")
  /\ \A c : Puts(s, 29, c) <=> c = Ub("dgammaTile") \/ c = Ub("sTile")
  /\ \A c : Puts(s, 32, c) <=> c = Gm("dgamma", k)
  /\ \A c : Takes(s, 3, c) <=> c = Gm("recv", k)
  /\ \A c : Takes(s, 4, c) <=> c = Gm("g_out", k)
  /\ \A c : Takes(s, 7, c) <=> c = Ub("sTile") \/ c = Ub("recvTile")
  /\ \A c : Takes(s, 10, c) <=> c = Ub("sTile")
  /\ \A c : Takes(s, 11, c) <=> c = Gm("gamma", k)
  /\ \A c : Takes(s, 14, c) <=> c = Ub("sTile") \/ c = Ub("gammaTile")
  /\ \A c : Takes(s, 17, c) <=> c = Ub("recvTile")
  /\ \A c : Takes(s, 24, c) <=> c = Gm("out_prev", k)
  /\ \A c : Takes(s, 27, c) <=> c = Ub("sTile") \/ c = Ub("recvTile")
  /\ \A c : Takes(s, 29, c) <=> c = Ub("recvTile")
  /\ \A c : Takes(s, 32, c) <=> c = Ub("dgammaTile")

LEMMA BackwardMiddleUses == ASSUME NEW s, NEW k, BackwardMiddleRows(s, k) PROVE BackwardMiddleCells(s, k)
<1>1. /\ StillAt(s, 1) /\ StillAt(s, 2) /\ StillAt(s, 5) /\ StillAt(s, 6) /\ StillAt(s, 8)
      /\ StillAt(s, 9) /\ StillAt(s, 12) /\ StillAt(s, 13) /\ StillAt(s, 15) /\ StillAt(s, 16)
      /\ StillAt(s, 18) /\ StillAt(s, 19) /\ StillAt(s, 20) /\ StillAt(s, 21) /\ StillAt(s, 22)
      /\ StillAt(s, 23) /\ StillAt(s, 25) /\ StillAt(s, 26) /\ StillAt(s, 28) /\ StillAt(s, 30)
      /\ StillAt(s, 31) /\ StillAt(s, 33)
  BY FlagsAreStill DEF BackwardMiddleRows
<1>2. \A b \in 1..33 : b \in {3, 4, 7, 10, 11, 14, 17, 24, 27, 29, 32} \/ StillAt(s, b)
  BY <1>1
<1>3. \A b \in {3, 4, 7, 10, 11, 14, 17, 24, 27, 29, 32} : Moves(s[b])
  BY DEF BackwardMiddleRows, MoveAt
<1>4. \A b \in 1..33 : \A c : Puts(s, b, c) \/ Takes(s, b, c) =>
          b \in {3, 4, 7, 10, 11, 14, 17, 24, 27, 29, 32}
  BY <1>2, CellsUsed
<1>5. /\ \A c : Puts(s, 3, c) <=> c = Ub("recvTile")
      /\ \A c : Puts(s, 4, c) <=> c = Ub("sTile")
      /\ \A c : Puts(s, 7, c) <=> c = Ub("sTile")
      /\ \A c : Puts(s, 10, c) <=> c = Gm("dS", k)
      /\ \A c : Puts(s, 11, c) <=> c = Ub("gammaTile")
      /\ \A c : Puts(s, 14, c) <=> c = Ub("recvTile")
  <2>1. /\ MoveAt(s, 3, "MTE2", "copy", <<Ub("recvTile")>>, <<Gm("recv", k)>>)
        /\ MoveAt(s, 4, "MTE2", "copy", <<Ub("sTile")>>, <<Gm("g_out", k)>>)
        /\ MoveAt(s, 7, "V", "TADD", <<Ub("sTile")>>, <<Ub("sTile"), Ub("recvTile")>>)
        /\ MoveAt(s, 10, "MTE3", "copy", <<Gm("dS", k)>>, <<Ub("sTile")>>)
        /\ MoveAt(s, 11, "MTE2", "copy", <<Ub("gammaTile")>>, <<Gm("gamma", k)>>)
        /\ MoveAt(s, 14, "V", "TROWEXPANDMUL", <<Ub("recvTile")>>, <<Ub("sTile"), Ub("gammaTile")>>)
    BY DEF BackwardMiddleRows
  <2> QED
    BY <2>1, CellsUsed
<1>6. /\ \A c : Puts(s, 17, c) <=> c = Gm("remote", k)
      /\ \A c : Puts(s, 24, c) <=> c = Ub("recvTile")
      /\ \A c : Puts(s, 27, c) <=> c = Ub("recvTile")
      /\ \A c : Puts(s, 29, c) <=> c = Ub("dgammaTile") \/ c = Ub("sTile")
      /\ \A c : Puts(s, 32, c) <=> c = Gm("dgamma", k)
  <2>1. /\ MoveAt(s, 17, "MTE3", "copy", <<Gm("remote", k)>>, <<Ub("recvTile")>>)
        /\ MoveAt(s, 24, "MTE2", "copy", <<Ub("recvTile")>>, <<Gm("out_prev", k)>>)
        /\ MoveAt(s, 27, "V", "TMUL", <<Ub("recvTile")>>, <<Ub("sTile"), Ub("recvTile")>>)
        /\ MoveAt(s, 29, "V", "TROWSUM", <<Ub("dgammaTile"), Ub("sTile")>>, <<Ub("recvTile")>>)
        /\ MoveAt(s, 32, "MTE3", "copy", <<Gm("dgamma", k)>>, <<Ub("dgammaTile")>>)
    BY DEF BackwardMiddleRows
  <2> QED
    BY <2>1, CellsUsed
<1>7. /\ \A c : Takes(s, 3, c) <=> c = Gm("recv", k)
      /\ \A c : Takes(s, 4, c) <=> c = Gm("g_out", k)
      /\ \A c : Takes(s, 7, c) <=> c = Ub("sTile") \/ c = Ub("recvTile")
      /\ \A c : Takes(s, 10, c) <=> c = Ub("sTile")
      /\ \A c : Takes(s, 11, c) <=> c = Gm("gamma", k)
      /\ \A c : Takes(s, 14, c) <=> c = Ub("sTile") \/ c = Ub("gammaTile")
  <2>1. /\ MoveAt(s, 3, "MTE2", "copy", <<Ub("recvTile")>>, <<Gm("recv", k)>>)
        /\ MoveAt(s, 4, "MTE2", "copy", <<Ub("sTile")>>, <<Gm("g_out", k)>>)
        /\ MoveAt(s, 7, "V", "TADD", <<Ub("sTile")>>, <<Ub("sTile"), Ub("recvTile")>>)
        /\ MoveAt(s, 10, "MTE3", "copy", <<Gm("dS", k)>>, <<Ub("sTile")>>)
        /\ MoveAt(s, 11, "MTE2", "copy", <<Ub("gammaTile")>>, <<Gm("gamma", k)>>)
        /\ MoveAt(s, 14, "V", "TROWEXPANDMUL", <<Ub("recvTile")>>, <<Ub("sTile"), Ub("gammaTile")>>)
    BY DEF BackwardMiddleRows
  <2> QED
    BY <2>1, CellsUsed
<1>8. /\ \A c : Takes(s, 17, c) <=> c = Ub("recvTile")
      /\ \A c : Takes(s, 24, c) <=> c = Gm("out_prev", k)
      /\ \A c : Takes(s, 27, c) <=> c = Ub("sTile") \/ c = Ub("recvTile")
      /\ \A c : Takes(s, 29, c) <=> c = Ub("recvTile")
      /\ \A c : Takes(s, 32, c) <=> c = Ub("dgammaTile")
  <2>1. /\ MoveAt(s, 17, "MTE3", "copy", <<Gm("remote", k)>>, <<Ub("recvTile")>>)
        /\ MoveAt(s, 24, "MTE2", "copy", <<Ub("recvTile")>>, <<Gm("out_prev", k)>>)
        /\ MoveAt(s, 27, "V", "TMUL", <<Ub("recvTile")>>, <<Ub("sTile"), Ub("recvTile")>>)
        /\ MoveAt(s, 29, "V", "TROWSUM", <<Ub("dgammaTile"), Ub("sTile")>>, <<Ub("recvTile")>>)
        /\ MoveAt(s, 32, "MTE3", "copy", <<Gm("dgamma", k)>>, <<Ub("dgammaTile")>>)
    BY DEF BackwardMiddleRows
  <2> QED
    BY <2>1, CellsUsed
<1> QED
  BY <1>2, <1>3, <1>4, <1>5, <1>6, <1>7, <1>8 DEF BackwardMiddleCells

LEMMA BackwardMiddleTidy == ASSUME NEW s, NEW k, BackwardMiddleRows(s, k) PROVE Sound(s) /\ Tidy(s)
<1>1. IsList(s) /\ Len(s) = 33
  BY DEF BackwardMiddleRows
<1>2. Paired(s)
  <2>1. PairedAt(s, 5) /\ PairedAt(s, 6)
    BY SyncPaired DEF BackwardMiddleRows
  <2>2. PairedAt(s, 8) /\ PairedAt(s, 9)
    BY SyncPaired DEF BackwardMiddleRows
  <2>3. PairedAt(s, 12) /\ PairedAt(s, 13)
    BY SyncPaired DEF BackwardMiddleRows
  <2>4. PairedAt(s, 15) /\ PairedAt(s, 16)
    BY SyncPaired DEF BackwardMiddleRows
  <2>5. PairedAt(s, 18) /\ PairedAt(s, 19)
    BY SyncPaired DEF BackwardMiddleRows
  <2>6. PairedAt(s, 22) /\ PairedAt(s, 23)
    BY SyncPaired DEF BackwardMiddleRows
  <2>7. PairedAt(s, 25) /\ PairedAt(s, 26)
    BY SyncPaired DEF BackwardMiddleRows
  <2>8. PairedAt(s, 30) /\ PairedAt(s, 31)
    BY SyncPaired DEF BackwardMiddleRows
  <2>9. /\ PairedAt(s, 1) /\ PairedAt(s, 2) /\ PairedAt(s, 3) /\ PairedAt(s, 4) /\ PairedAt(s, 7)
        /\ PairedAt(s, 10) /\ PairedAt(s, 11) /\ PairedAt(s, 14) /\ PairedAt(s, 17) /\ PairedAt(s, 20)
        /\ PairedAt(s, 21) /\ PairedAt(s, 24) /\ PairedAt(s, 27) /\ PairedAt(s, 28) /\ PairedAt(s, 29)
        /\ PairedAt(s, 32) /\ PairedAt(s, 33)
    BY StillPaired DEF BackwardMiddleRows
  <2> QED
    BY <1>1, <2>1, <2>2, <2>3, <2>4, <2>5, <2>6, <2>7, <2>8, <2>9 DEF Paired
<1>3. /\ RunsOn(s, 3, "MTE2") /\ RunsOn(s, 4, "MTE2") /\ RunsOn(s, 7, "V") /\ RunsOn(s, 10, "MTE3")
      /\ RunsOn(s, 11, "MTE2") /\ RunsOn(s, 14, "V") /\ RunsOn(s, 17, "MTE3") /\ RunsOn(s, 24, "MTE2")
      /\ RunsOn(s, 27, "V") /\ RunsOn(s, 29, "V") /\ RunsOn(s, 32, "MTE3")
  BY MoveRuns DEF BackwardMiddleRows
<1>4. BackwardMiddleCells(s, k)
  BY BackwardMiddleUses
<1>5. Before(s, 3, 7)
  BY <1>3, ByFlag DEF BackwardMiddleRows
<1>6. Before(s, 3, 14)
  BY <1>3, ByFlag DEF BackwardMiddleRows
<1>7. Before(s, 3, 4)
  BY <1>3, ByPipe
<1>8. Before(s, 4, 7)
  BY <1>3, ByFlag DEF BackwardMiddleRows
<1>9. Before(s, 7, 17)
  BY <1>3, ByFlag DEF BackwardMiddleRows
<1>10. Before(s, 4, 17)
  BY <1>8, <1>9, ByBoth
<1>11. Before(s, 3, 17)
  BY <1>7, <1>10, ByBoth
<1>12. Before(s, 3, 24)
  BY <1>3, ByPipe
<1>13. \A a, b \in 1..33 : a < 20 /\ 20 < b => Before(s, a, b)
  <2>1. FenceAt(s, 20)
    BY DEF BackwardMiddleRows
  <2> QED
    BY <1>1, <2>1, Divided
<1>14. Before(s, 7, 10)
  BY <1>3, ByFlag DEF BackwardMiddleRows
<1>15. Before(s, 4, 10)
  BY <1>8, <1>14, ByBoth
<1>16. Before(s, 4, 14)
  BY <1>3, ByFlag DEF BackwardMiddleRows
<1>17. Before(s, 7, 14)
  BY <1>3, ByPipe
<1>18. Before(s, 7, 27)
  BY <1>3, ByPipe
<1>19. Before(s, 7, 29)
  BY <1>3, ByPipe
<1>20. Before(s, 11, 14)
  BY <1>3, ByFlag DEF BackwardMiddleRows
<1>21. Before(s, 14, 17)
  BY <1>3, ByFlag DEF BackwardMiddleRows
<1>22. Before(s, 14, 27)
  BY <1>3, ByPipe
<1>23. Before(s, 14, 29)
  BY <1>3, ByPipe
<1>24. Before(s, 24, 27)
  BY <1>3, ByFlag DEF BackwardMiddleRows
<1>25. Before(s, 24, 29)
  BY <1>3, ByFlag DEF BackwardMiddleRows
<1>26. Before(s, 27, 29)
  BY <1>3, ByPipe
<1>27. Before(s, 29, 32)
  BY <1>3, ByFlag DEF BackwardMiddleRows
<1>28. OrderedFrom(s, 3)
  <2>1. ASSUME NEW b \in 1..33, NEW c, 3 < b, Clash(s, 3, b, c) PROVE Before(s, 3, b)
    BY <1>4, <1>7, <1>5, <1>6, <1>11, <1>12, <1>13, <2>1, Named DEF BackwardMiddleCells, Clash
  <2> QED
    BY <1>1, <2>1, ClashBefore
<1>29. OrderedFrom(s, 4)
  <2>1. ASSUME NEW b \in 1..33, NEW c, 4 < b, Clash(s, 4, b, c) PROVE Before(s, 4, b)
    BY <1>4, <1>8, <1>15, <1>16, <1>10, <1>13, <2>1, Named DEF BackwardMiddleCells, Clash
  <2> QED
    BY <1>1, <2>1, ClashBefore
<1>30. OrderedFrom(s, 7)
  <2>1. ASSUME NEW b \in 1..33, NEW c, 7 < b, Clash(s, 7, b, c) PROVE Before(s, 7, b)
    BY <1>4, <1>14, <1>17, <1>9, <1>13, <1>18, <1>19, <2>1, Named DEF BackwardMiddleCells, Clash
  <2> QED
    BY <1>1, <2>1, ClashBefore
<1>31. OrderedFrom(s, 10)
  <2>1. ASSUME NEW b \in 1..33, NEW c, 10 < b, Clash(s, 10, b, c) PROVE Before(s, 10, b)
    BY <1>4, <1>13, <2>1, Named DEF BackwardMiddleCells, Clash
  <2> QED
    BY <1>1, <2>1, ClashBefore
<1>32. OrderedFrom(s, 11)
  <2>1. ASSUME NEW b \in 1..33, NEW c, 11 < b, Clash(s, 11, b, c) PROVE Before(s, 11, b)
    BY <1>4, <1>20, <2>1, Named DEF BackwardMiddleCells, Clash
  <2> QED
    BY <1>1, <2>1, ClashBefore
<1>33. OrderedFrom(s, 14)
  <2>1. ASSUME NEW b \in 1..33, NEW c, 14 < b, Clash(s, 14, b, c) PROVE Before(s, 14, b)
    BY <1>4, <1>21, <1>13, <1>22, <1>23, <2>1, Named DEF BackwardMiddleCells, Clash
  <2> QED
    BY <1>1, <2>1, ClashBefore
<1>34. OrderedFrom(s, 17)
  <2>1. ASSUME NEW b \in 1..33, NEW c, 17 < b, Clash(s, 17, b, c) PROVE Before(s, 17, b)
    BY <1>4, <1>13, <2>1, Named DEF BackwardMiddleCells, Clash
  <2> QED
    BY <1>1, <2>1, ClashBefore
<1>35. OrderedFrom(s, 24)
  <2>1. ASSUME NEW b \in 1..33, NEW c, 24 < b, Clash(s, 24, b, c) PROVE Before(s, 24, b)
    BY <1>4, <1>24, <1>25, <2>1, Named DEF BackwardMiddleCells, Clash
  <2> QED
    BY <1>1, <2>1, ClashBefore
<1>36. OrderedFrom(s, 27)
  <2>1. ASSUME NEW b \in 1..33, NEW c, 27 < b, Clash(s, 27, b, c) PROVE Before(s, 27, b)
    BY <1>4, <1>26, <2>1, Named DEF BackwardMiddleCells, Clash
  <2> QED
    BY <1>1, <2>1, ClashBefore
<1>37. OrderedFrom(s, 29)
  <2>1. ASSUME NEW b \in 1..33, NEW c, 29 < b, Clash(s, 29, b, c) PROVE Before(s, 29, b)
    BY <1>4, <1>27, <2>1, Named DEF BackwardMiddleCells, Clash
  <2> QED
    BY <1>1, <2>1, ClashBefore
<1>38. OrderedFrom(s, 32)
  <2>1. ASSUME NEW b \in 1..33, NEW c, 32 < b, Clash(s, 32, b, c) PROVE Before(s, 32, b)
    BY <1>4, <2>1, Named DEF BackwardMiddleCells, Clash
  <2> QED
    BY <1>1, <2>1, ClashBefore
<1>39. Ordered(s)
  BY <1>1, <1>4, <1>28, <1>29, <1>30, <1>31, <1>32, <1>33, <1>34, <1>35, <1>36, <1>37, <1>38,
     OrderedAll DEF BackwardMiddleCells
<1>40. Plain(s)
  BY <1>1, <1>4 DEF BackwardMiddleCells, Plain, StillAt
<1> QED
  BY <1>1, <1>2, <1>39, <1>40 DEF Sound, Tidy

BackwardMiddleMade(k) ==
  <<Scratch, Scratch, Gm("recv", k), Gm("g_out", k), Scratch, Scratch,
    <<"TADD", Gm("g_out", k), Gm("recv", k)>>, Scratch, Scratch,
    <<"TADD", Gm("g_out", k), Gm("recv", k)>>, Gm("gamma", k), Scratch, Scratch,
    <<"TROWEXPANDMUL", <<"TADD", Gm("g_out", k), Gm("recv", k)>>, Gm("gamma", k)>>, Scratch,
    Scratch, <<"TROWEXPANDMUL", <<"TADD", Gm("g_out", k), Gm("recv", k)>>, Gm("gamma", k)>>,
    Scratch, Scratch, Scratch, Scratch, Scratch, Scratch, Gm("out_prev", k), Scratch, Scratch,
    <<"TMUL", <<"TADD", Gm("g_out", k), Gm("recv", k)>>, Gm("out_prev", k)>>, Scratch,
    <<"TROWSUM", <<"TMUL", <<"TADD", Gm("g_out", k), Gm("recv", k)>>, Gm("out_prev", k)>>>>,
    Scratch, Scratch,
    <<"TROWSUM", <<"TMUL", <<"TADD", Gm("g_out", k), Gm("recv", k)>>, Gm("out_prev", k)>>>>,
    Scratch>>

LEMMA BackwardMiddleMakes ==
  ASSUME NEW s, NEW k, BackwardMiddleRows(s, k)
  PROVE  /\ Annotated(s, BackwardMiddleMade(k))
         /\ Delivers(s, BackwardMiddleMade(k), {<<Gm("dS", k), <<"TADD", Gm("g_out", k), Gm("recv", k)>>>>,
                      <<Gm("remote", k), <<"TROWEXPANDMUL", <<"TADD", Gm("g_out", k), Gm("recv", k)>>,
                          Gm("gamma", k)>>>>,
                      <<Gm("dgamma", k), <<"TROWSUM",
                          <<"TMUL", <<"TADD", Gm("g_out", k), Gm("recv", k)>>, Gm("out_prev", k)>>>>>>})
<1> DEFINE v == BackwardMiddleMade(k)
<1>1. IsList(s) /\ Len(s) = 33
  BY DEF BackwardMiddleRows
<1>2. IsList(v) /\ Len(v) = 33
  <2>1. v = Slice(v, 0, 33)
    BY DEF Slice, BackwardMiddleMade
  <2>2. PICK n \in Nat : n = 33
    OBVIOUS
  <2> HIDE DEF v
  <2> QED
    BY <2>1, <2>2, ListOf
<1>3. /\ v[1] = Scratch /\ v[2] = Scratch /\ v[3] = Gm("recv", k) /\ v[4] = Gm("g_out", k)
      /\ v[5] = Scratch /\ v[6] = Scratch /\ v[7] = <<"TADD", Gm("g_out", k), Gm("recv", k)>>
      /\ v[8] = Scratch /\ v[9] = Scratch /\ v[10] = <<"TADD", Gm("g_out", k), Gm("recv", k)>>
      /\ v[11] = Gm("gamma", k) /\ v[12] = Scratch /\ v[13] = Scratch
      /\ v[14] = <<"TROWEXPANDMUL", <<"TADD", Gm("g_out", k), Gm("recv", k)>>, Gm("gamma", k)>>
      /\ v[15] = Scratch /\ v[16] = Scratch
      /\ v[17] = <<"TROWEXPANDMUL", <<"TADD", Gm("g_out", k), Gm("recv", k)>>, Gm("gamma", k)>>
      /\ v[18] = Scratch /\ v[19] = Scratch /\ v[20] = Scratch /\ v[21] = Scratch /\ v[22] = Scratch
      /\ v[23] = Scratch /\ v[24] = Gm("out_prev", k) /\ v[25] = Scratch /\ v[26] = Scratch
      /\ v[27] = <<"TMUL", <<"TADD", Gm("g_out", k), Gm("recv", k)>>, Gm("out_prev", k)>>
      /\ v[28] = Scratch
      /\ v[29] = <<"TROWSUM", <<"TMUL", <<"TADD", Gm("g_out", k), Gm("recv", k)>>, Gm("out_prev", k)>>>>
      /\ v[30] = Scratch /\ v[31] = Scratch
      /\ v[32] = <<"TROWSUM", <<"TMUL", <<"TADD", Gm("g_out", k), Gm("recv", k)>>, Gm("out_prev", k)>>>>
      /\ v[33] = Scratch
  <2>1. /\ v[1] = Scratch /\ v[2] = Scratch /\ v[3] = Gm("recv", k) /\ v[4] = Gm("g_out", k)
        /\ v[5] = Scratch /\ v[6] = Scratch /\ v[7] = <<"TADD", Gm("g_out", k), Gm("recv", k)>>
        /\ v[8] = Scratch /\ v[9] = Scratch /\ v[10] = <<"TADD", Gm("g_out", k), Gm("recv", k)>>
        /\ v[11] = Gm("gamma", k) /\ v[12] = Scratch /\ v[13] = Scratch
        /\ v[14] = <<"TROWEXPANDMUL", <<"TADD", Gm("g_out", k), Gm("recv", k)>>, Gm("gamma", k)>>
        /\ v[15] = Scratch /\ v[16] = Scratch
        /\ v[17] = <<"TROWEXPANDMUL", <<"TADD", Gm("g_out", k), Gm("recv", k)>>, Gm("gamma", k)>>
    BY DEF BackwardMiddleMade
  <2>2. /\ v[18] = Scratch /\ v[19] = Scratch /\ v[20] = Scratch /\ v[21] = Scratch /\ v[22] = Scratch
        /\ v[23] = Scratch /\ v[24] = Gm("out_prev", k) /\ v[25] = Scratch /\ v[26] = Scratch
        /\ v[27] = <<"TMUL", <<"TADD", Gm("g_out", k), Gm("recv", k)>>, Gm("out_prev", k)>>
        /\ v[28] = Scratch
        /\ v[29] = <<"TROWSUM", <<"TMUL", <<"TADD", Gm("g_out", k), Gm("recv", k)>>, Gm("out_prev", k)>>>>
        /\ v[30] = Scratch /\ v[31] = Scratch
        /\ v[32] = <<"TROWSUM", <<"TMUL", <<"TADD", Gm("g_out", k), Gm("recv", k)>>, Gm("out_prev", k)>>>>
        /\ v[33] = Scratch
    BY DEF BackwardMiddleMade
  <2> HIDE DEF v
  <2> QED
    BY <2>1, <2>2
<1> HIDE DEF v
<1>0. BackwardMiddleCells(s, k)
  BY BackwardMiddleUses
<1>4. /\ s[3].dst[1] = Ub("recvTile") /\ s[4].dst[1] = Ub("sTile") /\ s[7].dst[1] = Ub("sTile")
      /\ s[10].dst[1] = Gm("dS", k) /\ s[11].dst[1] = Ub("gammaTile") /\ s[14].dst[1] = Ub("recvTile")
      /\ s[17].dst[1] = Gm("remote", k) /\ s[24].dst[1] = Ub("recvTile") /\ s[27].dst[1] = Ub("recvTile")
      /\ s[29].dst[1] = Ub("dgammaTile") /\ s[32].dst[1] = Gm("dgamma", k)
  BY DEF BackwardMiddleRows, MoveAt
<1>5. \A j \in 1..33 : Puts(s, j, Ub("recvTile")) => j \in {3, 14, 24, 27}
  BY <1>0, Named DEF BackwardMiddleCells
<1>6. \A j \in 1..33 : Puts(s, j, Gm("recv", k)) => j \in {}
  BY <1>0, Named DEF BackwardMiddleCells
<1>7. \A j \in 1..33 : Puts(s, j, Ub("sTile")) => j \in {4, 7, 29}
  BY <1>0, Named DEF BackwardMiddleCells
<1>8. \A j \in 1..33 : Puts(s, j, Gm("g_out", k)) => j \in {}
  BY <1>0, Named DEF BackwardMiddleCells
<1>9. \A j \in 1..33 : Puts(s, j, Gm("dS", k)) => j \in {10}
  BY <1>0, Named DEF BackwardMiddleCells
<1>10. \A j \in 1..33 : Puts(s, j, Ub("gammaTile")) => j \in {11}
  BY <1>0, Named DEF BackwardMiddleCells
<1>11. \A j \in 1..33 : Puts(s, j, Gm("gamma", k)) => j \in {}
  BY <1>0, Named DEF BackwardMiddleCells
<1>12. \A j \in 1..33 : Puts(s, j, Gm("remote", k)) => j \in {17}
  BY <1>0, Named DEF BackwardMiddleCells
<1>13. \A j \in 1..33 : Puts(s, j, Gm("out_prev", k)) => j \in {}
  BY <1>0, Named DEF BackwardMiddleCells
<1>14. \A j \in 1..33 : Puts(s, j, Ub("dgammaTile")) => j \in {29}
  BY <1>0, Named DEF BackwardMiddleCells
<1>15. \A j \in 1..33 : Puts(s, j, Gm("dgamma", k)) => j \in {32}
  BY <1>0, Named DEF BackwardMiddleCells
<1>16. v[3] = Made(s, v, 3)
  <2>1. NoWrite(s, Gm("recv", k), 3)
    BY <1>0, <1>1, <1>4, <1>6 DEF BackwardMiddleCells, LastWrite, NoWrite
  <2>2. Holds(s, v, Gm("recv", k), 3) = Gm("recv", k)
    BY <2>1, HeldBy
  <2>3. Made(s, v, 3) = Holds(s, v, Gm("recv", k), 3)
    BY MadeOf DEF BackwardMiddleRows
  <2> QED
    BY <1>3, <2>2, <2>3
<1>17. v[4] = Made(s, v, 4)
  <2>1. NoWrite(s, Gm("g_out", k), 4)
    BY <1>0, <1>1, <1>4, <1>8 DEF BackwardMiddleCells, LastWrite, NoWrite
  <2>2. Holds(s, v, Gm("g_out", k), 4) = Gm("g_out", k)
    BY <2>1, HeldBy
  <2>3. Made(s, v, 4) = Holds(s, v, Gm("g_out", k), 4)
    BY MadeOf DEF BackwardMiddleRows
  <2> QED
    BY <1>3, <2>2, <2>3
<1>18. v[7] = Made(s, v, 7)
  <2>1. LastWrite(s, Ub("sTile"), 7, 4) /\ LastWrite(s, Ub("recvTile"), 7, 3)
    BY <1>0, <1>1, <1>4, <1>7, <1>5 DEF BackwardMiddleCells, LastWrite, NoWrite
  <2>2. Holds(s, v, Ub("sTile"), 7) = v[4] /\ Holds(s, v, Ub("recvTile"), 7) = v[3]
    BY <2>1, HeldBy
  <2>3. Made(s, v, 7) = <<"TADD", Holds(s, v, Ub("sTile"), 7), Holds(s, v, Ub("recvTile"), 7)>>
    <3>1. "TADD" # "copy" /\ MoveAt(s, 7, "V", "TADD", <<Ub("sTile")>>, <<Ub("sTile"), Ub("recvTile")>>)
      BY DEF BackwardMiddleRows
    <3> QED
      BY <3>1, MadeOfTwo
  <2> QED
    BY <1>3, <2>2, <2>3
<1>19. v[10] = Made(s, v, 10)
  <2>1. LastWrite(s, Ub("sTile"), 10, 7)
    BY <1>0, <1>1, <1>4, <1>7 DEF BackwardMiddleCells, LastWrite, NoWrite
  <2>2. Holds(s, v, Ub("sTile"), 10) = v[7]
    BY <2>1, HeldBy
  <2>3. Made(s, v, 10) = Holds(s, v, Ub("sTile"), 10)
    BY MadeOf DEF BackwardMiddleRows
  <2> QED
    BY <1>3, <2>2, <2>3
<1>20. v[11] = Made(s, v, 11)
  <2>1. NoWrite(s, Gm("gamma", k), 11)
    BY <1>0, <1>1, <1>4, <1>11 DEF BackwardMiddleCells, LastWrite, NoWrite
  <2>2. Holds(s, v, Gm("gamma", k), 11) = Gm("gamma", k)
    BY <2>1, HeldBy
  <2>3. Made(s, v, 11) = Holds(s, v, Gm("gamma", k), 11)
    BY MadeOf DEF BackwardMiddleRows
  <2> QED
    BY <1>3, <2>2, <2>3
<1>21. v[14] = Made(s, v, 14)
  <2>1. LastWrite(s, Ub("sTile"), 14, 7) /\ LastWrite(s, Ub("gammaTile"), 14, 11)
    BY <1>0, <1>1, <1>4, <1>7, <1>10 DEF BackwardMiddleCells, LastWrite, NoWrite
  <2>2. Holds(s, v, Ub("sTile"), 14) = v[7] /\ Holds(s, v, Ub("gammaTile"), 14) = v[11]
    BY <2>1, HeldBy
  <2>3. Made(s, v, 14) = <<"TROWEXPANDMUL", Holds(s, v, Ub("sTile"), 14), Holds(s, v, Ub("gammaTile"), 14)>>
    <3>1. "TROWEXPANDMUL" # "copy" /\
              MoveAt(s, 14, "V", "TROWEXPANDMUL", <<Ub("recvTile")>>, <<Ub("sTile"), Ub("gammaTile")>>)
      BY DEF BackwardMiddleRows
    <3> QED
      BY <3>1, MadeOfTwo
  <2> QED
    BY <1>3, <2>2, <2>3
<1>22. v[17] = Made(s, v, 17)
  <2>1. LastWrite(s, Ub("recvTile"), 17, 14)
    BY <1>0, <1>1, <1>4, <1>5 DEF BackwardMiddleCells, LastWrite, NoWrite
  <2>2. Holds(s, v, Ub("recvTile"), 17) = v[14]
    BY <2>1, HeldBy
  <2>3. Made(s, v, 17) = Holds(s, v, Ub("recvTile"), 17)
    BY MadeOf DEF BackwardMiddleRows
  <2> QED
    BY <1>3, <2>2, <2>3
<1>23. v[24] = Made(s, v, 24)
  <2>1. NoWrite(s, Gm("out_prev", k), 24)
    BY <1>0, <1>1, <1>4, <1>13 DEF BackwardMiddleCells, LastWrite, NoWrite
  <2>2. Holds(s, v, Gm("out_prev", k), 24) = Gm("out_prev", k)
    BY <2>1, HeldBy
  <2>3. Made(s, v, 24) = Holds(s, v, Gm("out_prev", k), 24)
    BY MadeOf DEF BackwardMiddleRows
  <2> QED
    BY <1>3, <2>2, <2>3
<1>24. v[27] = Made(s, v, 27)
  <2>1. LastWrite(s, Ub("sTile"), 27, 7) /\ LastWrite(s, Ub("recvTile"), 27, 24)
    BY <1>0, <1>1, <1>4, <1>7, <1>5 DEF BackwardMiddleCells, LastWrite, NoWrite
  <2>2. Holds(s, v, Ub("sTile"), 27) = v[7] /\ Holds(s, v, Ub("recvTile"), 27) = v[24]
    BY <2>1, HeldBy
  <2>3. Made(s, v, 27) = <<"TMUL", Holds(s, v, Ub("sTile"), 27), Holds(s, v, Ub("recvTile"), 27)>>
    <3>1. "TMUL" # "copy" /\ MoveAt(s, 27, "V", "TMUL", <<Ub("recvTile")>>, <<Ub("sTile"), Ub("recvTile")>>)
      BY DEF BackwardMiddleRows
    <3> QED
      BY <3>1, MadeOfTwo
  <2> QED
    BY <1>3, <2>2, <2>3
<1>25. v[29] = Made(s, v, 29)
  <2>1. LastWrite(s, Ub("recvTile"), 29, 27)
    BY <1>0, <1>1, <1>4, <1>5 DEF BackwardMiddleCells, LastWrite, NoWrite
  <2>2. Holds(s, v, Ub("recvTile"), 29) = v[27]
    BY <2>1, HeldBy
  <2>3. Made(s, v, 29) = <<"TROWSUM", Holds(s, v, Ub("recvTile"), 29)>>
    <3>1. "TROWSUM" # "copy" /\ MoveAt(s, 29, "V", "TROWSUM", <<Ub("dgammaTile"), Ub("sTile")>>,
              <<Ub("recvTile")>>)
      BY DEF BackwardMiddleRows
    <3> QED
      BY <3>1, MadeOf
  <2> QED
    BY <1>3, <2>2, <2>3
<1>26. v[32] = Made(s, v, 32)
  <2>1. LastWrite(s, Ub("dgammaTile"), 32, 29)
    BY <1>0, <1>1, <1>4, <1>14 DEF BackwardMiddleCells, LastWrite, NoWrite
  <2>2. Holds(s, v, Ub("dgammaTile"), 32) = v[29]
    BY <2>1, HeldBy
  <2>3. Made(s, v, 32) = Holds(s, v, Ub("dgammaTile"), 32)
    BY MadeOf DEF BackwardMiddleRows
  <2> QED
    BY <1>3, <2>2, <2>3
<1>27. /\ v[1] = Made(s, v, 1) /\ v[2] = Made(s, v, 2) /\ v[5] = Made(s, v, 5) /\ v[6] = Made(s, v, 6)
      /\ v[8] = Made(s, v, 8) /\ v[9] = Made(s, v, 9) /\ v[12] = Made(s, v, 12) /\ v[13] = Made(s, v, 13)
      /\ v[15] = Made(s, v, 15) /\ v[16] = Made(s, v, 16) /\ v[18] = Made(s, v, 18)
      /\ v[19] = Made(s, v, 19) /\ v[20] = Made(s, v, 20) /\ v[21] = Made(s, v, 21)
      /\ v[22] = Made(s, v, 22) /\ v[23] = Made(s, v, 23) /\ v[25] = Made(s, v, 25)
      /\ v[26] = Made(s, v, 26) /\ v[28] = Made(s, v, 28) /\ v[30] = Made(s, v, 30)
      /\ v[31] = Made(s, v, 31) /\ v[33] = Made(s, v, 33)
  <2>1. /\ StillAt(s, 1) /\ StillAt(s, 2) /\ StillAt(s, 5) /\ StillAt(s, 6) /\ StillAt(s, 8)
        /\ StillAt(s, 9) /\ StillAt(s, 12) /\ StillAt(s, 13) /\ StillAt(s, 15) /\ StillAt(s, 16)
        /\ StillAt(s, 18) /\ StillAt(s, 19) /\ StillAt(s, 20) /\ StillAt(s, 21) /\ StillAt(s, 22)
        /\ StillAt(s, 23) /\ StillAt(s, 25) /\ StillAt(s, 26) /\ StillAt(s, 28) /\ StillAt(s, 30)
        /\ StillAt(s, 31) /\ StillAt(s, 33)
    BY FlagsAreStill DEF BackwardMiddleRows
  <2> QED
    BY <1>3, <2>1, MadeStill
<1>28. Annotated(s, v)
  BY <1>1, <1>2, <1>16, <1>17, <1>18, <1>19, <1>20, <1>21, <1>22, <1>23, <1>24, <1>25, <1>26,
     <1>27 DEF Annotated
<1>29. Writers(s, Gm("dS", k)) # {} /\ Contents(s, v, Gm("dS", k), Writers(s, Gm("dS", k))) = v[10]
  <2>1. Leaves(s, Gm("dS", k), 10)
    BY <1>0, <1>1, <1>4, <1>9 DEF BackwardMiddleCells, Leaves, LastWrite
  <2> QED
    BY <2>1, LeftBy
<1>30. Writers(s, Gm("remote", k)) # {} /\
           Contents(s, v, Gm("remote", k), Writers(s, Gm("remote", k))) = v[17]
  <2>1. Leaves(s, Gm("remote", k), 17)
    BY <1>0, <1>1, <1>4, <1>12 DEF BackwardMiddleCells, Leaves, LastWrite
  <2> QED
    BY <2>1, LeftBy
<1>31. Writers(s, Gm("dgamma", k)) # {} /\
           Contents(s, v, Gm("dgamma", k), Writers(s, Gm("dgamma", k))) = v[32]
  <2>1. Leaves(s, Gm("dgamma", k), 32)
    BY <1>0, <1>1, <1>4, <1>15 DEF BackwardMiddleCells, Leaves, LastWrite
  <2> QED
    BY <2>1, LeftBy
<1> QED
  BY <1>3, <1>28, <1>29, <1>30, <1>31 DEF Delivers, v

LEMMA BackwardMiddleFits ==
  ASSUME NEW s, NEW k, BackwardMiddleRows(s, k) PROVE Local(s, k) /\ Headed(s)
<1>1. Len(s) = 33
  BY DEF BackwardMiddleRows
<1>2. BackwardMiddleCells(s, k)
  BY BackwardMiddleUses
<1>3. Headed(s)
  <2>1. 2 \in 1..Len(s) /\ IsFence(s[2])
    BY <1>1 DEF BackwardMiddleRows, FenceAt
  <2>2. \A b \in 1..Len(s) : Moves(s[b]) => 2 < b
    <3>1. \A b \in 1..33 : b \in {3, 4, 7, 10, 11, 14, 17, 24, 27, 29, 32} \/ StillAt(s, b)
      BY <1>2 DEF BackwardMiddleCells
    <3> QED
      BY <1>1, <3>1 DEF StillAt
  <2> QED
    BY <2>1, <2>2 DEF Headed
<1>4. /\ Ub("recvTile")[1] = "recvTile" /\ Gm("recv", k)[1] = "recv" /\ Gm("recv", k)[2] = k
      /\ Ub("sTile")[1] = "sTile" /\ Gm("g_out", k)[1] = "g_out" /\ Gm("g_out", k)[2] = k
      /\ Gm("dS", k)[1] = "dS" /\ Gm("dS", k)[2] = k /\ Ub("gammaTile")[1] = "gammaTile"
      /\ Gm("gamma", k)[1] = "gamma" /\ Gm("gamma", k)[2] = k
      /\ Gm("remote", k)[1] = "remote" /\ Gm("remote", k)[2] = k
      /\ Gm("out_prev", k)[1] = "out_prev" /\ Gm("out_prev", k)[2] = k
      /\ Ub("dgammaTile")[1] = "dgammaTile" /\ Gm("dgamma", k)[1] = "dgamma" /\ Gm("dgamma", k)[2] = k
  BY Named
<1>5. \A b \in 1..33 : \A c : Puts(s, b, c) \/ Takes(s, b, c) =>
          b \in {3, 4, 7, 10, 11, 14, 17, 24, 27, 29, 32}
  BY <1>2 DEF BackwardMiddleCells
<1>6. \A i \in 1..Len(s) : \A c : Puts(s, i, c) => c[1] \in Tiles \/ (c[1] \in Outputs /\ c[2] = k)
  <2>1. \A i \in {3, 4, 7, 10, 11, 14, 17, 24, 27, 29, 32} : \A c : Puts(s, i, c) => c = Ub("recvTile") \/
            c = Ub("sTile") \/ c = Gm("dS", k) \/ c = Ub("gammaTile") \/ c = Gm("remote", k) \/
            c = Ub("dgammaTile") \/ c = Gm("dgamma", k)
    BY <1>2 DEF BackwardMiddleCells
  <2> QED
    BY <1>1, <1>4, <1>5, <2>1 DEF Tiles, Outputs
<1>7. \A c : Takes(s, 3, c) => Known(s, 3, c)
  <2>1. Known(s, 3, Gm("recv", k))
    BY <1>4, KnownBy DEF Inputs
  <2> QED
    BY <1>2, <2>1 DEF BackwardMiddleCells
<1>8. \A c : Takes(s, 4, c) => Known(s, 4, c)
  <2>1. Known(s, 4, Gm("g_out", k))
    BY <1>4, KnownBy DEF Inputs
  <2> QED
    BY <1>2, <2>1 DEF BackwardMiddleCells
<1>9. \A c : Takes(s, 7, c) => Known(s, 7, c)
  <2>1. Known(s, 7, Ub("sTile"))
    <3>1. 4 \in 1..(7 - 1) /\ Puts(s, 4, Ub("sTile"))
      BY <1>2 DEF BackwardMiddleCells
    <3> QED
      BY <3>1, KnownBy
  <2>2. Known(s, 7, Ub("recvTile"))
    <3>1. 3 \in 1..(7 - 1) /\ Puts(s, 3, Ub("recvTile"))
      BY <1>2 DEF BackwardMiddleCells
    <3> QED
      BY <3>1, KnownBy
  <2> QED
    BY <1>2, <2>1, <2>2 DEF BackwardMiddleCells
<1>10. \A c : Takes(s, 10, c) => Known(s, 10, c)
  <2>1. Known(s, 10, Ub("sTile"))
    <3>1. 7 \in 1..(10 - 1) /\ Puts(s, 7, Ub("sTile"))
      BY <1>2 DEF BackwardMiddleCells
    <3> QED
      BY <3>1, KnownBy
  <2> QED
    BY <1>2, <2>1 DEF BackwardMiddleCells
<1>11. \A c : Takes(s, 11, c) => Known(s, 11, c)
  <2>1. Known(s, 11, Gm("gamma", k))
    BY <1>4, KnownBy DEF Inputs
  <2> QED
    BY <1>2, <2>1 DEF BackwardMiddleCells
<1>12. \A c : Takes(s, 14, c) => Known(s, 14, c)
  <2>1. Known(s, 14, Ub("sTile"))
    <3>1. 7 \in 1..(14 - 1) /\ Puts(s, 7, Ub("sTile"))
      BY <1>2 DEF BackwardMiddleCells
    <3> QED
      BY <3>1, KnownBy
  <2>2. Known(s, 14, Ub("gammaTile"))
    <3>1. 11 \in 1..(14 - 1) /\ Puts(s, 11, Ub("gammaTile"))
      BY <1>2 DEF BackwardMiddleCells
    <3> QED
      BY <3>1, KnownBy
  <2> QED
    BY <1>2, <2>1, <2>2 DEF BackwardMiddleCells
<1>13. \A c : Takes(s, 17, c) => Known(s, 17, c)
  <2>1. Known(s, 17, Ub("recvTile"))
    <3>1. 14 \in 1..(17 - 1) /\ Puts(s, 14, Ub("recvTile"))
      BY <1>2 DEF BackwardMiddleCells
    <3> QED
      BY <3>1, KnownBy
  <2> QED
    BY <1>2, <2>1 DEF BackwardMiddleCells
<1>14. \A c : Takes(s, 24, c) => Known(s, 24, c)
  <2>1. Known(s, 24, Gm("out_prev", k))
    BY <1>4, KnownBy DEF Inputs
  <2> QED
    BY <1>2, <2>1 DEF BackwardMiddleCells
<1>15. \A c : Takes(s, 27, c) => Known(s, 27, c)
  <2>1. Known(s, 27, Ub("sTile"))
    <3>1. 7 \in 1..(27 - 1) /\ Puts(s, 7, Ub("sTile"))
      BY <1>2 DEF BackwardMiddleCells
    <3> QED
      BY <3>1, KnownBy
  <2>2. Known(s, 27, Ub("recvTile"))
    <3>1. 24 \in 1..(27 - 1) /\ Puts(s, 24, Ub("recvTile"))
      BY <1>2 DEF BackwardMiddleCells
    <3> QED
      BY <3>1, KnownBy
  <2> QED
    BY <1>2, <2>1, <2>2 DEF BackwardMiddleCells
<1>16. \A c : Takes(s, 29, c) => Known(s, 29, c)
  <2>1. Known(s, 29, Ub("recvTile"))
    <3>1. 27 \in 1..(29 - 1) /\ Puts(s, 27, Ub("recvTile"))
      BY <1>2 DEF BackwardMiddleCells
    <3> QED
      BY <3>1, KnownBy
  <2> QED
    BY <1>2, <2>1 DEF BackwardMiddleCells
<1>17. \A c : Takes(s, 32, c) => Known(s, 32, c)
  <2>1. Known(s, 32, Ub("dgammaTile"))
    <3>1. 29 \in 1..(32 - 1) /\ Puts(s, 29, Ub("dgammaTile"))
      BY <1>2 DEF BackwardMiddleCells
    <3> QED
      BY <3>1, KnownBy
  <2> QED
    BY <1>2, <2>1 DEF BackwardMiddleCells
<1>18. \A i \in 1..Len(s) : \A c : Takes(s, i, c) => Known(s, i, c)
  BY <1>1, <1>5, <1>7, <1>8, <1>9, <1>10, <1>11, <1>12, <1>13, <1>14, <1>15, <1>16, <1>17
<1> QED
  BY <1>3, <1>6, <1>18 DEF Local

BackwardMiddleStores(k) ==
  {<<Gm("dS", k), StateGrad("middle", k)>>, <<Gm("remote", k), Message("middle", k)>>,
   <<Gm("dgamma", k), DecayGrad("middle", k)>>}

LEMMA BackwardMiddleBlock ==
  ASSUME NEW k
  PROVE  /\ IsBlock(BackwardBlock("middle", k), BackwardMiddleMade(k), BackwardMiddleStores(k), k)
         /\ Headed(BackwardBlock("middle", k))
<1> DEFINE s == BackwardBlock("middle", k)
<1>1. BackwardMiddleRows(s, k)
  BY BackwardMiddleIs
<1> HIDE DEF s
<1>2. Sound(s) /\ Tidy(s) /\ Local(s, k) /\ Headed(s)
  BY <1>1, BackwardMiddleTidy, BackwardMiddleFits
<1>3. Annotated(s, BackwardMiddleMade(k)) /\ Delivers(s, BackwardMiddleMade(k), BackwardMiddleStores(k))
  <2>1. "middle" # "first" /\ "middle" # "last"
    OBVIOUS
  <2>2. /\ Annotated(s, BackwardMiddleMade(k))
        /\ Delivers(s, BackwardMiddleMade(k), {<<Gm("dS", k), <<"TADD", Gm("g_out", k), Gm("recv", k)>>>>,
                              <<Gm("remote", k), <<"TROWEXPANDMUL",
                                  <<"TADD", Gm("g_out", k), Gm("recv", k)>>, Gm("gamma", k)>>>>,
                              <<Gm("dgamma", k), <<"TROWSUM",
                                  <<"TMUL", <<"TADD", Gm("g_out", k), Gm("recv", k)>>,
                                  Gm("out_prev", k)>>>>>>})
    BY <1>1, BackwardMiddleMakes, Zenon
  <2> QED
    BY <2>1, <2>2, Zenon DEF BackwardMiddleStores, StateGrad, Message, DecayGrad
<1>4. \A r \in BackwardMiddleStores(k) : \E x \in Outputs : r[1] = Gm(x, k)
  BY DEF BackwardMiddleStores, Outputs
<1> QED
  BY <1>2, <1>3, <1>4 DEF IsBlock, s

LEMMA BackwardMiddleScan ==
  Sound(AllScanBackward("middle")) /\ Makes(AllScanBackward("middle"), PromisedBackward("middle"))
<1> DEFINE b == [i \in 1..K |-> BackwardBlock("middle", i - 1)]
           u == [i \in 1..K |-> BackwardMiddleMade(i - 1)]
           P == [i \in 1..K |-> BackwardMiddleStores(i - 1)]
<1>1. \A i \in 1..K : b[i] = BackwardBlock("middle", i - 1) /\ u[i] = BackwardMiddleMade(i - 1) /\
          P[i] = BackwardMiddleStores(i - 1)
  OBVIOUS
<1>2. AllScanBackward("middle") = Looped(b, K)
  <2>1. [i \in 1..K |-> b[i]] = [i \in 1..K |-> BackwardBlock("middle", i - 1)]
    OBVIOUS
  <2> QED
    BY <2>1, Zenon DEF AllScanBackward, Loop, Looped, Then
<1>3. Together(P, K) = PromisedBackward("middle")
  <2>1. \A k : k \in Blocks <=> \E i \in 1..K : k = i - 1
    BY BlocksAssumption DEF Blocks
  <2> HIDE DEF P
  <2>2. \A r : r \in Together(P, K) <=> \E k \in Blocks : r \in BackwardMiddleStores(k)
    BY <1>1, <2>1 DEF Together
  <2>3. \A r : r \in PromisedBackward("middle") <=> \E k \in Blocks : r \in BackwardMiddleStores(k)
    BY DEF PromisedBackward, BackwardMiddleStores
  <2> QED
    BY <2>2, <2>3
<1> HIDE DEF b, u, P
<1>4. \A i \in 1..K : IsBlock(b[i], u[i], P[i], i - 1) /\ Headed(b[i])
  BY <1>1, BackwardMiddleBlock
<1>5. Sound(Looped(b, K)) /\ Makes(Looped(b, K), Together(P, K))
  BY <1>4, ScanMakes
<1> QED
  BY <1>2, <1>3, <1>5

\* A block of the reverse scan on the first rank
BackwardFirstRows(s, k) ==
  /\ IsList(s) /\ Len(s) = 10 /\ PauseAt(s, 1) /\ FenceAt(s, 2)
  /\ MoveAt(s, 3, "MTE2", "copy", <<Ub("recvTile")>>, <<Gm("recv", k)>>)
  /\ MoveAt(s, 4, "MTE2", "copy", <<Ub("sTile")>>, <<Gm("g_out", k)>>)
  /\ SetAt(s, 5, "MTE2", "V", 0) /\ WaitAt(s, 6, "MTE2", "V", 0)
  /\ MoveAt(s, 7, "V", "TADD", <<Ub("sTile")>>, <<Ub("sTile"), Ub("recvTile")>>)
  /\ SetAt(s, 8, "V", "MTE3", 0) /\ WaitAt(s, 9, "V", "MTE3", 0)
  /\ MoveAt(s, 10, "MTE3", "copy", <<Gm("dS", k)>>, <<Ub("sTile")>>)

LEMMA BackwardFirstIs == ASSUME NEW k PROVE BackwardFirstRows(BackwardBlock("first", k), k)
<1> DEFINE u == <<Scalar("TWAIT"), Barrier, Load(Ub("recvTile"), Gm("recv", k)),
                  Load(Ub("sTile"), Gm("g_out", k)), SetFlag("MTE2", "V", 0),
                  WaitFlag("MTE2", "V", 0),
                  Vec("TADD", Ub("sTile"), <<Ub("sTile"), Ub("recvTile")>>),
                  SetFlag("V", "MTE3", 0), WaitFlag("V", "MTE3", 0),
                  Store(Gm("dS", k), Ub("sTile"))>>
           s == BackwardBlock("first", k)
<1>1. Wait = Slice(u, 0, 2)
  BY DEF Slice, Wait
<1>2. <<Load(Ub("recvTile"), Gm("recv", k)), Load(Ub("sTile"), Gm("g_out", k))>> = Slice(u, 2, 4)
  BY DEF Slice
<1>3. Sync("MTE2", "V", 0) = Slice(u, 4, 6)
  BY DEF Slice, Sync
<1>4. <<Vec("TADD", Ub("sTile"), <<Ub("sTile"), Ub("recvTile")>>)>> = Slice(u, 6, 7)
  BY DEF Slice
<1>5. Sync("V", "MTE3", 0) = Slice(u, 7, 9)
  BY DEF Slice, Sync
<1>6. BackwardWait(k) = Slice(u, 0, 9)
  <2> HIDE DEF u
  <2>1. /\ Then(Slice(u, 0, 2), Slice(u, 2, 4)) = Slice(u, 0, 4)
        /\ Then(Slice(u, 0, 4), Slice(u, 4, 6)) = Slice(u, 0, 6)
        /\ Then(Slice(u, 0, 6), Slice(u, 6, 7)) = Slice(u, 0, 7)
        /\ Then(Slice(u, 0, 7), Slice(u, 7, 9)) = Slice(u, 0, 9)
    BY Slices
  <2> QED
    BY <1>1, <1>2, <1>3, <1>4, <1>5, <2>1, Zenon DEF Then, BackwardWait
<1>7. <<Store(Gm("dS", k), Ub("sTile"))>> = Slice(u, 9, 10)
  BY DEF Slice
<1>8. <<>> = Slice(u, 10, 10)
  BY DEF Slice
<1>9. s = Slice(u, 0, 10)
  <2> HIDE DEF u
  <2>1. /\ Then(Slice(u, 0, 9), Slice(u, 9, 10)) = Slice(u, 0, 10)
        /\ Then(Slice(u, 0, 10), Slice(u, 10, 10)) = Slice(u, 0, 10)
    BY Slices
  <2>2. "first" # "last"
    OBVIOUS
  <2> QED
    BY <1>6, <1>7, <1>8, <2>1, <2>2, Zenon DEF Then, BackwardBlock
<1>10. PICK n \in Nat : n = 10
  OBVIOUS
<1>11. IsList(s) /\ Len(s) = 10 /\ \A i \in 1..10 : s[i] = u[i]
  <2> HIDE DEF u, s
  <2>1. IsList(Slice(u, 0, n)) /\ Len(Slice(u, 0, n)) = n /\ \A i \in 1..n : Slice(u, 0, n)[i] = u[i]
    BY SliceAll
  <2> QED
    BY <1>9, <1>10, <2>1
<1> HIDE DEF s
<1>12. /\ Entry(s, 1, Scalar("TWAIT")) /\ Entry(s, 2, Barrier)
       /\ Entry(s, 3, Load(Ub("recvTile"), Gm("recv", k)))
       /\ Entry(s, 4, Load(Ub("sTile"), Gm("g_out", k))) /\ Entry(s, 5, SetFlag("MTE2", "V", 0))
       /\ Entry(s, 6, WaitFlag("MTE2", "V", 0))
       /\ Entry(s, 7, Vec("TADD", Ub("sTile"), <<Ub("sTile"), Ub("recvTile")>>))
       /\ Entry(s, 8, SetFlag("V", "MTE3", 0)) /\ Entry(s, 9, WaitFlag("V", "MTE3", 0))
       /\ Entry(s, 10, Store(Gm("dS", k), Ub("sTile")))
  BY <1>11 DEF Entry
<1> HIDE DEF u
<1>13. /\ PauseAt(s, 1) /\ FenceAt(s, 2) /\ SetAt(s, 5, "MTE2", "V", 0) /\ WaitAt(s, 6, "MTE2", "V", 0)
       /\ SetAt(s, 8, "V", "MTE3", 0) /\ WaitAt(s, 9, "V", "MTE3", 0)
  BY <1>11, <1>12, SyncsAre
<1>14. /\ MoveAt(s, 3, "MTE2", "copy", <<Ub("recvTile")>>, <<Gm("recv", k)>>)
       /\ MoveAt(s, 4, "MTE2", "copy", <<Ub("sTile")>>, <<Gm("g_out", k)>>)
       /\ MoveAt(s, 7, "V", "TADD", <<Ub("sTile")>>, <<Ub("sTile"), Ub("recvTile")>>)
       /\ MoveAt(s, 10, "MTE3", "copy", <<Gm("dS", k)>>, <<Ub("sTile")>>)
  BY <1>11, <1>12, MovesAre
<1> QED
  BY <1>11, <1>13, <1>14 DEF BackwardFirstRows, s

BackwardFirstCells(s, k) ==
  /\ \A b \in 1..10 : b \in {3, 4, 7, 10} \/ StillAt(s, b)
  /\ \A b \in {3, 4, 7, 10} : Moves(s[b])
  /\ \A b \in 1..10 : \A c : Puts(s, b, c) \/ Takes(s, b, c) => b \in {3, 4, 7, 10}
  /\ \A c : Puts(s, 3, c) <=> c = Ub("recvTile")
  /\ \A c : Puts(s, 4, c) <=> c = Ub("sTile")
  /\ \A c : Puts(s, 7, c) <=> c = Ub("sTile")
  /\ \A c : Puts(s, 10, c) <=> c = Gm("dS", k)
  /\ \A c : Takes(s, 3, c) <=> c = Gm("recv", k)
  /\ \A c : Takes(s, 4, c) <=> c = Gm("g_out", k)
  /\ \A c : Takes(s, 7, c) <=> c = Ub("sTile") \/ c = Ub("recvTile")
  /\ \A c : Takes(s, 10, c) <=> c = Ub("sTile")

LEMMA BackwardFirstUses == ASSUME NEW s, NEW k, BackwardFirstRows(s, k) PROVE BackwardFirstCells(s, k)
<1>1. /\ StillAt(s, 1) /\ StillAt(s, 2) /\ StillAt(s, 5) /\ StillAt(s, 6) /\ StillAt(s, 8)
      /\ StillAt(s, 9)
  BY FlagsAreStill DEF BackwardFirstRows
<1>2. \A b \in 1..10 : b \in {3, 4, 7, 10} \/ StillAt(s, b)
  BY <1>1
<1>3. \A b \in {3, 4, 7, 10} : Moves(s[b])
  BY DEF BackwardFirstRows, MoveAt
<1>4. \A b \in 1..10 : \A c : Puts(s, b, c) \/ Takes(s, b, c) => b \in {3, 4, 7, 10}
  BY <1>2, CellsUsed
<1>5. /\ \A c : Puts(s, 3, c) <=> c = Ub("recvTile")
      /\ \A c : Puts(s, 4, c) <=> c = Ub("sTile")
      /\ \A c : Puts(s, 7, c) <=> c = Ub("sTile")
      /\ \A c : Puts(s, 10, c) <=> c = Gm("dS", k)
  <2>1. /\ MoveAt(s, 3, "MTE2", "copy", <<Ub("recvTile")>>, <<Gm("recv", k)>>)
        /\ MoveAt(s, 4, "MTE2", "copy", <<Ub("sTile")>>, <<Gm("g_out", k)>>)
        /\ MoveAt(s, 7, "V", "TADD", <<Ub("sTile")>>, <<Ub("sTile"), Ub("recvTile")>>)
        /\ MoveAt(s, 10, "MTE3", "copy", <<Gm("dS", k)>>, <<Ub("sTile")>>)
    BY DEF BackwardFirstRows
  <2> QED
    BY <2>1, CellsUsed
<1>6. /\ \A c : Takes(s, 3, c) <=> c = Gm("recv", k)
      /\ \A c : Takes(s, 4, c) <=> c = Gm("g_out", k)
      /\ \A c : Takes(s, 7, c) <=> c = Ub("sTile") \/ c = Ub("recvTile")
      /\ \A c : Takes(s, 10, c) <=> c = Ub("sTile")
  <2>1. /\ MoveAt(s, 3, "MTE2", "copy", <<Ub("recvTile")>>, <<Gm("recv", k)>>)
        /\ MoveAt(s, 4, "MTE2", "copy", <<Ub("sTile")>>, <<Gm("g_out", k)>>)
        /\ MoveAt(s, 7, "V", "TADD", <<Ub("sTile")>>, <<Ub("sTile"), Ub("recvTile")>>)
        /\ MoveAt(s, 10, "MTE3", "copy", <<Gm("dS", k)>>, <<Ub("sTile")>>)
    BY DEF BackwardFirstRows
  <2> QED
    BY <2>1, CellsUsed
<1> QED
  BY <1>2, <1>3, <1>4, <1>5, <1>6 DEF BackwardFirstCells

LEMMA BackwardFirstTidy == ASSUME NEW s, NEW k, BackwardFirstRows(s, k) PROVE Sound(s) /\ Tidy(s)
<1>1. IsList(s) /\ Len(s) = 10
  BY DEF BackwardFirstRows
<1>2. Paired(s)
  <2>1. PairedAt(s, 5) /\ PairedAt(s, 6)
    BY SyncPaired DEF BackwardFirstRows
  <2>2. PairedAt(s, 8) /\ PairedAt(s, 9)
    BY SyncPaired DEF BackwardFirstRows
  <2>3. /\ PairedAt(s, 1) /\ PairedAt(s, 2) /\ PairedAt(s, 3) /\ PairedAt(s, 4) /\ PairedAt(s, 7)
        /\ PairedAt(s, 10)
    BY StillPaired DEF BackwardFirstRows
  <2> QED
    BY <1>1, <2>1, <2>2, <2>3 DEF Paired
<1>3. /\ RunsOn(s, 3, "MTE2") /\ RunsOn(s, 4, "MTE2") /\ RunsOn(s, 7, "V") /\ RunsOn(s, 10, "MTE3")
  BY MoveRuns DEF BackwardFirstRows
<1>4. BackwardFirstCells(s, k)
  BY BackwardFirstUses
<1>5. Before(s, 3, 7)
  BY <1>3, ByFlag DEF BackwardFirstRows
<1>6. Before(s, 4, 7)
  BY <1>3, ByFlag DEF BackwardFirstRows
<1>7. Before(s, 7, 10)
  BY <1>3, ByFlag DEF BackwardFirstRows
<1>8. Before(s, 4, 10)
  BY <1>6, <1>7, ByBoth
<1>9. OrderedFrom(s, 3)
  <2>1. ASSUME NEW b \in 1..10, NEW c, 3 < b, Clash(s, 3, b, c) PROVE Before(s, 3, b)
    BY <1>4, <1>5, <2>1, Named DEF BackwardFirstCells, Clash
  <2> QED
    BY <1>1, <2>1, ClashBefore
<1>10. OrderedFrom(s, 4)
  <2>1. ASSUME NEW b \in 1..10, NEW c, 4 < b, Clash(s, 4, b, c) PROVE Before(s, 4, b)
    BY <1>4, <1>6, <1>8, <2>1, Named DEF BackwardFirstCells, Clash
  <2> QED
    BY <1>1, <2>1, ClashBefore
<1>11. OrderedFrom(s, 7)
  <2>1. ASSUME NEW b \in 1..10, NEW c, 7 < b, Clash(s, 7, b, c) PROVE Before(s, 7, b)
    BY <1>4, <1>7, <2>1, Named DEF BackwardFirstCells, Clash
  <2> QED
    BY <1>1, <2>1, ClashBefore
<1>12. OrderedFrom(s, 10)
  <2>1. ASSUME NEW b \in 1..10, NEW c, 10 < b, Clash(s, 10, b, c) PROVE Before(s, 10, b)
    BY <1>4, <2>1, Named DEF BackwardFirstCells, Clash
  <2> QED
    BY <1>1, <2>1, ClashBefore
<1>13. Ordered(s)
  BY <1>1, <1>4, <1>9, <1>10, <1>11, <1>12, OrderedAll DEF BackwardFirstCells
<1>14. Plain(s)
  BY <1>1, <1>4 DEF BackwardFirstCells, Plain, StillAt
<1> QED
  BY <1>1, <1>2, <1>13, <1>14 DEF Sound, Tidy

BackwardFirstMade(k) ==
  <<Scratch, Scratch, Gm("recv", k), Gm("g_out", k), Scratch, Scratch,
    <<"TADD", Gm("g_out", k), Gm("recv", k)>>, Scratch, Scratch,
    <<"TADD", Gm("g_out", k), Gm("recv", k)>>>>

LEMMA BackwardFirstMakes ==
  ASSUME NEW s, NEW k, BackwardFirstRows(s, k)
  PROVE  /\ Annotated(s, BackwardFirstMade(k))
         /\ Delivers(s, BackwardFirstMade(k), {<<Gm("dS", k), <<"TADD", Gm("g_out", k), Gm("recv", k)>>>>})
<1> DEFINE v == BackwardFirstMade(k)
<1>1. IsList(s) /\ Len(s) = 10
  BY DEF BackwardFirstRows
<1>2. IsList(v) /\ Len(v) = 10
  <2>1. v = Slice(v, 0, 10)
    BY DEF Slice, BackwardFirstMade
  <2>2. PICK n \in Nat : n = 10
    OBVIOUS
  <2> HIDE DEF v
  <2> QED
    BY <2>1, <2>2, ListOf
<1>3. /\ v[1] = Scratch /\ v[2] = Scratch /\ v[3] = Gm("recv", k) /\ v[4] = Gm("g_out", k)
      /\ v[5] = Scratch /\ v[6] = Scratch /\ v[7] = <<"TADD", Gm("g_out", k), Gm("recv", k)>>
      /\ v[8] = Scratch /\ v[9] = Scratch /\ v[10] = <<"TADD", Gm("g_out", k), Gm("recv", k)>>
  BY DEF BackwardFirstMade
<1> HIDE DEF v
<1>0. BackwardFirstCells(s, k)
  BY BackwardFirstUses
<1>4. /\ s[3].dst[1] = Ub("recvTile") /\ s[4].dst[1] = Ub("sTile") /\ s[7].dst[1] = Ub("sTile")
      /\ s[10].dst[1] = Gm("dS", k)
  BY DEF BackwardFirstRows, MoveAt
<1>5. \A j \in 1..10 : Puts(s, j, Ub("recvTile")) => j \in {3}
  BY <1>0, Named DEF BackwardFirstCells
<1>6. \A j \in 1..10 : Puts(s, j, Gm("recv", k)) => j \in {}
  BY <1>0, Named DEF BackwardFirstCells
<1>7. \A j \in 1..10 : Puts(s, j, Ub("sTile")) => j \in {4, 7}
  BY <1>0, Named DEF BackwardFirstCells
<1>8. \A j \in 1..10 : Puts(s, j, Gm("g_out", k)) => j \in {}
  BY <1>0, Named DEF BackwardFirstCells
<1>9. \A j \in 1..10 : Puts(s, j, Gm("dS", k)) => j \in {10}
  BY <1>0, Named DEF BackwardFirstCells
<1>10. v[3] = Made(s, v, 3)
  <2>1. NoWrite(s, Gm("recv", k), 3)
    BY <1>0, <1>1, <1>4, <1>6 DEF BackwardFirstCells, LastWrite, NoWrite
  <2>2. Holds(s, v, Gm("recv", k), 3) = Gm("recv", k)
    BY <2>1, HeldBy
  <2>3. Made(s, v, 3) = Holds(s, v, Gm("recv", k), 3)
    BY MadeOf DEF BackwardFirstRows
  <2> QED
    BY <1>3, <2>2, <2>3
<1>11. v[4] = Made(s, v, 4)
  <2>1. NoWrite(s, Gm("g_out", k), 4)
    BY <1>0, <1>1, <1>4, <1>8 DEF BackwardFirstCells, LastWrite, NoWrite
  <2>2. Holds(s, v, Gm("g_out", k), 4) = Gm("g_out", k)
    BY <2>1, HeldBy
  <2>3. Made(s, v, 4) = Holds(s, v, Gm("g_out", k), 4)
    BY MadeOf DEF BackwardFirstRows
  <2> QED
    BY <1>3, <2>2, <2>3
<1>12. v[7] = Made(s, v, 7)
  <2>1. LastWrite(s, Ub("sTile"), 7, 4) /\ LastWrite(s, Ub("recvTile"), 7, 3)
    BY <1>0, <1>1, <1>4, <1>7, <1>5 DEF BackwardFirstCells, LastWrite, NoWrite
  <2>2. Holds(s, v, Ub("sTile"), 7) = v[4] /\ Holds(s, v, Ub("recvTile"), 7) = v[3]
    BY <2>1, HeldBy
  <2>3. Made(s, v, 7) = <<"TADD", Holds(s, v, Ub("sTile"), 7), Holds(s, v, Ub("recvTile"), 7)>>
    <3>1. "TADD" # "copy" /\ MoveAt(s, 7, "V", "TADD", <<Ub("sTile")>>, <<Ub("sTile"), Ub("recvTile")>>)
      BY DEF BackwardFirstRows
    <3> QED
      BY <3>1, MadeOfTwo
  <2> QED
    BY <1>3, <2>2, <2>3
<1>13. v[10] = Made(s, v, 10)
  <2>1. LastWrite(s, Ub("sTile"), 10, 7)
    BY <1>0, <1>1, <1>4, <1>7 DEF BackwardFirstCells, LastWrite, NoWrite
  <2>2. Holds(s, v, Ub("sTile"), 10) = v[7]
    BY <2>1, HeldBy
  <2>3. Made(s, v, 10) = Holds(s, v, Ub("sTile"), 10)
    BY MadeOf DEF BackwardFirstRows
  <2> QED
    BY <1>3, <2>2, <2>3
<1>14. /\ v[1] = Made(s, v, 1) /\ v[2] = Made(s, v, 2) /\ v[5] = Made(s, v, 5) /\ v[6] = Made(s, v, 6)
      /\ v[8] = Made(s, v, 8) /\ v[9] = Made(s, v, 9)
  <2>1. /\ StillAt(s, 1) /\ StillAt(s, 2) /\ StillAt(s, 5) /\ StillAt(s, 6) /\ StillAt(s, 8)
        /\ StillAt(s, 9)
    BY FlagsAreStill DEF BackwardFirstRows
  <2> QED
    BY <1>3, <2>1, MadeStill
<1>15. Annotated(s, v)
  BY <1>1, <1>2, <1>10, <1>11, <1>12, <1>13, <1>14 DEF Annotated
<1>16. Writers(s, Gm("dS", k)) # {} /\ Contents(s, v, Gm("dS", k), Writers(s, Gm("dS", k))) = v[10]
  <2>1. Leaves(s, Gm("dS", k), 10)
    BY <1>0, <1>1, <1>4, <1>9 DEF BackwardFirstCells, Leaves, LastWrite
  <2> QED
    BY <2>1, LeftBy
<1> QED
  BY <1>3, <1>15, <1>16 DEF Delivers, v

LEMMA BackwardFirstFits ==
  ASSUME NEW s, NEW k, BackwardFirstRows(s, k) PROVE Local(s, k) /\ Headed(s)
<1>1. Len(s) = 10
  BY DEF BackwardFirstRows
<1>2. BackwardFirstCells(s, k)
  BY BackwardFirstUses
<1>3. Headed(s)
  <2>1. 2 \in 1..Len(s) /\ IsFence(s[2])
    BY <1>1 DEF BackwardFirstRows, FenceAt
  <2>2. \A b \in 1..Len(s) : Moves(s[b]) => 2 < b
    <3>1. \A b \in 1..10 : b \in {3, 4, 7, 10} \/ StillAt(s, b)
      BY <1>2 DEF BackwardFirstCells
    <3> QED
      BY <1>1, <3>1 DEF StillAt
  <2> QED
    BY <2>1, <2>2 DEF Headed
<1>4. /\ Ub("recvTile")[1] = "recvTile" /\ Gm("recv", k)[1] = "recv" /\ Gm("recv", k)[2] = k
      /\ Ub("sTile")[1] = "sTile" /\ Gm("g_out", k)[1] = "g_out" /\ Gm("g_out", k)[2] = k
      /\ Gm("dS", k)[1] = "dS" /\ Gm("dS", k)[2] = k
  BY Named
<1>5. \A b \in 1..10 : \A c : Puts(s, b, c) \/ Takes(s, b, c) => b \in {3, 4, 7, 10}
  BY <1>2 DEF BackwardFirstCells
<1>6. \A i \in 1..Len(s) : \A c : Puts(s, i, c) => c[1] \in Tiles \/ (c[1] \in Outputs /\ c[2] = k)
  <2>1. \A i \in {3, 4, 7, 10} : \A c : Puts(s, i, c) => c = Ub("recvTile") \/ c = Ub("sTile") \/
            c = Gm("dS", k)
    BY <1>2 DEF BackwardFirstCells
  <2> QED
    BY <1>1, <1>4, <1>5, <2>1 DEF Tiles, Outputs
<1>7. \A c : Takes(s, 3, c) => Known(s, 3, c)
  <2>1. Known(s, 3, Gm("recv", k))
    BY <1>4, KnownBy DEF Inputs
  <2> QED
    BY <1>2, <2>1 DEF BackwardFirstCells
<1>8. \A c : Takes(s, 4, c) => Known(s, 4, c)
  <2>1. Known(s, 4, Gm("g_out", k))
    BY <1>4, KnownBy DEF Inputs
  <2> QED
    BY <1>2, <2>1 DEF BackwardFirstCells
<1>9. \A c : Takes(s, 7, c) => Known(s, 7, c)
  <2>1. Known(s, 7, Ub("sTile"))
    <3>1. 4 \in 1..(7 - 1) /\ Puts(s, 4, Ub("sTile"))
      BY <1>2 DEF BackwardFirstCells
    <3> QED
      BY <3>1, KnownBy
  <2>2. Known(s, 7, Ub("recvTile"))
    <3>1. 3 \in 1..(7 - 1) /\ Puts(s, 3, Ub("recvTile"))
      BY <1>2 DEF BackwardFirstCells
    <3> QED
      BY <3>1, KnownBy
  <2> QED
    BY <1>2, <2>1, <2>2 DEF BackwardFirstCells
<1>10. \A c : Takes(s, 10, c) => Known(s, 10, c)
  <2>1. Known(s, 10, Ub("sTile"))
    <3>1. 7 \in 1..(10 - 1) /\ Puts(s, 7, Ub("sTile"))
      BY <1>2 DEF BackwardFirstCells
    <3> QED
      BY <3>1, KnownBy
  <2> QED
    BY <1>2, <2>1 DEF BackwardFirstCells
<1>11. \A i \in 1..Len(s) : \A c : Takes(s, i, c) => Known(s, i, c)
  BY <1>1, <1>5, <1>7, <1>8, <1>9, <1>10
<1> QED
  BY <1>3, <1>6, <1>11 DEF Local

BackwardFirstStores(k) ==
  {<<Gm("dS", k), StateGrad("first", k)>>}

LEMMA BackwardFirstBlock ==
  ASSUME NEW k
  PROVE  /\ IsBlock(BackwardBlock("first", k), BackwardFirstMade(k), BackwardFirstStores(k), k)
         /\ Headed(BackwardBlock("first", k))
<1> DEFINE s == BackwardBlock("first", k)
<1>1. BackwardFirstRows(s, k)
  BY BackwardFirstIs
<1> HIDE DEF s
<1>2. Sound(s) /\ Tidy(s) /\ Local(s, k) /\ Headed(s)
  BY <1>1, BackwardFirstTidy, BackwardFirstFits
<1>3. Annotated(s, BackwardFirstMade(k)) /\ Delivers(s, BackwardFirstMade(k), BackwardFirstStores(k))
  <2>1. "first" # "last"
    OBVIOUS
  <2>2. /\ Annotated(s, BackwardFirstMade(k))
        /\ Delivers(s, BackwardFirstMade(k), {<<Gm("dS", k), <<"TADD", Gm("g_out", k), Gm("recv", k)>>>>})
    BY <1>1, BackwardFirstMakes, Zenon
  <2> QED
    BY <2>1, <2>2, Zenon DEF BackwardFirstStores, StateGrad
<1>4. \A r \in BackwardFirstStores(k) : \E x \in Outputs : r[1] = Gm(x, k)
  BY DEF BackwardFirstStores, Outputs
<1> QED
  BY <1>2, <1>3, <1>4 DEF IsBlock, s

LEMMA BackwardFirstScan ==
  Sound(AllScanBackward("first")) /\ Makes(AllScanBackward("first"), PromisedBackward("first"))
<1> DEFINE b == [i \in 1..K |-> BackwardBlock("first", i - 1)]
           u == [i \in 1..K |-> BackwardFirstMade(i - 1)]
           P == [i \in 1..K |-> BackwardFirstStores(i - 1)]
<1>1. \A i \in 1..K : b[i] = BackwardBlock("first", i - 1) /\ u[i] = BackwardFirstMade(i - 1) /\
          P[i] = BackwardFirstStores(i - 1)
  OBVIOUS
<1>2. AllScanBackward("first") = Looped(b, K)
  <2>1. [i \in 1..K |-> b[i]] = [i \in 1..K |-> BackwardBlock("first", i - 1)]
    OBVIOUS
  <2> QED
    BY <2>1, Zenon DEF AllScanBackward, Loop, Looped, Then
<1>3. Together(P, K) = PromisedBackward("first")
  <2>1. \A k : k \in Blocks <=> \E i \in 1..K : k = i - 1
    BY BlocksAssumption DEF Blocks
  <2> HIDE DEF P
  <2>2. \A r : r \in Together(P, K) <=> \E k \in Blocks : r \in BackwardFirstStores(k)
    BY <1>1, <2>1 DEF Together
  <2>3. \A r : r \in PromisedBackward("first") <=> \E k \in Blocks : r \in BackwardFirstStores(k)
    BY DEF PromisedBackward, BackwardFirstStores
  <2> QED
    BY <2>2, <2>3
<1> HIDE DEF b, u, P
<1>4. \A i \in 1..K : IsBlock(b[i], u[i], P[i], i - 1) /\ Headed(b[i])
  BY <1>1, BackwardFirstBlock
<1>5. Sound(Looped(b, K)) /\ Makes(Looped(b, K), Together(P, K))
  BY <1>4, ScanMakes
<1> QED
  BY <1>2, <1>3, <1>5

-----------------------------------------------------------------------------
(* The kernels of GLA *)

\* chunk_h_prep
PrepOfStateRows(s) ==
  /\ IsList(s) /\ Len(s) = 24 /\ MoveAt(s, 1, "MTE2", "copy", <<Ub("gcsT")>>, <<G("g_cs")>>)
  /\ MoveAt(s, 2, "MTE2", "copy", <<Ub("gtotT")>>, <<G("g_total")>>) /\ SetAt(s, 3, "MTE2", "V", 0)
  /\ WaitAt(s, 4, "MTE2", "V", 0) /\ Entry(s, 5, Expand(Ub("coeffT"), <<Ub("gtotT")>>))
  /\ FenceAt(s, 6) /\ MoveAt(s, 7, "V", "TSUB", <<Ub("coeffT")>>, <<Ub("coeffT"), Ub("gcsT")>>)
  /\ PauseAt(s, 8) /\ MoveAt(s, 9, "V", "TEXP", <<Ub("coeffT")>>, <<Ub("coeffT")>>)
  /\ PauseAt(s, 10) /\ MoveAt(s, 11, "MTE2", "copy", <<Ub("gcsT")>>, <<G("k")>>)
  /\ SetAt(s, 12, "MTE2", "V", 0) /\ WaitAt(s, 13, "MTE2", "V", 0)
  /\ MoveAt(s, 14, "V", "TMUL", <<Ub("coeffT")>>, <<Ub("coeffT"), Ub("gcsT")>>) /\ PauseAt(s, 15)
  /\ SetAt(s, 16, "V", "MTE3", 0) /\ WaitAt(s, 17, "V", "MTE3", 0)
  /\ MoveAt(s, 18, "MTE3", "copy", <<G("k_rest")>>, <<Ub("coeffT")>>)
  /\ MoveAt(s, 19, "V", "TEXP", <<Ub("decayRow")>>, <<Ub("gtotT")>>) /\ PauseAt(s, 20)
  /\ SetAt(s, 21, "V", "MTE3", 1) /\ WaitAt(s, 22, "V", "MTE3", 1)
  /\ MoveAt(s, 23, "MTE3", "copy", <<G("decay")>>, <<Ub("decayRow")>>) /\ FenceAt(s, 24)

LEMMA PrepOfStateIs == PrepOfStateRows(ChunkHPrep)
<1> DEFINE u == <<Load(Ub("gcsT"), G("g_cs")), Load(Ub("gtotT"), G("g_total")),
                  SetFlag("MTE2", "V", 0), WaitFlag("MTE2", "V", 0),
                  Expand(Ub("coeffT"), <<Ub("gtotT")>>), Barrier,
                  Vec("TSUB", Ub("coeffT"), <<Ub("coeffT"), Ub("gcsT")>>), BarrierV,
                  Vec("TEXP", Ub("coeffT"), <<Ub("coeffT")>>), BarrierV,
                  Load(Ub("gcsT"), G("k")), SetFlag("MTE2", "V", 0), WaitFlag("MTE2", "V", 0),
                  Vec("TMUL", Ub("coeffT"), <<Ub("coeffT"), Ub("gcsT")>>), BarrierV,
                  SetFlag("V", "MTE3", 0), WaitFlag("V", "MTE3", 0),
                  Store(G("k_rest"), Ub("coeffT")),
                  Vec("TEXP", Ub("decayRow"), <<Ub("gtotT")>>), BarrierV,
                  SetFlag("V", "MTE3", 1), WaitFlag("V", "MTE3", 1),
                  Store(G("decay"), Ub("decayRow")), Barrier>>
           s == ChunkHPrep
<1>1. <<Load(Ub("gcsT"), G("g_cs")), Load(Ub("gtotT"), G("g_total"))>> = Slice(u, 0, 2)
  BY DEF Slice
<1>2. Sync("MTE2", "V", 0) = Slice(u, 2, 4)
  BY DEF Slice, Sync
<1>3. <<Expand(Ub("coeffT"), <<Ub("gtotT")>>), Barrier,
          Vec("TSUB", Ub("coeffT"), <<Ub("coeffT"), Ub("gcsT")>>), BarrierV,
          Vec("TEXP", Ub("coeffT"), <<Ub("coeffT")>>), BarrierV, Load(Ub("gcsT"), G("k"))>> = Slice(u, 4, 11)
  BY DEF Slice
<1>4. Sync("MTE2", "V", 0) = Slice(u, 11, 13)
  BY DEF Slice, Sync
<1>5. <<Vec("TMUL", Ub("coeffT"), <<Ub("coeffT"), Ub("gcsT")>>), BarrierV>> = Slice(u, 13, 15)
  BY DEF Slice
<1>6. Sync("V", "MTE3", 0) = Slice(u, 15, 17)
  BY DEF Slice, Sync
<1>7. <<Store(G("k_rest"), Ub("coeffT")), Vec("TEXP", Ub("decayRow"), <<Ub("gtotT")>>), BarrierV>> = Slice(u,
          17, 20)
  BY DEF Slice
<1>8. Sync("V", "MTE3", 1) = Slice(u, 20, 22)
  BY DEF Slice, Sync
<1>9. <<Store(G("decay"), Ub("decayRow")), Barrier>> = Slice(u, 22, 24)
  BY DEF Slice
<1>10. s = Slice(u, 0, 24)
  <2> HIDE DEF u
  <2>1. /\ Then(Slice(u, 0, 2), Slice(u, 2, 4)) = Slice(u, 0, 4)
        /\ Then(Slice(u, 0, 4), Slice(u, 4, 11)) = Slice(u, 0, 11)
        /\ Then(Slice(u, 0, 11), Slice(u, 11, 13)) = Slice(u, 0, 13)
        /\ Then(Slice(u, 0, 13), Slice(u, 13, 15)) = Slice(u, 0, 15)
        /\ Then(Slice(u, 0, 15), Slice(u, 15, 17)) = Slice(u, 0, 17)
        /\ Then(Slice(u, 0, 17), Slice(u, 17, 20)) = Slice(u, 0, 20)
        /\ Then(Slice(u, 0, 20), Slice(u, 20, 22)) = Slice(u, 0, 22)
        /\ Then(Slice(u, 0, 22), Slice(u, 22, 24)) = Slice(u, 0, 24)
    BY Slices
  <2> QED
    BY <1>1, <1>2, <1>3, <1>4, <1>5, <1>6, <1>7, <1>8, <1>9, <2>1, Zenon DEF Then, ChunkHPrep
<1>11. PICK n \in Nat : n = 24
  OBVIOUS
<1>12. IsList(s) /\ Len(s) = 24 /\ \A i \in 1..24 : s[i] = u[i]
  <2> HIDE DEF u, s
  <2>1. IsList(Slice(u, 0, n)) /\ Len(Slice(u, 0, n)) = n /\ \A i \in 1..n : Slice(u, 0, n)[i] = u[i]
    BY SliceAll
  <2> QED
    BY <1>10, <1>11, <2>1
<1> HIDE DEF s
<1>13. /\ Entry(s, 1, Load(Ub("gcsT"), G("g_cs"))) /\ Entry(s, 2, Load(Ub("gtotT"), G("g_total")))
       /\ Entry(s, 3, SetFlag("MTE2", "V", 0)) /\ Entry(s, 4, WaitFlag("MTE2", "V", 0))
       /\ Entry(s, 5, Expand(Ub("coeffT"), <<Ub("gtotT")>>)) /\ Entry(s, 6, Barrier)
       /\ Entry(s, 7, Vec("TSUB", Ub("coeffT"), <<Ub("coeffT"), Ub("gcsT")>>)) /\ Entry(s, 8, BarrierV)
       /\ Entry(s, 9, Vec("TEXP", Ub("coeffT"), <<Ub("coeffT")>>)) /\ Entry(s, 10, BarrierV)
       /\ Entry(s, 11, Load(Ub("gcsT"), G("k"))) /\ Entry(s, 12, SetFlag("MTE2", "V", 0))
       /\ Entry(s, 13, WaitFlag("MTE2", "V", 0))
       /\ Entry(s, 14, Vec("TMUL", Ub("coeffT"), <<Ub("coeffT"), Ub("gcsT")>>)) /\ Entry(s, 15, BarrierV)
       /\ Entry(s, 16, SetFlag("V", "MTE3", 0)) /\ Entry(s, 17, WaitFlag("V", "MTE3", 0))
       /\ Entry(s, 18, Store(G("k_rest"), Ub("coeffT")))
       /\ Entry(s, 19, Vec("TEXP", Ub("decayRow"), <<Ub("gtotT")>>)) /\ Entry(s, 20, BarrierV)
       /\ Entry(s, 21, SetFlag("V", "MTE3", 1)) /\ Entry(s, 22, WaitFlag("V", "MTE3", 1))
       /\ Entry(s, 23, Store(G("decay"), Ub("decayRow"))) /\ Entry(s, 24, Barrier)
  BY <1>12 DEF Entry
<1> HIDE DEF u
<1>14. /\ SetAt(s, 3, "MTE2", "V", 0) /\ WaitAt(s, 4, "MTE2", "V", 0)
       /\ Entry(s, 5, Expand(Ub("coeffT"), <<Ub("gtotT")>>)) /\ FenceAt(s, 6) /\ PauseAt(s, 8)
       /\ PauseAt(s, 10) /\ SetAt(s, 12, "MTE2", "V", 0) /\ WaitAt(s, 13, "MTE2", "V", 0) /\ PauseAt(s, 15)
       /\ SetAt(s, 16, "V", "MTE3", 0)
  BY <1>12, <1>13, SyncsAre
<1>15. /\ WaitAt(s, 17, "V", "MTE3", 0) /\ PauseAt(s, 20) /\ SetAt(s, 21, "V", "MTE3", 1)
       /\ WaitAt(s, 22, "V", "MTE3", 1) /\ FenceAt(s, 24)
  BY <1>12, <1>13, SyncsAre
<1>16. /\ MoveAt(s, 1, "MTE2", "copy", <<Ub("gcsT")>>, <<G("g_cs")>>)
       /\ MoveAt(s, 2, "MTE2", "copy", <<Ub("gtotT")>>, <<G("g_total")>>)
       /\ MoveAt(s, 7, "V", "TSUB", <<Ub("coeffT")>>, <<Ub("coeffT"), Ub("gcsT")>>)
       /\ MoveAt(s, 9, "V", "TEXP", <<Ub("coeffT")>>, <<Ub("coeffT")>>)
       /\ MoveAt(s, 11, "MTE2", "copy", <<Ub("gcsT")>>, <<G("k")>>)
       /\ MoveAt(s, 14, "V", "TMUL", <<Ub("coeffT")>>, <<Ub("coeffT"), Ub("gcsT")>>)
       /\ MoveAt(s, 18, "MTE3", "copy", <<G("k_rest")>>, <<Ub("coeffT")>>)
       /\ MoveAt(s, 19, "V", "TEXP", <<Ub("decayRow")>>, <<Ub("gtotT")>>)
       /\ MoveAt(s, 23, "MTE3", "copy", <<G("decay")>>, <<Ub("decayRow")>>)
  BY <1>12, <1>13, MovesAre
<1> QED
  BY <1>12, <1>14, <1>15, <1>16 DEF PrepOfStateRows, s

LEMMA PrepOfStateTidy == ASSUME NEW s, PrepOfStateRows(s) PROVE Sound(s)
<1>1. IsList(s) /\ Len(s) = 24
  BY DEF PrepOfStateRows
<1>2. Paired(s)
  <2>1. PairedAt(s, 3) /\ PairedAt(s, 4)
    BY SyncPaired DEF PrepOfStateRows
  <2>2. PairedAt(s, 12) /\ PairedAt(s, 13)
    BY SyncPaired DEF PrepOfStateRows
  <2>3. PairedAt(s, 16) /\ PairedAt(s, 17)
    BY SyncPaired DEF PrepOfStateRows
  <2>4. PairedAt(s, 21) /\ PairedAt(s, 22)
    BY SyncPaired DEF PrepOfStateRows
  <2>5. /\ PairedAt(s, 1) /\ PairedAt(s, 2) /\ PairedAt(s, 6) /\ PairedAt(s, 7) /\ PairedAt(s, 8)
        /\ PairedAt(s, 9) /\ PairedAt(s, 10) /\ PairedAt(s, 11) /\ PairedAt(s, 14) /\ PairedAt(s, 15)
        /\ PairedAt(s, 18) /\ PairedAt(s, 19) /\ PairedAt(s, 20) /\ PairedAt(s, 23) /\ PairedAt(s, 24)
    BY StillPaired DEF PrepOfStateRows
  <2>6. PairedAt(s, 5)
    BY DEF PrepOfStateRows, Entry, Expand, Instr, PairedAt
  <2> QED
    BY <1>1, <2>1, <2>2, <2>3, <2>4, <2>5, <2>6 DEF Paired
<1> QED
  BY <1>1, <1>2 DEF Sound

\* chunk_h_update
UpdateRows(s) ==
  /\ IsList(s) /\ Len(s) = 12 /\ MoveAt(s, 1, "MTE2", "copy", <<Ub("kvT")>>, <<G("KV")>>)
  /\ MoveAt(s, 2, "MTE2", "copy", <<Ub("sT")>>, <<G("S")>>)
  /\ MoveAt(s, 3, "MTE2", "copy", <<Ub("decayT")>>, <<G("decay")>>) /\ FenceAt(s, 4)
  /\ MoveAt(s, 5, "MTE3", "copy", <<G("s_snap")>>, <<Ub("sT")>>) /\ FenceAt(s, 6)
  /\ MoveAt(s, 7, "V", "TROWEXPANDMUL", <<Ub("sT")>>, <<Ub("sT"), Ub("decayT")>>) /\ PauseAt(s, 8)
  /\ MoveAt(s, 9, "V", "TADD", <<Ub("sT")>>, <<Ub("sT"), Ub("kvT")>>) /\ FenceAt(s, 10)
  /\ MoveAt(s, 11, "MTE3", "copy", <<G("S")>>, <<Ub("sT")>>) /\ FenceAt(s, 12)

LEMMA UpdateIs == UpdateRows(ChunkHUpdate)
<1> DEFINE u == <<Load(Ub("kvT"), G("KV")), Load(Ub("sT"), G("S")),
                  Load(Ub("decayT"), G("decay")), Barrier, Store(G("s_snap"), Ub("sT")),
                  Barrier, Vec("TROWEXPANDMUL", Ub("sT"), <<Ub("sT"), Ub("decayT")>>),
                  BarrierV, Vec("TADD", Ub("sT"), <<Ub("sT"), Ub("kvT")>>), Barrier,
                  Store(G("S"), Ub("sT")), Barrier>>
           s == ChunkHUpdate
<1>1. <<Load(Ub("kvT"), G("KV")), Load(Ub("sT"), G("S")), Load(Ub("decayT"), G("decay")), Barrier,
          Store(G("s_snap"), Ub("sT")), Barrier, Vec("TROWEXPANDMUL", Ub("sT"), <<Ub("sT"), Ub("decayT")>>),
          BarrierV, Vec("TADD", Ub("sT"), <<Ub("sT"), Ub("kvT")>>), Barrier, Store(G("S"), Ub("sT")),
          Barrier>> = Slice(u, 0, 12)
  BY DEF Slice
<1>2. s = Slice(u, 0, 12)
  <2> HIDE DEF u
  <2> QED
    BY <1>1, Zenon DEF ChunkHUpdate
<1>3. PICK n \in Nat : n = 12
  OBVIOUS
<1>4. IsList(s) /\ Len(s) = 12 /\ \A i \in 1..12 : s[i] = u[i]
  <2> HIDE DEF u, s
  <2>1. IsList(Slice(u, 0, n)) /\ Len(Slice(u, 0, n)) = n /\ \A i \in 1..n : Slice(u, 0, n)[i] = u[i]
    BY SliceAll
  <2> QED
    BY <1>2, <1>3, <2>1
<1> HIDE DEF s
<1>5. /\ Entry(s, 1, Load(Ub("kvT"), G("KV"))) /\ Entry(s, 2, Load(Ub("sT"), G("S")))
      /\ Entry(s, 3, Load(Ub("decayT"), G("decay"))) /\ Entry(s, 4, Barrier)
      /\ Entry(s, 5, Store(G("s_snap"), Ub("sT"))) /\ Entry(s, 6, Barrier)
      /\ Entry(s, 7, Vec("TROWEXPANDMUL", Ub("sT"), <<Ub("sT"), Ub("decayT")>>)) /\ Entry(s, 8, BarrierV)
      /\ Entry(s, 9, Vec("TADD", Ub("sT"), <<Ub("sT"), Ub("kvT")>>)) /\ Entry(s, 10, Barrier)
      /\ Entry(s, 11, Store(G("S"), Ub("sT"))) /\ Entry(s, 12, Barrier)
  BY <1>4 DEF Entry
<1> HIDE DEF u
<1>6. /\ FenceAt(s, 4) /\ FenceAt(s, 6) /\ PauseAt(s, 8) /\ FenceAt(s, 10) /\ FenceAt(s, 12)
  BY <1>4, <1>5, SyncsAre
<1>7. /\ MoveAt(s, 1, "MTE2", "copy", <<Ub("kvT")>>, <<G("KV")>>)
      /\ MoveAt(s, 2, "MTE2", "copy", <<Ub("sT")>>, <<G("S")>>)
      /\ MoveAt(s, 3, "MTE2", "copy", <<Ub("decayT")>>, <<G("decay")>>)
      /\ MoveAt(s, 5, "MTE3", "copy", <<G("s_snap")>>, <<Ub("sT")>>)
      /\ MoveAt(s, 7, "V", "TROWEXPANDMUL", <<Ub("sT")>>, <<Ub("sT"), Ub("decayT")>>)
      /\ MoveAt(s, 9, "V", "TADD", <<Ub("sT")>>, <<Ub("sT"), Ub("kvT")>>)
      /\ MoveAt(s, 11, "MTE3", "copy", <<G("S")>>, <<Ub("sT")>>)
  BY <1>4, <1>5, MovesAre
<1> QED
  BY <1>4, <1>6, <1>7 DEF UpdateRows, s

UpdateCells(s) ==
  /\ \A b \in 1..12 : b \in {1, 2, 3, 5, 7, 9, 11} \/ StillAt(s, b)
  /\ \A b \in {1, 2, 3, 5, 7, 9, 11} : Moves(s[b])
  /\ \A b \in 1..12 : \A c : Puts(s, b, c) \/ Takes(s, b, c) => b \in {1, 2, 3, 5, 7, 9, 11}
  /\ \A c : Puts(s, 1, c) <=> c = Ub("kvT")
  /\ \A c : Puts(s, 2, c) <=> c = Ub("sT")
  /\ \A c : Puts(s, 3, c) <=> c = Ub("decayT")
  /\ \A c : Puts(s, 5, c) <=> c = G("s_snap")
  /\ \A c : Puts(s, 7, c) <=> c = Ub("sT")
  /\ \A c : Puts(s, 9, c) <=> c = Ub("sT")
  /\ \A c : Puts(s, 11, c) <=> c = G("S")
  /\ \A c : Takes(s, 1, c) <=> c = G("KV")
  /\ \A c : Takes(s, 2, c) <=> c = G("S")
  /\ \A c : Takes(s, 3, c) <=> c = G("decay")
  /\ \A c : Takes(s, 5, c) <=> c = Ub("sT")
  /\ \A c : Takes(s, 7, c) <=> c = Ub("sT") \/ c = Ub("decayT")
  /\ \A c : Takes(s, 9, c) <=> c = Ub("sT") \/ c = Ub("kvT")
  /\ \A c : Takes(s, 11, c) <=> c = Ub("sT")

LEMMA UpdateUses == ASSUME NEW s, UpdateRows(s) PROVE UpdateCells(s)
<1>1. /\ StillAt(s, 4) /\ StillAt(s, 6) /\ StillAt(s, 8) /\ StillAt(s, 10) /\ StillAt(s, 12)
  BY FlagsAreStill DEF UpdateRows
<1>2. \A b \in 1..12 : b \in {1, 2, 3, 5, 7, 9, 11} \/ StillAt(s, b)
  BY <1>1
<1>3. \A b \in {1, 2, 3, 5, 7, 9, 11} : Moves(s[b])
  BY DEF UpdateRows, MoveAt
<1>4. \A b \in 1..12 : \A c : Puts(s, b, c) \/ Takes(s, b, c) => b \in {1, 2, 3, 5, 7, 9, 11}
  BY <1>2, CellsUsed
<1>5. /\ \A c : Puts(s, 1, c) <=> c = Ub("kvT")
      /\ \A c : Puts(s, 2, c) <=> c = Ub("sT")
      /\ \A c : Puts(s, 3, c) <=> c = Ub("decayT")
      /\ \A c : Puts(s, 5, c) <=> c = G("s_snap")
      /\ \A c : Puts(s, 7, c) <=> c = Ub("sT")
      /\ \A c : Puts(s, 9, c) <=> c = Ub("sT")
  <2>1. /\ MoveAt(s, 1, "MTE2", "copy", <<Ub("kvT")>>, <<G("KV")>>)
        /\ MoveAt(s, 2, "MTE2", "copy", <<Ub("sT")>>, <<G("S")>>)
        /\ MoveAt(s, 3, "MTE2", "copy", <<Ub("decayT")>>, <<G("decay")>>)
        /\ MoveAt(s, 5, "MTE3", "copy", <<G("s_snap")>>, <<Ub("sT")>>)
        /\ MoveAt(s, 7, "V", "TROWEXPANDMUL", <<Ub("sT")>>, <<Ub("sT"), Ub("decayT")>>)
        /\ MoveAt(s, 9, "V", "TADD", <<Ub("sT")>>, <<Ub("sT"), Ub("kvT")>>)
    BY DEF UpdateRows
  <2> QED
    BY <2>1, CellsUsed
<1>6. /\ \A c : Puts(s, 11, c) <=> c = G("S")
  <2>1. /\ MoveAt(s, 11, "MTE3", "copy", <<G("S")>>, <<Ub("sT")>>)
    BY DEF UpdateRows
  <2> QED
    BY <2>1, CellsUsed
<1>7. /\ \A c : Takes(s, 1, c) <=> c = G("KV")
      /\ \A c : Takes(s, 2, c) <=> c = G("S")
      /\ \A c : Takes(s, 3, c) <=> c = G("decay")
      /\ \A c : Takes(s, 5, c) <=> c = Ub("sT")
      /\ \A c : Takes(s, 7, c) <=> c = Ub("sT") \/ c = Ub("decayT")
      /\ \A c : Takes(s, 9, c) <=> c = Ub("sT") \/ c = Ub("kvT")
  <2>1. /\ MoveAt(s, 1, "MTE2", "copy", <<Ub("kvT")>>, <<G("KV")>>)
        /\ MoveAt(s, 2, "MTE2", "copy", <<Ub("sT")>>, <<G("S")>>)
        /\ MoveAt(s, 3, "MTE2", "copy", <<Ub("decayT")>>, <<G("decay")>>)
        /\ MoveAt(s, 5, "MTE3", "copy", <<G("s_snap")>>, <<Ub("sT")>>)
        /\ MoveAt(s, 7, "V", "TROWEXPANDMUL", <<Ub("sT")>>, <<Ub("sT"), Ub("decayT")>>)
        /\ MoveAt(s, 9, "V", "TADD", <<Ub("sT")>>, <<Ub("sT"), Ub("kvT")>>)
    BY DEF UpdateRows
  <2> QED
    BY <2>1, CellsUsed
<1>8. /\ \A c : Takes(s, 11, c) <=> c = Ub("sT")
  <2>1. /\ MoveAt(s, 11, "MTE3", "copy", <<G("S")>>, <<Ub("sT")>>)
    BY DEF UpdateRows
  <2> QED
    BY <2>1, CellsUsed
<1> QED
  BY <1>2, <1>3, <1>4, <1>5, <1>6, <1>7, <1>8 DEF UpdateCells

LEMMA UpdateTidy == ASSUME NEW s, UpdateRows(s) PROVE Sound(s) /\ Tidy(s)
<1>1. IsList(s) /\ Len(s) = 12
  BY DEF UpdateRows
<1>2. Paired(s)
  <2>1. /\ PairedAt(s, 1) /\ PairedAt(s, 2) /\ PairedAt(s, 3) /\ PairedAt(s, 4) /\ PairedAt(s, 5)
        /\ PairedAt(s, 6) /\ PairedAt(s, 7) /\ PairedAt(s, 8) /\ PairedAt(s, 9) /\ PairedAt(s, 10)
        /\ PairedAt(s, 11) /\ PairedAt(s, 12)
    BY StillPaired DEF UpdateRows
  <2> QED
    BY <1>1, <2>1 DEF Paired
<1>3. /\ RunsOn(s, 1, "MTE2") /\ RunsOn(s, 2, "MTE2") /\ RunsOn(s, 3, "MTE2") /\ RunsOn(s, 5, "MTE3")
      /\ RunsOn(s, 7, "V") /\ RunsOn(s, 9, "V") /\ RunsOn(s, 11, "MTE3")
  BY MoveRuns DEF UpdateRows
<1>4. UpdateCells(s)
  BY UpdateUses
<1>5. \A a, b \in 1..12 : a < 4 /\ 4 < b => Before(s, a, b)
  <2>1. FenceAt(s, 4)
    BY DEF UpdateRows
  <2> QED
    BY <1>1, <2>1, Divided
<1>6. \A a, b \in 1..12 : a < 6 /\ 6 < b => Before(s, a, b)
  <2>1. FenceAt(s, 6)
    BY DEF UpdateRows
  <2> QED
    BY <1>1, <2>1, Divided
<1>7. Before(s, 7, 9)
  BY <1>3, ByPipe
<1>8. \A a, b \in 1..12 : a < 10 /\ 10 < b => Before(s, a, b)
  <2>1. FenceAt(s, 10)
    BY DEF UpdateRows
  <2> QED
    BY <1>1, <2>1, Divided
<1>9. OrderedFrom(s, 1)
  <2>1. ASSUME NEW b \in 1..12, NEW c, 1 < b, Clash(s, 1, b, c) PROVE Before(s, 1, b)
    BY <1>4, <1>5, <2>1, Named DEF UpdateCells, Clash
  <2> QED
    BY <1>1, <2>1, ClashBefore
<1>10. OrderedFrom(s, 2)
  <2>1. ASSUME NEW b \in 1..12, NEW c, 2 < b, Clash(s, 2, b, c) PROVE Before(s, 2, b)
    BY <1>4, <1>5, <2>1, Named DEF UpdateCells, Clash
  <2> QED
    BY <1>1, <2>1, ClashBefore
<1>11. OrderedFrom(s, 3)
  <2>1. ASSUME NEW b \in 1..12, NEW c, 3 < b, Clash(s, 3, b, c) PROVE Before(s, 3, b)
    BY <1>4, <1>5, <2>1, Named DEF UpdateCells, Clash
  <2> QED
    BY <1>1, <2>1, ClashBefore
<1>12. OrderedFrom(s, 5)
  <2>1. ASSUME NEW b \in 1..12, NEW c, 5 < b, Clash(s, 5, b, c) PROVE Before(s, 5, b)
    BY <1>4, <1>6, <2>1, Named DEF UpdateCells, Clash
  <2> QED
    BY <1>1, <2>1, ClashBefore
<1>13. OrderedFrom(s, 7)
  <2>1. ASSUME NEW b \in 1..12, NEW c, 7 < b, Clash(s, 7, b, c) PROVE Before(s, 7, b)
    BY <1>4, <1>7, <1>8, <2>1, Named DEF UpdateCells, Clash
  <2> QED
    BY <1>1, <2>1, ClashBefore
<1>14. OrderedFrom(s, 9)
  <2>1. ASSUME NEW b \in 1..12, NEW c, 9 < b, Clash(s, 9, b, c) PROVE Before(s, 9, b)
    BY <1>4, <1>8, <2>1, Named DEF UpdateCells, Clash
  <2> QED
    BY <1>1, <2>1, ClashBefore
<1>15. OrderedFrom(s, 11)
  <2>1. ASSUME NEW b \in 1..12, NEW c, 11 < b, Clash(s, 11, b, c) PROVE Before(s, 11, b)
    BY <1>4, <2>1, Named DEF UpdateCells, Clash
  <2> QED
    BY <1>1, <2>1, ClashBefore
<1>16. Ordered(s)
  BY <1>1, <1>4, <1>9, <1>10, <1>11, <1>12, <1>13, <1>14, <1>15, OrderedAll DEF UpdateCells
<1>17. Plain(s)
  BY <1>1, <1>4 DEF UpdateCells, Plain, StillAt
<1> QED
  BY <1>1, <1>2, <1>16, <1>17 DEF Sound, Tidy

UpdateMade ==
  <<G("KV"), G("S"), G("decay"), Scratch, G("S"), Scratch,
    <<"TROWEXPANDMUL", G("S"), G("decay")>>, Scratch,
    <<"TADD", <<"TROWEXPANDMUL", G("S"), G("decay")>>, G("KV")>>, Scratch,
    <<"TADD", <<"TROWEXPANDMUL", G("S"), G("decay")>>, G("KV")>>, Scratch>>

LEMMA UpdateMakes ==
  ASSUME NEW s, UpdateRows(s)
  PROVE  /\ Annotated(s, UpdateMade)
         /\ Delivers(s, UpdateMade, {<<G("s_snap"), G("S")>>,
                      <<G("S"), <<"TADD", <<"TROWEXPANDMUL", G("S"), G("decay")>>, G("KV")>>>>})
<1> DEFINE v == UpdateMade
<1>1. IsList(s) /\ Len(s) = 12
  BY DEF UpdateRows
<1>2. IsList(v) /\ Len(v) = 12
  <2>1. v = Slice(v, 0, 12)
    BY DEF Slice, UpdateMade
  <2>2. PICK n \in Nat : n = 12
    OBVIOUS
  <2> HIDE DEF v
  <2> QED
    BY <2>1, <2>2, ListOf
<1>3. /\ v[1] = G("KV") /\ v[2] = G("S") /\ v[3] = G("decay") /\ v[4] = Scratch /\ v[5] = G("S")
      /\ v[6] = Scratch /\ v[7] = <<"TROWEXPANDMUL", G("S"), G("decay")>> /\ v[8] = Scratch
      /\ v[9] = <<"TADD", <<"TROWEXPANDMUL", G("S"), G("decay")>>, G("KV")>> /\ v[10] = Scratch
      /\ v[11] = <<"TADD", <<"TROWEXPANDMUL", G("S"), G("decay")>>, G("KV")>> /\ v[12] = Scratch
  BY DEF UpdateMade
<1> HIDE DEF v
<1>0. UpdateCells(s)
  BY UpdateUses
<1>4. /\ s[1].dst[1] = Ub("kvT") /\ s[2].dst[1] = Ub("sT") /\ s[3].dst[1] = Ub("decayT")
      /\ s[5].dst[1] = G("s_snap") /\ s[7].dst[1] = Ub("sT") /\ s[9].dst[1] = Ub("sT")
      /\ s[11].dst[1] = G("S")
  BY DEF UpdateRows, MoveAt
<1>5. \A j \in 1..12 : Puts(s, j, Ub("kvT")) => j \in {1}
  BY <1>0, Named DEF UpdateCells
<1>6. \A j \in 1..12 : Puts(s, j, G("KV")) => j \in {}
  BY <1>0, Named DEF UpdateCells
<1>7. \A j \in 1..12 : Puts(s, j, Ub("sT")) => j \in {2, 7, 9}
  BY <1>0, Named DEF UpdateCells
<1>8. \A j \in 1..12 : Puts(s, j, G("S")) => j \in {11}
  BY <1>0, Named DEF UpdateCells
<1>9. \A j \in 1..12 : Puts(s, j, Ub("decayT")) => j \in {3}
  BY <1>0, Named DEF UpdateCells
<1>10. \A j \in 1..12 : Puts(s, j, G("decay")) => j \in {}
  BY <1>0, Named DEF UpdateCells
<1>11. \A j \in 1..12 : Puts(s, j, G("s_snap")) => j \in {5}
  BY <1>0, Named DEF UpdateCells
<1>12. v[1] = Made(s, v, 1)
  <2>1. NoWrite(s, G("KV"), 1)
    BY <1>0, <1>1, <1>4, <1>6 DEF UpdateCells, LastWrite, NoWrite
  <2>2. Holds(s, v, G("KV"), 1) = G("KV")
    BY <2>1, HeldBy
  <2>3. Made(s, v, 1) = Holds(s, v, G("KV"), 1)
    BY MadeOf DEF UpdateRows
  <2> QED
    BY <1>3, <2>2, <2>3
<1>13. v[2] = Made(s, v, 2)
  <2>1. NoWrite(s, G("S"), 2)
    BY <1>0, <1>1, <1>4, <1>8 DEF UpdateCells, LastWrite, NoWrite
  <2>2. Holds(s, v, G("S"), 2) = G("S")
    BY <2>1, HeldBy
  <2>3. Made(s, v, 2) = Holds(s, v, G("S"), 2)
    BY MadeOf DEF UpdateRows
  <2> QED
    BY <1>3, <2>2, <2>3
<1>14. v[3] = Made(s, v, 3)
  <2>1. NoWrite(s, G("decay"), 3)
    BY <1>0, <1>1, <1>4, <1>10 DEF UpdateCells, LastWrite, NoWrite
  <2>2. Holds(s, v, G("decay"), 3) = G("decay")
    BY <2>1, HeldBy
  <2>3. Made(s, v, 3) = Holds(s, v, G("decay"), 3)
    BY MadeOf DEF UpdateRows
  <2> QED
    BY <1>3, <2>2, <2>3
<1>15. v[5] = Made(s, v, 5)
  <2>1. LastWrite(s, Ub("sT"), 5, 2)
    BY <1>0, <1>1, <1>4, <1>7 DEF UpdateCells, LastWrite, NoWrite
  <2>2. Holds(s, v, Ub("sT"), 5) = v[2]
    BY <2>1, HeldBy
  <2>3. Made(s, v, 5) = Holds(s, v, Ub("sT"), 5)
    BY MadeOf DEF UpdateRows
  <2> QED
    BY <1>3, <2>2, <2>3
<1>16. v[7] = Made(s, v, 7)
  <2>1. LastWrite(s, Ub("sT"), 7, 2) /\ LastWrite(s, Ub("decayT"), 7, 3)
    BY <1>0, <1>1, <1>4, <1>7, <1>9 DEF UpdateCells, LastWrite, NoWrite
  <2>2. Holds(s, v, Ub("sT"), 7) = v[2] /\ Holds(s, v, Ub("decayT"), 7) = v[3]
    BY <2>1, HeldBy
  <2>3. Made(s, v, 7) = <<"TROWEXPANDMUL", Holds(s, v, Ub("sT"), 7), Holds(s, v, Ub("decayT"), 7)>>
    <3>1. "TROWEXPANDMUL" # "copy" /\
              MoveAt(s, 7, "V", "TROWEXPANDMUL", <<Ub("sT")>>, <<Ub("sT"), Ub("decayT")>>)
      BY DEF UpdateRows
    <3> QED
      BY <3>1, MadeOfTwo
  <2> QED
    BY <1>3, <2>2, <2>3
<1>17. v[9] = Made(s, v, 9)
  <2>1. LastWrite(s, Ub("sT"), 9, 7) /\ LastWrite(s, Ub("kvT"), 9, 1)
    BY <1>0, <1>1, <1>4, <1>7, <1>5 DEF UpdateCells, LastWrite, NoWrite
  <2>2. Holds(s, v, Ub("sT"), 9) = v[7] /\ Holds(s, v, Ub("kvT"), 9) = v[1]
    BY <2>1, HeldBy
  <2>3. Made(s, v, 9) = <<"TADD", Holds(s, v, Ub("sT"), 9), Holds(s, v, Ub("kvT"), 9)>>
    <3>1. "TADD" # "copy" /\ MoveAt(s, 9, "V", "TADD", <<Ub("sT")>>, <<Ub("sT"), Ub("kvT")>>)
      BY DEF UpdateRows
    <3> QED
      BY <3>1, MadeOfTwo
  <2> QED
    BY <1>3, <2>2, <2>3
<1>18. v[11] = Made(s, v, 11)
  <2>1. LastWrite(s, Ub("sT"), 11, 9)
    BY <1>0, <1>1, <1>4, <1>7 DEF UpdateCells, LastWrite, NoWrite
  <2>2. Holds(s, v, Ub("sT"), 11) = v[9]
    BY <2>1, HeldBy
  <2>3. Made(s, v, 11) = Holds(s, v, Ub("sT"), 11)
    BY MadeOf DEF UpdateRows
  <2> QED
    BY <1>3, <2>2, <2>3
<1>19. /\ v[4] = Made(s, v, 4) /\ v[6] = Made(s, v, 6) /\ v[8] = Made(s, v, 8) /\ v[10] = Made(s, v, 10)
      /\ v[12] = Made(s, v, 12)
  <2>1. /\ StillAt(s, 4) /\ StillAt(s, 6) /\ StillAt(s, 8) /\ StillAt(s, 10) /\ StillAt(s, 12)
    BY FlagsAreStill DEF UpdateRows
  <2> QED
    BY <1>3, <2>1, MadeStill
<1>20. Annotated(s, v)
  BY <1>1, <1>2, <1>12, <1>13, <1>14, <1>15, <1>16, <1>17, <1>18, <1>19 DEF Annotated
<1>21. Writers(s, G("s_snap")) # {} /\ Contents(s, v, G("s_snap"), Writers(s, G("s_snap"))) = v[5]
  <2>1. Leaves(s, G("s_snap"), 5)
    BY <1>0, <1>1, <1>4, <1>11 DEF UpdateCells, Leaves, LastWrite
  <2> QED
    BY <2>1, LeftBy
<1>22. Writers(s, G("S")) # {} /\ Contents(s, v, G("S"), Writers(s, G("S"))) = v[11]
  <2>1. Leaves(s, G("S"), 11)
    BY <1>0, <1>1, <1>4, <1>8 DEF UpdateCells, Leaves, LastWrite
  <2> QED
    BY <2>1, LeftBy
<1> QED
  BY <1>3, <1>20, <1>21, <1>22 DEF Delivers, v

\* chunk_h_update, the first chunk
FirstStateRows(s) ==
  /\ IsList(s) /\ Len(s) = 6 /\ MoveAt(s, 1, "MTE2", "copy", <<Ub("kvT")>>, <<G("KV")>>)
  /\ MoveAt(s, 2, "V", "TEXPANDS", <<Ub("sT")>>, <<>>) /\ FenceAt(s, 3)
  /\ MoveAt(s, 4, "MTE3", "copy", <<G("s_snap")>>, <<Ub("sT")>>)
  /\ MoveAt(s, 5, "MTE3", "copy", <<G("S")>>, <<Ub("kvT")>>) /\ FenceAt(s, 6)

LEMMA FirstStateIs == FirstStateRows(ChunkHFirst)
<1> DEFINE u == <<Load(Ub("kvT"), G("KV")), Vec("TEXPANDS", Ub("sT"), <<>>), Barrier,
                  Store(G("s_snap"), Ub("sT")), Store(G("S"), Ub("kvT")), Barrier>>
           s == ChunkHFirst
<1>1. <<Load(Ub("kvT"), G("KV")), Vec("TEXPANDS", Ub("sT"), <<>>), Barrier, Store(G("s_snap"), Ub("sT")),
          Store(G("S"), Ub("kvT")), Barrier>> = Slice(u, 0, 6)
  BY DEF Slice
<1>2. s = Slice(u, 0, 6)
  <2> HIDE DEF u
  <2> QED
    BY <1>1, Zenon DEF ChunkHFirst
<1>3. PICK n \in Nat : n = 6
  OBVIOUS
<1>4. IsList(s) /\ Len(s) = 6 /\ \A i \in 1..6 : s[i] = u[i]
  <2> HIDE DEF u, s
  <2>1. IsList(Slice(u, 0, n)) /\ Len(Slice(u, 0, n)) = n /\ \A i \in 1..n : Slice(u, 0, n)[i] = u[i]
    BY SliceAll
  <2> QED
    BY <1>2, <1>3, <2>1
<1> HIDE DEF s
<1>5. /\ Entry(s, 1, Load(Ub("kvT"), G("KV"))) /\ Entry(s, 2, Vec("TEXPANDS", Ub("sT"), <<>>))
      /\ Entry(s, 3, Barrier) /\ Entry(s, 4, Store(G("s_snap"), Ub("sT")))
      /\ Entry(s, 5, Store(G("S"), Ub("kvT"))) /\ Entry(s, 6, Barrier)
  BY <1>4 DEF Entry
<1> HIDE DEF u
<1>6. /\ FenceAt(s, 3) /\ FenceAt(s, 6)
  BY <1>4, <1>5, SyncsAre
<1>7. /\ MoveAt(s, 1, "MTE2", "copy", <<Ub("kvT")>>, <<G("KV")>>)
      /\ MoveAt(s, 2, "V", "TEXPANDS", <<Ub("sT")>>, <<>>)
      /\ MoveAt(s, 4, "MTE3", "copy", <<G("s_snap")>>, <<Ub("sT")>>)
      /\ MoveAt(s, 5, "MTE3", "copy", <<G("S")>>, <<Ub("kvT")>>)
  BY <1>4, <1>5, MovesAre
<1> QED
  BY <1>4, <1>6, <1>7 DEF FirstStateRows, s

FirstStateCells(s) ==
  /\ \A b \in 1..6 : b \in {1, 2, 4, 5} \/ StillAt(s, b)
  /\ \A b \in {1, 2, 4, 5} : Moves(s[b])
  /\ \A b \in 1..6 : \A c : Puts(s, b, c) \/ Takes(s, b, c) => b \in {1, 2, 4, 5}
  /\ \A c : Puts(s, 1, c) <=> c = Ub("kvT")
  /\ \A c : Puts(s, 2, c) <=> c = Ub("sT")
  /\ \A c : Puts(s, 4, c) <=> c = G("s_snap")
  /\ \A c : Puts(s, 5, c) <=> c = G("S")
  /\ \A c : Takes(s, 1, c) <=> c = G("KV")
  /\ \A c : ~ Takes(s, 2, c)
  /\ \A c : Takes(s, 4, c) <=> c = Ub("sT")
  /\ \A c : Takes(s, 5, c) <=> c = Ub("kvT")

LEMMA FirstStateUses == ASSUME NEW s, FirstStateRows(s) PROVE FirstStateCells(s)
<1>1. /\ StillAt(s, 3) /\ StillAt(s, 6)
  BY FlagsAreStill DEF FirstStateRows
<1>2. \A b \in 1..6 : b \in {1, 2, 4, 5} \/ StillAt(s, b)
  BY <1>1
<1>3. \A b \in {1, 2, 4, 5} : Moves(s[b])
  BY DEF FirstStateRows, MoveAt
<1>4. \A b \in 1..6 : \A c : Puts(s, b, c) \/ Takes(s, b, c) => b \in {1, 2, 4, 5}
  BY <1>2, CellsUsed
<1>5. /\ \A c : Puts(s, 1, c) <=> c = Ub("kvT")
      /\ \A c : Puts(s, 2, c) <=> c = Ub("sT")
      /\ \A c : Puts(s, 4, c) <=> c = G("s_snap")
      /\ \A c : Puts(s, 5, c) <=> c = G("S")
  <2>1. /\ MoveAt(s, 1, "MTE2", "copy", <<Ub("kvT")>>, <<G("KV")>>)
        /\ MoveAt(s, 2, "V", "TEXPANDS", <<Ub("sT")>>, <<>>)
        /\ MoveAt(s, 4, "MTE3", "copy", <<G("s_snap")>>, <<Ub("sT")>>)
        /\ MoveAt(s, 5, "MTE3", "copy", <<G("S")>>, <<Ub("kvT")>>)
    BY DEF FirstStateRows
  <2> QED
    BY <2>1, CellsUsed
<1>6. /\ \A c : Takes(s, 1, c) <=> c = G("KV")
      /\ \A c : ~ Takes(s, 2, c)
      /\ \A c : Takes(s, 4, c) <=> c = Ub("sT")
      /\ \A c : Takes(s, 5, c) <=> c = Ub("kvT")
  <2>1. /\ MoveAt(s, 1, "MTE2", "copy", <<Ub("kvT")>>, <<G("KV")>>)
        /\ MoveAt(s, 2, "V", "TEXPANDS", <<Ub("sT")>>, <<>>)
        /\ MoveAt(s, 4, "MTE3", "copy", <<G("s_snap")>>, <<Ub("sT")>>)
        /\ MoveAt(s, 5, "MTE3", "copy", <<G("S")>>, <<Ub("kvT")>>)
    BY DEF FirstStateRows
  <2> QED
    BY <2>1, CellsUsed
<1> QED
  BY <1>2, <1>3, <1>4, <1>5, <1>6 DEF FirstStateCells

LEMMA FirstStateTidy == ASSUME NEW s, FirstStateRows(s) PROVE Sound(s) /\ Tidy(s)
<1>1. IsList(s) /\ Len(s) = 6
  BY DEF FirstStateRows
<1>2. Paired(s)
  <2>1. /\ PairedAt(s, 1) /\ PairedAt(s, 2) /\ PairedAt(s, 3) /\ PairedAt(s, 4) /\ PairedAt(s, 5)
        /\ PairedAt(s, 6)
    BY StillPaired DEF FirstStateRows
  <2> QED
    BY <1>1, <2>1 DEF Paired
<1>3. /\ RunsOn(s, 1, "MTE2") /\ RunsOn(s, 2, "V") /\ RunsOn(s, 4, "MTE3") /\ RunsOn(s, 5, "MTE3")
  BY MoveRuns DEF FirstStateRows
<1>4. FirstStateCells(s)
  BY FirstStateUses
<1>5. \A a, b \in 1..6 : a < 3 /\ 3 < b => Before(s, a, b)
  <2>1. FenceAt(s, 3)
    BY DEF FirstStateRows
  <2> QED
    BY <1>1, <2>1, Divided
<1>6. OrderedFrom(s, 1)
  <2>1. ASSUME NEW b \in 1..6, NEW c, 1 < b, Clash(s, 1, b, c) PROVE Before(s, 1, b)
    BY <1>4, <1>5, <2>1, Named DEF FirstStateCells, Clash
  <2> QED
    BY <1>1, <2>1, ClashBefore
<1>7. OrderedFrom(s, 2)
  <2>1. ASSUME NEW b \in 1..6, NEW c, 2 < b, Clash(s, 2, b, c) PROVE Before(s, 2, b)
    BY <1>4, <1>5, <2>1, Named DEF FirstStateCells, Clash
  <2> QED
    BY <1>1, <2>1, ClashBefore
<1>8. OrderedFrom(s, 4)
  <2>1. ASSUME NEW b \in 1..6, NEW c, 4 < b, Clash(s, 4, b, c) PROVE Before(s, 4, b)
    BY <1>4, <2>1, Named DEF FirstStateCells, Clash
  <2> QED
    BY <1>1, <2>1, ClashBefore
<1>9. OrderedFrom(s, 5)
  <2>1. ASSUME NEW b \in 1..6, NEW c, 5 < b, Clash(s, 5, b, c) PROVE Before(s, 5, b)
    BY <1>4, <2>1, Named DEF FirstStateCells, Clash
  <2> QED
    BY <1>1, <2>1, ClashBefore
<1>10. Ordered(s)
  BY <1>1, <1>4, <1>6, <1>7, <1>8, <1>9, OrderedAll DEF FirstStateCells
<1>11. Plain(s)
  BY <1>1, <1>4 DEF FirstStateCells, Plain, StillAt
<1> QED
  BY <1>1, <1>2, <1>10, <1>11 DEF Sound, Tidy

FirstStateMade ==
  <<G("KV"), <<"TEXPANDS">>, Scratch, <<"TEXPANDS">>, G("KV"), Scratch>>

LEMMA FirstStateMakes ==
  ASSUME NEW s, FirstStateRows(s)
  PROVE  /\ Annotated(s, FirstStateMade)
         /\ Delivers(s, FirstStateMade, {<<G("s_snap"), <<"TEXPANDS">>>>, <<G("S"), G("KV")>>})
<1> DEFINE v == FirstStateMade
<1>1. IsList(s) /\ Len(s) = 6
  BY DEF FirstStateRows
<1>2. IsList(v) /\ Len(v) = 6
  <2>1. v = Slice(v, 0, 6)
    BY DEF Slice, FirstStateMade
  <2>2. PICK n \in Nat : n = 6
    OBVIOUS
  <2> HIDE DEF v
  <2> QED
    BY <2>1, <2>2, ListOf
<1>3. /\ v[1] = G("KV") /\ v[2] = <<"TEXPANDS">> /\ v[3] = Scratch /\ v[4] = <<"TEXPANDS">>
      /\ v[5] = G("KV") /\ v[6] = Scratch
  BY DEF FirstStateMade
<1> HIDE DEF v
<1>0. FirstStateCells(s)
  BY FirstStateUses
<1>4. /\ s[1].dst[1] = Ub("kvT") /\ s[2].dst[1] = Ub("sT") /\ s[4].dst[1] = G("s_snap")
      /\ s[5].dst[1] = G("S")
  BY DEF FirstStateRows, MoveAt
<1>5. \A j \in 1..6 : Puts(s, j, Ub("kvT")) => j \in {1}
  BY <1>0, Named DEF FirstStateCells
<1>6. \A j \in 1..6 : Puts(s, j, G("KV")) => j \in {}
  BY <1>0, Named DEF FirstStateCells
<1>7. \A j \in 1..6 : Puts(s, j, Ub("sT")) => j \in {2}
  BY <1>0, Named DEF FirstStateCells
<1>8. \A j \in 1..6 : Puts(s, j, G("s_snap")) => j \in {4}
  BY <1>0, Named DEF FirstStateCells
<1>9. \A j \in 1..6 : Puts(s, j, G("S")) => j \in {5}
  BY <1>0, Named DEF FirstStateCells
<1>10. v[1] = Made(s, v, 1)
  <2>1. NoWrite(s, G("KV"), 1)
    BY <1>0, <1>1, <1>4, <1>6 DEF FirstStateCells, LastWrite, NoWrite
  <2>2. Holds(s, v, G("KV"), 1) = G("KV")
    BY <2>1, HeldBy
  <2>3. Made(s, v, 1) = Holds(s, v, G("KV"), 1)
    BY MadeOf DEF FirstStateRows
  <2> QED
    BY <1>3, <2>2, <2>3
<1>11. v[2] = Made(s, v, 2)
  <2>3. Made(s, v, 2) = <<"TEXPANDS">>
    <3>1. "TEXPANDS" # "copy" /\ MoveAt(s, 2, "V", "TEXPANDS", <<Ub("sT")>>, <<>>)
      BY DEF FirstStateRows
    <3> QED
      BY <3>1, MadeOf
  <2> QED
    BY <1>3, <2>3
<1>12. v[4] = Made(s, v, 4)
  <2>1. LastWrite(s, Ub("sT"), 4, 2)
    BY <1>0, <1>1, <1>4, <1>7 DEF FirstStateCells, LastWrite, NoWrite
  <2>2. Holds(s, v, Ub("sT"), 4) = v[2]
    BY <2>1, HeldBy
  <2>3. Made(s, v, 4) = Holds(s, v, Ub("sT"), 4)
    BY MadeOf DEF FirstStateRows
  <2> QED
    BY <1>3, <2>2, <2>3
<1>13. v[5] = Made(s, v, 5)
  <2>1. LastWrite(s, Ub("kvT"), 5, 1)
    BY <1>0, <1>1, <1>4, <1>5 DEF FirstStateCells, LastWrite, NoWrite
  <2>2. Holds(s, v, Ub("kvT"), 5) = v[1]
    BY <2>1, HeldBy
  <2>3. Made(s, v, 5) = Holds(s, v, Ub("kvT"), 5)
    BY MadeOf DEF FirstStateRows
  <2> QED
    BY <1>3, <2>2, <2>3
<1>14. /\ v[3] = Made(s, v, 3) /\ v[6] = Made(s, v, 6)
  <2>1. /\ StillAt(s, 3) /\ StillAt(s, 6)
    BY FlagsAreStill DEF FirstStateRows
  <2> QED
    BY <1>3, <2>1, MadeStill
<1>15. Annotated(s, v)
  BY <1>1, <1>2, <1>10, <1>11, <1>12, <1>13, <1>14 DEF Annotated
<1>16. Writers(s, G("s_snap")) # {} /\ Contents(s, v, G("s_snap"), Writers(s, G("s_snap"))) = v[4]
  <2>1. Leaves(s, G("s_snap"), 4)
    BY <1>0, <1>1, <1>4, <1>8 DEF FirstStateCells, Leaves, LastWrite
  <2> QED
    BY <2>1, LeftBy
<1>17. Writers(s, G("S")) # {} /\ Contents(s, v, G("S"), Writers(s, G("S"))) = v[5]
  <2>1. Leaves(s, G("S"), 5)
    BY <1>0, <1>1, <1>4, <1>9 DEF FirstStateCells, Leaves, LastWrite
  <2> QED
    BY <2>1, LeftBy
<1> QED
  BY <1>3, <1>15, <1>16, <1>17 DEF Delivers, v

\* chunk_o_prep
PrepOfOutputRows(s) ==
  /\ IsList(s) /\ Len(s) = 28 /\ MoveAt(s, 1, "MTE2", "copy", <<Ub("gT")>>, <<G("g_cs")>>)
  /\ SetAt(s, 2, "MTE2", "V", 0) /\ WaitAt(s, 3, "MTE2", "V", 0)
  /\ MoveAt(s, 4, "V", "TEXP", <<Ub("eT")>>, <<Ub("gT")>>) /\ PauseAt(s, 5)
  /\ MoveAt(s, 6, "MTE2", "copy", <<Ub("xT")>>, <<G("q")>>) /\ SetAt(s, 7, "MTE2", "V", 0)
  /\ WaitAt(s, 8, "MTE2", "V", 0) /\ MoveAt(s, 9, "V", "TMUL", <<Ub("xT")>>, <<Ub("xT"), Ub("eT")>>)
  /\ PauseAt(s, 10) /\ SetAt(s, 11, "V", "MTE3", 0) /\ WaitAt(s, 12, "V", "MTE3", 0)
  /\ MoveAt(s, 13, "MTE3", "copy", <<G("q_eff")>>, <<Ub("xT")>>)
  /\ MoveAt(s, 14, "V", "TMULS", <<Ub("gT")>>, <<Ub("gT")>>) /\ PauseAt(s, 15)
  /\ MoveAt(s, 16, "V", "TEXP", <<Ub("gT")>>, <<Ub("gT")>>) /\ PauseAt(s, 17)
  /\ SetAt(s, 18, "MTE3", "MTE2", 0) /\ WaitAt(s, 19, "MTE3", "MTE2", 0)
  /\ MoveAt(s, 20, "MTE2", "copy", <<Ub("xT")>>, <<G("k")>>) /\ SetAt(s, 21, "MTE2", "V", 0)
  /\ WaitAt(s, 22, "MTE2", "V", 0)
  /\ MoveAt(s, 23, "V", "TMUL", <<Ub("xT")>>, <<Ub("xT"), Ub("gT")>>) /\ PauseAt(s, 24)
  /\ SetAt(s, 25, "V", "MTE3", 1) /\ WaitAt(s, 26, "V", "MTE3", 1)
  /\ MoveAt(s, 27, "MTE3", "copy", <<G("k_eff")>>, <<Ub("xT")>>) /\ FenceAt(s, 28)

LEMMA PrepOfOutputIs == PrepOfOutputRows(ChunkOPrep)
<1> DEFINE u == <<Load(Ub("gT"), G("g_cs")), SetFlag("MTE2", "V", 0), WaitFlag("MTE2", "V", 0),
                  Vec("TEXP", Ub("eT"), <<Ub("gT")>>), BarrierV, Load(Ub("xT"), G("q")),
                  SetFlag("MTE2", "V", 0), WaitFlag("MTE2", "V", 0),
                  Vec("TMUL", Ub("xT"), <<Ub("xT"), Ub("eT")>>), BarrierV,
                  SetFlag("V", "MTE3", 0), WaitFlag("V", "MTE3", 0),
                  Store(G("q_eff"), Ub("xT")), Vec("TMULS", Ub("gT"), <<Ub("gT")>>), BarrierV,
                  Vec("TEXP", Ub("gT"), <<Ub("gT")>>), BarrierV, SetFlag("MTE3", "MTE2", 0),
                  WaitFlag("MTE3", "MTE2", 0), Load(Ub("xT"), G("k")), SetFlag("MTE2", "V", 0),
                  WaitFlag("MTE2", "V", 0), Vec("TMUL", Ub("xT"), <<Ub("xT"), Ub("gT")>>),
                  BarrierV, SetFlag("V", "MTE3", 1), WaitFlag("V", "MTE3", 1),
                  Store(G("k_eff"), Ub("xT")), Barrier>>
           s == ChunkOPrep
<1>1. <<Load(Ub("gT"), G("g_cs"))>> = Slice(u, 0, 1)
  BY DEF Slice
<1>2. Sync("MTE2", "V", 0) = Slice(u, 1, 3)
  BY DEF Slice, Sync
<1>3. <<Vec("TEXP", Ub("eT"), <<Ub("gT")>>), BarrierV, Load(Ub("xT"), G("q"))>> = Slice(u, 3, 6)
  BY DEF Slice
<1>4. Sync("MTE2", "V", 0) = Slice(u, 6, 8)
  BY DEF Slice, Sync
<1>5. <<Vec("TMUL", Ub("xT"), <<Ub("xT"), Ub("eT")>>), BarrierV>> = Slice(u, 8, 10)
  BY DEF Slice
<1>6. Sync("V", "MTE3", 0) = Slice(u, 10, 12)
  BY DEF Slice, Sync
<1>7. <<Store(G("q_eff"), Ub("xT")), Vec("TMULS", Ub("gT"), <<Ub("gT")>>), BarrierV,
          Vec("TEXP", Ub("gT"), <<Ub("gT")>>), BarrierV>> = Slice(u, 12, 17)
  BY DEF Slice
<1>8. ReuseAfterStore = Slice(u, 17, 19)
  BY DEF Slice, ReuseAfterStore, Sync
<1>9. <<Load(Ub("xT"), G("k"))>> = Slice(u, 19, 20)
  BY DEF Slice
<1>10. Sync("MTE2", "V", 0) = Slice(u, 20, 22)
  BY DEF Slice, Sync
<1>11. <<Vec("TMUL", Ub("xT"), <<Ub("xT"), Ub("gT")>>), BarrierV>> = Slice(u, 22, 24)
  BY DEF Slice
<1>12. Sync("V", "MTE3", 1) = Slice(u, 24, 26)
  BY DEF Slice, Sync
<1>13. <<Store(G("k_eff"), Ub("xT")), Barrier>> = Slice(u, 26, 28)
  BY DEF Slice
<1>14. s = Slice(u, 0, 28)
  <2> HIDE DEF u
  <2>1. /\ Then(Slice(u, 0, 1), Slice(u, 1, 3)) = Slice(u, 0, 3)
        /\ Then(Slice(u, 0, 3), Slice(u, 3, 6)) = Slice(u, 0, 6)
        /\ Then(Slice(u, 0, 6), Slice(u, 6, 8)) = Slice(u, 0, 8)
        /\ Then(Slice(u, 0, 8), Slice(u, 8, 10)) = Slice(u, 0, 10)
        /\ Then(Slice(u, 0, 10), Slice(u, 10, 12)) = Slice(u, 0, 12)
        /\ Then(Slice(u, 0, 12), Slice(u, 12, 17)) = Slice(u, 0, 17)
        /\ Then(Slice(u, 0, 17), Slice(u, 17, 19)) = Slice(u, 0, 19)
        /\ Then(Slice(u, 0, 19), Slice(u, 19, 20)) = Slice(u, 0, 20)
        /\ Then(Slice(u, 0, 20), Slice(u, 20, 22)) = Slice(u, 0, 22)
        /\ Then(Slice(u, 0, 22), Slice(u, 22, 24)) = Slice(u, 0, 24)
        /\ Then(Slice(u, 0, 24), Slice(u, 24, 26)) = Slice(u, 0, 26)
        /\ Then(Slice(u, 0, 26), Slice(u, 26, 28)) = Slice(u, 0, 28)
    BY Slices
  <2> QED
    BY <1>1, <1>2, <1>3, <1>4, <1>5, <1>6, <1>7, <1>8, <1>9, <1>10, <1>11, <1>12, <1>13, <2>1,
       Zenon DEF Then, ChunkOPrep
<1>15. PICK n \in Nat : n = 28
  OBVIOUS
<1>16. IsList(s) /\ Len(s) = 28 /\ \A i \in 1..28 : s[i] = u[i]
  <2> HIDE DEF u, s
  <2>1. IsList(Slice(u, 0, n)) /\ Len(Slice(u, 0, n)) = n /\ \A i \in 1..n : Slice(u, 0, n)[i] = u[i]
    BY SliceAll
  <2> QED
    BY <1>14, <1>15, <2>1
<1> HIDE DEF s
<1>17. /\ Entry(s, 1, Load(Ub("gT"), G("g_cs"))) /\ Entry(s, 2, SetFlag("MTE2", "V", 0))
       /\ Entry(s, 3, WaitFlag("MTE2", "V", 0)) /\ Entry(s, 4, Vec("TEXP", Ub("eT"), <<Ub("gT")>>))
       /\ Entry(s, 5, BarrierV) /\ Entry(s, 6, Load(Ub("xT"), G("q")))
       /\ Entry(s, 7, SetFlag("MTE2", "V", 0)) /\ Entry(s, 8, WaitFlag("MTE2", "V", 0))
       /\ Entry(s, 9, Vec("TMUL", Ub("xT"), <<Ub("xT"), Ub("eT")>>)) /\ Entry(s, 10, BarrierV)
       /\ Entry(s, 11, SetFlag("V", "MTE3", 0)) /\ Entry(s, 12, WaitFlag("V", "MTE3", 0))
       /\ Entry(s, 13, Store(G("q_eff"), Ub("xT"))) /\ Entry(s, 14, Vec("TMULS", Ub("gT"), <<Ub("gT")>>))
       /\ Entry(s, 15, BarrierV) /\ Entry(s, 16, Vec("TEXP", Ub("gT"), <<Ub("gT")>>))
       /\ Entry(s, 17, BarrierV) /\ Entry(s, 18, SetFlag("MTE3", "MTE2", 0))
       /\ Entry(s, 19, WaitFlag("MTE3", "MTE2", 0)) /\ Entry(s, 20, Load(Ub("xT"), G("k")))
       /\ Entry(s, 21, SetFlag("MTE2", "V", 0)) /\ Entry(s, 22, WaitFlag("MTE2", "V", 0))
       /\ Entry(s, 23, Vec("TMUL", Ub("xT"), <<Ub("xT"), Ub("gT")>>)) /\ Entry(s, 24, BarrierV)
       /\ Entry(s, 25, SetFlag("V", "MTE3", 1)) /\ Entry(s, 26, WaitFlag("V", "MTE3", 1))
       /\ Entry(s, 27, Store(G("k_eff"), Ub("xT"))) /\ Entry(s, 28, Barrier)
  BY <1>16 DEF Entry
<1> HIDE DEF u
<1>18. /\ SetAt(s, 2, "MTE2", "V", 0) /\ WaitAt(s, 3, "MTE2", "V", 0) /\ PauseAt(s, 5)
       /\ SetAt(s, 7, "MTE2", "V", 0) /\ WaitAt(s, 8, "MTE2", "V", 0) /\ PauseAt(s, 10)
       /\ SetAt(s, 11, "V", "MTE3", 0) /\ WaitAt(s, 12, "V", "MTE3", 0) /\ PauseAt(s, 15) /\ PauseAt(s, 17)
  BY <1>16, <1>17, SyncsAre
<1>19. /\ SetAt(s, 18, "MTE3", "MTE2", 0) /\ WaitAt(s, 19, "MTE3", "MTE2", 0)
       /\ SetAt(s, 21, "MTE2", "V", 0) /\ WaitAt(s, 22, "MTE2", "V", 0) /\ PauseAt(s, 24)
       /\ SetAt(s, 25, "V", "MTE3", 1) /\ WaitAt(s, 26, "V", "MTE3", 1) /\ FenceAt(s, 28)
  BY <1>16, <1>17, SyncsAre
<1>20. /\ MoveAt(s, 1, "MTE2", "copy", <<Ub("gT")>>, <<G("g_cs")>>)
       /\ MoveAt(s, 4, "V", "TEXP", <<Ub("eT")>>, <<Ub("gT")>>)
       /\ MoveAt(s, 6, "MTE2", "copy", <<Ub("xT")>>, <<G("q")>>)
       /\ MoveAt(s, 9, "V", "TMUL", <<Ub("xT")>>, <<Ub("xT"), Ub("eT")>>)
       /\ MoveAt(s, 13, "MTE3", "copy", <<G("q_eff")>>, <<Ub("xT")>>)
       /\ MoveAt(s, 14, "V", "TMULS", <<Ub("gT")>>, <<Ub("gT")>>)
       /\ MoveAt(s, 16, "V", "TEXP", <<Ub("gT")>>, <<Ub("gT")>>)
       /\ MoveAt(s, 20, "MTE2", "copy", <<Ub("xT")>>, <<G("k")>>)
       /\ MoveAt(s, 23, "V", "TMUL", <<Ub("xT")>>, <<Ub("xT"), Ub("gT")>>)
       /\ MoveAt(s, 27, "MTE3", "copy", <<G("k_eff")>>, <<Ub("xT")>>)
  BY <1>16, <1>17, MovesAre
<1> QED
  BY <1>16, <1>18, <1>19, <1>20 DEF PrepOfOutputRows, s

PrepOfOutputCells(s) ==
  /\ \A b \in 1..28 : b \in {1, 4, 6, 9, 13, 14, 16, 20, 23, 27} \/ StillAt(s, b)
  /\ \A b \in {1, 4, 6, 9, 13, 14, 16, 20, 23, 27} : Moves(s[b])
  /\ \A b \in 1..28 : \A c : Puts(s, b, c) \/ Takes(s, b, c) => b \in {1, 4, 6, 9, 13, 14, 16, 20, 23, 27}
  /\ \A c : Puts(s, 1, c) <=> c = Ub("gT")
  /\ \A c : Puts(s, 4, c) <=> c = Ub("eT")
  /\ \A c : Puts(s, 6, c) <=> c = Ub("xT")
  /\ \A c : Puts(s, 9, c) <=> c = Ub("xT")
  /\ \A c : Puts(s, 13, c) <=> c = G("q_eff")
  /\ \A c : Puts(s, 14, c) <=> c = Ub("gT")
  /\ \A c : Puts(s, 16, c) <=> c = Ub("gT")
  /\ \A c : Puts(s, 20, c) <=> c = Ub("xT")
  /\ \A c : Puts(s, 23, c) <=> c = Ub("xT")
  /\ \A c : Puts(s, 27, c) <=> c = G("k_eff")
  /\ \A c : Takes(s, 1, c) <=> c = G("g_cs")
  /\ \A c : Takes(s, 4, c) <=> c = Ub("gT")
  /\ \A c : Takes(s, 6, c) <=> c = G("q")
  /\ \A c : Takes(s, 9, c) <=> c = Ub("xT") \/ c = Ub("eT")
  /\ \A c : Takes(s, 13, c) <=> c = Ub("xT")
  /\ \A c : Takes(s, 14, c) <=> c = Ub("gT")
  /\ \A c : Takes(s, 16, c) <=> c = Ub("gT")
  /\ \A c : Takes(s, 20, c) <=> c = G("k")
  /\ \A c : Takes(s, 23, c) <=> c = Ub("xT") \/ c = Ub("gT")
  /\ \A c : Takes(s, 27, c) <=> c = Ub("xT")

LEMMA PrepOfOutputUses == ASSUME NEW s, PrepOfOutputRows(s) PROVE PrepOfOutputCells(s)
<1>1. /\ StillAt(s, 2) /\ StillAt(s, 3) /\ StillAt(s, 5) /\ StillAt(s, 7) /\ StillAt(s, 8)
      /\ StillAt(s, 10) /\ StillAt(s, 11) /\ StillAt(s, 12) /\ StillAt(s, 15) /\ StillAt(s, 17)
      /\ StillAt(s, 18) /\ StillAt(s, 19) /\ StillAt(s, 21) /\ StillAt(s, 22) /\ StillAt(s, 24)
      /\ StillAt(s, 25) /\ StillAt(s, 26) /\ StillAt(s, 28)
  BY FlagsAreStill DEF PrepOfOutputRows
<1>2. \A b \in 1..28 : b \in {1, 4, 6, 9, 13, 14, 16, 20, 23, 27} \/ StillAt(s, b)
  BY <1>1
<1>3. \A b \in {1, 4, 6, 9, 13, 14, 16, 20, 23, 27} : Moves(s[b])
  BY DEF PrepOfOutputRows, MoveAt
<1>4. \A b \in 1..28 : \A c : Puts(s, b, c) \/ Takes(s, b, c) => b \in {1, 4, 6, 9, 13, 14, 16, 20, 23, 27}
  BY <1>2, CellsUsed
<1>5. /\ \A c : Puts(s, 1, c) <=> c = Ub("gT")
      /\ \A c : Puts(s, 4, c) <=> c = Ub("eT")
      /\ \A c : Puts(s, 6, c) <=> c = Ub("xT")
      /\ \A c : Puts(s, 9, c) <=> c = Ub("xT")
      /\ \A c : Puts(s, 13, c) <=> c = G("q_eff")
      /\ \A c : Puts(s, 14, c) <=> c = Ub("gT")
  <2>1. /\ MoveAt(s, 1, "MTE2", "copy", <<Ub("gT")>>, <<G("g_cs")>>)
        /\ MoveAt(s, 4, "V", "TEXP", <<Ub("eT")>>, <<Ub("gT")>>)
        /\ MoveAt(s, 6, "MTE2", "copy", <<Ub("xT")>>, <<G("q")>>)
        /\ MoveAt(s, 9, "V", "TMUL", <<Ub("xT")>>, <<Ub("xT"), Ub("eT")>>)
        /\ MoveAt(s, 13, "MTE3", "copy", <<G("q_eff")>>, <<Ub("xT")>>)
        /\ MoveAt(s, 14, "V", "TMULS", <<Ub("gT")>>, <<Ub("gT")>>)
    BY DEF PrepOfOutputRows
  <2> QED
    BY <2>1, CellsUsed
<1>6. /\ \A c : Puts(s, 16, c) <=> c = Ub("gT")
      /\ \A c : Puts(s, 20, c) <=> c = Ub("xT")
      /\ \A c : Puts(s, 23, c) <=> c = Ub("xT")
      /\ \A c : Puts(s, 27, c) <=> c = G("k_eff")
  <2>1. /\ MoveAt(s, 16, "V", "TEXP", <<Ub("gT")>>, <<Ub("gT")>>)
        /\ MoveAt(s, 20, "MTE2", "copy", <<Ub("xT")>>, <<G("k")>>)
        /\ MoveAt(s, 23, "V", "TMUL", <<Ub("xT")>>, <<Ub("xT"), Ub("gT")>>)
        /\ MoveAt(s, 27, "MTE3", "copy", <<G("k_eff")>>, <<Ub("xT")>>)
    BY DEF PrepOfOutputRows
  <2> QED
    BY <2>1, CellsUsed
<1>7. /\ \A c : Takes(s, 1, c) <=> c = G("g_cs")
      /\ \A c : Takes(s, 4, c) <=> c = Ub("gT")
      /\ \A c : Takes(s, 6, c) <=> c = G("q")
      /\ \A c : Takes(s, 9, c) <=> c = Ub("xT") \/ c = Ub("eT")
      /\ \A c : Takes(s, 13, c) <=> c = Ub("xT")
      /\ \A c : Takes(s, 14, c) <=> c = Ub("gT")
  <2>1. /\ MoveAt(s, 1, "MTE2", "copy", <<Ub("gT")>>, <<G("g_cs")>>)
        /\ MoveAt(s, 4, "V", "TEXP", <<Ub("eT")>>, <<Ub("gT")>>)
        /\ MoveAt(s, 6, "MTE2", "copy", <<Ub("xT")>>, <<G("q")>>)
        /\ MoveAt(s, 9, "V", "TMUL", <<Ub("xT")>>, <<Ub("xT"), Ub("eT")>>)
        /\ MoveAt(s, 13, "MTE3", "copy", <<G("q_eff")>>, <<Ub("xT")>>)
        /\ MoveAt(s, 14, "V", "TMULS", <<Ub("gT")>>, <<Ub("gT")>>)
    BY DEF PrepOfOutputRows
  <2> QED
    BY <2>1, CellsUsed
<1>8. /\ \A c : Takes(s, 16, c) <=> c = Ub("gT")
      /\ \A c : Takes(s, 20, c) <=> c = G("k")
      /\ \A c : Takes(s, 23, c) <=> c = Ub("xT") \/ c = Ub("gT")
      /\ \A c : Takes(s, 27, c) <=> c = Ub("xT")
  <2>1. /\ MoveAt(s, 16, "V", "TEXP", <<Ub("gT")>>, <<Ub("gT")>>)
        /\ MoveAt(s, 20, "MTE2", "copy", <<Ub("xT")>>, <<G("k")>>)
        /\ MoveAt(s, 23, "V", "TMUL", <<Ub("xT")>>, <<Ub("xT"), Ub("gT")>>)
        /\ MoveAt(s, 27, "MTE3", "copy", <<G("k_eff")>>, <<Ub("xT")>>)
    BY DEF PrepOfOutputRows
  <2> QED
    BY <2>1, CellsUsed
<1> QED
  BY <1>2, <1>3, <1>4, <1>5, <1>6, <1>7, <1>8 DEF PrepOfOutputCells

LEMMA PrepOfOutputTidy == ASSUME NEW s, PrepOfOutputRows(s) PROVE Sound(s) /\ Tidy(s)
<1>1. IsList(s) /\ Len(s) = 28
  BY DEF PrepOfOutputRows
<1>2. Paired(s)
  <2>1. PairedAt(s, 2) /\ PairedAt(s, 3)
    BY SyncPaired DEF PrepOfOutputRows
  <2>2. PairedAt(s, 7) /\ PairedAt(s, 8)
    BY SyncPaired DEF PrepOfOutputRows
  <2>3. PairedAt(s, 11) /\ PairedAt(s, 12)
    BY SyncPaired DEF PrepOfOutputRows
  <2>4. PairedAt(s, 18) /\ PairedAt(s, 19)
    BY SyncPaired DEF PrepOfOutputRows
  <2>5. PairedAt(s, 21) /\ PairedAt(s, 22)
    BY SyncPaired DEF PrepOfOutputRows
  <2>6. PairedAt(s, 25) /\ PairedAt(s, 26)
    BY SyncPaired DEF PrepOfOutputRows
  <2>7. /\ PairedAt(s, 1) /\ PairedAt(s, 4) /\ PairedAt(s, 5) /\ PairedAt(s, 6) /\ PairedAt(s, 9)
        /\ PairedAt(s, 10) /\ PairedAt(s, 13) /\ PairedAt(s, 14) /\ PairedAt(s, 15) /\ PairedAt(s, 16)
        /\ PairedAt(s, 17) /\ PairedAt(s, 20) /\ PairedAt(s, 23) /\ PairedAt(s, 24) /\ PairedAt(s, 27)
        /\ PairedAt(s, 28)
    BY StillPaired DEF PrepOfOutputRows
  <2> QED
    BY <1>1, <2>1, <2>2, <2>3, <2>4, <2>5, <2>6, <2>7 DEF Paired
<1>3. /\ RunsOn(s, 1, "MTE2") /\ RunsOn(s, 4, "V") /\ RunsOn(s, 6, "MTE2") /\ RunsOn(s, 9, "V")
      /\ RunsOn(s, 13, "MTE3") /\ RunsOn(s, 14, "V") /\ RunsOn(s, 16, "V") /\ RunsOn(s, 20, "MTE2")
      /\ RunsOn(s, 23, "V") /\ RunsOn(s, 27, "MTE3")
  BY MoveRuns DEF PrepOfOutputRows
<1>4. PrepOfOutputCells(s)
  BY PrepOfOutputUses
<1>5. Before(s, 1, 4)
  BY <1>3, ByFlag DEF PrepOfOutputRows
<1>6. Before(s, 1, 14)
  BY <1>3, ByFlag DEF PrepOfOutputRows
<1>7. Before(s, 1, 16)
  BY <1>3, ByFlag DEF PrepOfOutputRows
<1>8. Before(s, 1, 23)
  BY <1>3, ByFlag DEF PrepOfOutputRows
<1>9. Before(s, 4, 9)
  BY <1>3, ByPipe
<1>10. Before(s, 4, 14)
  BY <1>3, ByPipe
<1>11. Before(s, 4, 16)
  BY <1>3, ByPipe
<1>12. Before(s, 6, 9)
  BY <1>3, ByFlag DEF PrepOfOutputRows
<1>13. Before(s, 9, 13)
  BY <1>3, ByFlag DEF PrepOfOutputRows
<1>14. Before(s, 6, 13)
  BY <1>12, <1>13, ByBoth
<1>15. Before(s, 6, 20)
  BY <1>3, ByPipe
<1>16. Before(s, 6, 23)
  BY <1>3, ByFlag DEF PrepOfOutputRows
<1>17. Before(s, 9, 27)
  BY <1>3, ByFlag DEF PrepOfOutputRows
<1>18. Before(s, 6, 27)
  BY <1>12, <1>17, ByBoth
<1>19. Before(s, 13, 20)
  BY <1>3, ByFlag DEF PrepOfOutputRows
<1>20. Before(s, 9, 20)
  BY <1>13, <1>19, ByBoth
<1>21. Before(s, 9, 23)
  BY <1>3, ByPipe
<1>22. Before(s, 20, 23)
  BY <1>3, ByFlag DEF PrepOfOutputRows
<1>23. Before(s, 13, 23)
  BY <1>19, <1>22, ByBoth
<1>24. Before(s, 14, 16)
  BY <1>3, ByPipe
<1>25. Before(s, 14, 23)
  BY <1>3, ByPipe
<1>26. Before(s, 16, 23)
  BY <1>3, ByPipe
<1>27. Before(s, 23, 27)
  BY <1>3, ByFlag DEF PrepOfOutputRows
<1>28. Before(s, 20, 27)
  BY <1>22, <1>27, ByBoth
<1>29. OrderedFrom(s, 1)
  <2>1. ASSUME NEW b \in 1..28, NEW c, 1 < b, Clash(s, 1, b, c) PROVE Before(s, 1, b)
    BY <1>4, <1>5, <1>6, <1>7, <1>8, <2>1, Named DEF PrepOfOutputCells, Clash
  <2> QED
    BY <1>1, <2>1, ClashBefore
<1>30. OrderedFrom(s, 4)
  <2>1. ASSUME NEW b \in 1..28, NEW c, 4 < b, Clash(s, 4, b, c) PROVE Before(s, 4, b)
    BY <1>4, <1>9, <1>10, <1>11, <2>1, Named DEF PrepOfOutputCells, Clash
  <2> QED
    BY <1>1, <2>1, ClashBefore
<1>31. OrderedFrom(s, 6)
  <2>1. ASSUME NEW b \in 1..28, NEW c, 6 < b, Clash(s, 6, b, c) PROVE Before(s, 6, b)
    BY <1>4, <1>12, <1>14, <1>15, <1>16, <1>18, <2>1, Named DEF PrepOfOutputCells, Clash
  <2> QED
    BY <1>1, <2>1, ClashBefore
<1>32. OrderedFrom(s, 9)
  <2>1. ASSUME NEW b \in 1..28, NEW c, 9 < b, Clash(s, 9, b, c) PROVE Before(s, 9, b)
    BY <1>4, <1>13, <1>20, <1>21, <1>17, <2>1, Named DEF PrepOfOutputCells, Clash
  <2> QED
    BY <1>1, <2>1, ClashBefore
<1>33. OrderedFrom(s, 13)
  <2>1. ASSUME NEW b \in 1..28, NEW c, 13 < b, Clash(s, 13, b, c) PROVE Before(s, 13, b)
    BY <1>4, <1>19, <1>23, <2>1, Named DEF PrepOfOutputCells, Clash
  <2> QED
    BY <1>1, <2>1, ClashBefore
<1>34. OrderedFrom(s, 14)
  <2>1. ASSUME NEW b \in 1..28, NEW c, 14 < b, Clash(s, 14, b, c) PROVE Before(s, 14, b)
    BY <1>4, <1>24, <1>25, <2>1, Named DEF PrepOfOutputCells, Clash
  <2> QED
    BY <1>1, <2>1, ClashBefore
<1>35. OrderedFrom(s, 16)
  <2>1. ASSUME NEW b \in 1..28, NEW c, 16 < b, Clash(s, 16, b, c) PROVE Before(s, 16, b)
    BY <1>4, <1>26, <2>1, Named DEF PrepOfOutputCells, Clash
  <2> QED
    BY <1>1, <2>1, ClashBefore
<1>36. OrderedFrom(s, 20)
  <2>1. ASSUME NEW b \in 1..28, NEW c, 20 < b, Clash(s, 20, b, c) PROVE Before(s, 20, b)
    BY <1>4, <1>22, <1>28, <2>1, Named DEF PrepOfOutputCells, Clash
  <2> QED
    BY <1>1, <2>1, ClashBefore
<1>37. OrderedFrom(s, 23)
  <2>1. ASSUME NEW b \in 1..28, NEW c, 23 < b, Clash(s, 23, b, c) PROVE Before(s, 23, b)
    BY <1>4, <1>27, <2>1, Named DEF PrepOfOutputCells, Clash
  <2> QED
    BY <1>1, <2>1, ClashBefore
<1>38. OrderedFrom(s, 27)
  <2>1. ASSUME NEW b \in 1..28, NEW c, 27 < b, Clash(s, 27, b, c) PROVE Before(s, 27, b)
    BY <1>4, <2>1, Named DEF PrepOfOutputCells, Clash
  <2> QED
    BY <1>1, <2>1, ClashBefore
<1>39. Ordered(s)
  BY <1>1, <1>4, <1>29, <1>30, <1>31, <1>32, <1>33, <1>34, <1>35, <1>36, <1>37, <1>38,
     OrderedAll DEF PrepOfOutputCells
<1>40. Plain(s)
  BY <1>1, <1>4 DEF PrepOfOutputCells, Plain, StillAt
<1> QED
  BY <1>1, <1>2, <1>39, <1>40 DEF Sound, Tidy

PrepOfOutputMade ==
  <<G("g_cs"), Scratch, Scratch, <<"TEXP", G("g_cs")>>, Scratch, G("q"),
    Scratch, Scratch, <<"TMUL", G("q"), <<"TEXP", G("g_cs")>>>>, Scratch, Scratch, Scratch,
    <<"TMUL", G("q"), <<"TEXP", G("g_cs")>>>>, <<"TMULS", G("g_cs")>>, Scratch,
    <<"TEXP", <<"TMULS", G("g_cs")>>>>, Scratch, Scratch, Scratch, G("k"), Scratch, Scratch,
    <<"TMUL", G("k"), <<"TEXP", <<"TMULS", G("g_cs")>>>>>>, Scratch, Scratch, Scratch,
    <<"TMUL", G("k"), <<"TEXP", <<"TMULS", G("g_cs")>>>>>>, Scratch>>

LEMMA PrepOfOutputMakes ==
  ASSUME NEW s, PrepOfOutputRows(s)
  PROVE  /\ Annotated(s, PrepOfOutputMade)
         /\ Delivers(s, PrepOfOutputMade, {<<G("q_eff"), <<"TMUL", G("q"), <<"TEXP", G("g_cs")>>>>>>,
                      <<G("k_eff"), <<"TMUL", G("k"), <<"TEXP", <<"TMULS", G("g_cs")>>>>>>>>})
<1> DEFINE v == PrepOfOutputMade
<1>1. IsList(s) /\ Len(s) = 28
  BY DEF PrepOfOutputRows
<1>2. IsList(v) /\ Len(v) = 28
  <2>1. v = Slice(v, 0, 28)
    BY DEF Slice, PrepOfOutputMade
  <2>2. PICK n \in Nat : n = 28
    OBVIOUS
  <2> HIDE DEF v
  <2> QED
    BY <2>1, <2>2, ListOf
<1>3. /\ v[1] = G("g_cs") /\ v[2] = Scratch /\ v[3] = Scratch /\ v[4] = <<"TEXP", G("g_cs")>>
      /\ v[5] = Scratch /\ v[6] = G("q") /\ v[7] = Scratch /\ v[8] = Scratch
      /\ v[9] = <<"TMUL", G("q"), <<"TEXP", G("g_cs")>>>> /\ v[10] = Scratch /\ v[11] = Scratch
      /\ v[12] = Scratch /\ v[13] = <<"TMUL", G("q"), <<"TEXP", G("g_cs")>>>>
      /\ v[14] = <<"TMULS", G("g_cs")>> /\ v[15] = Scratch /\ v[16] = <<"TEXP", <<"TMULS", G("g_cs")>>>>
      /\ v[17] = Scratch /\ v[18] = Scratch /\ v[19] = Scratch /\ v[20] = G("k") /\ v[21] = Scratch
      /\ v[22] = Scratch /\ v[23] = <<"TMUL", G("k"), <<"TEXP", <<"TMULS", G("g_cs")>>>>>>
      /\ v[24] = Scratch /\ v[25] = Scratch /\ v[26] = Scratch
      /\ v[27] = <<"TMUL", G("k"), <<"TEXP", <<"TMULS", G("g_cs")>>>>>> /\ v[28] = Scratch
  <2>1. /\ v[1] = G("g_cs") /\ v[2] = Scratch /\ v[3] = Scratch /\ v[4] = <<"TEXP", G("g_cs")>>
        /\ v[5] = Scratch /\ v[6] = G("q") /\ v[7] = Scratch /\ v[8] = Scratch
        /\ v[9] = <<"TMUL", G("q"), <<"TEXP", G("g_cs")>>>> /\ v[10] = Scratch /\ v[11] = Scratch
        /\ v[12] = Scratch /\ v[13] = <<"TMUL", G("q"), <<"TEXP", G("g_cs")>>>>
        /\ v[14] = <<"TMULS", G("g_cs")>>
    BY DEF PrepOfOutputMade
  <2>2. /\ v[15] = Scratch /\ v[16] = <<"TEXP", <<"TMULS", G("g_cs")>>>> /\ v[17] = Scratch
        /\ v[18] = Scratch /\ v[19] = Scratch /\ v[20] = G("k") /\ v[21] = Scratch /\ v[22] = Scratch
        /\ v[23] = <<"TMUL", G("k"), <<"TEXP", <<"TMULS", G("g_cs")>>>>>> /\ v[24] = Scratch
        /\ v[25] = Scratch /\ v[26] = Scratch
        /\ v[27] = <<"TMUL", G("k"), <<"TEXP", <<"TMULS", G("g_cs")>>>>>> /\ v[28] = Scratch
    BY DEF PrepOfOutputMade
  <2> HIDE DEF v
  <2> QED
    BY <2>1, <2>2
<1> HIDE DEF v
<1>0. PrepOfOutputCells(s)
  BY PrepOfOutputUses
<1>4. /\ s[1].dst[1] = Ub("gT") /\ s[4].dst[1] = Ub("eT") /\ s[6].dst[1] = Ub("xT")
      /\ s[9].dst[1] = Ub("xT") /\ s[13].dst[1] = G("q_eff") /\ s[14].dst[1] = Ub("gT")
      /\ s[16].dst[1] = Ub("gT") /\ s[20].dst[1] = Ub("xT") /\ s[23].dst[1] = Ub("xT")
      /\ s[27].dst[1] = G("k_eff")
  BY DEF PrepOfOutputRows, MoveAt
<1>5. \A j \in 1..28 : Puts(s, j, Ub("gT")) => j \in {1, 14, 16}
  BY <1>0, Named DEF PrepOfOutputCells
<1>6. \A j \in 1..28 : Puts(s, j, G("g_cs")) => j \in {}
  BY <1>0, Named DEF PrepOfOutputCells
<1>7. \A j \in 1..28 : Puts(s, j, Ub("eT")) => j \in {4}
  BY <1>0, Named DEF PrepOfOutputCells
<1>8. \A j \in 1..28 : Puts(s, j, Ub("xT")) => j \in {6, 9, 20, 23}
  BY <1>0, Named DEF PrepOfOutputCells
<1>9. \A j \in 1..28 : Puts(s, j, G("q")) => j \in {}
  BY <1>0, Named DEF PrepOfOutputCells
<1>10. \A j \in 1..28 : Puts(s, j, G("q_eff")) => j \in {13}
  BY <1>0, Named DEF PrepOfOutputCells
<1>11. \A j \in 1..28 : Puts(s, j, G("k")) => j \in {}
  BY <1>0, Named DEF PrepOfOutputCells
<1>12. \A j \in 1..28 : Puts(s, j, G("k_eff")) => j \in {27}
  BY <1>0, Named DEF PrepOfOutputCells
<1>13. v[1] = Made(s, v, 1)
  <2>1. NoWrite(s, G("g_cs"), 1)
    BY <1>0, <1>1, <1>4, <1>6 DEF PrepOfOutputCells, LastWrite, NoWrite
  <2>2. Holds(s, v, G("g_cs"), 1) = G("g_cs")
    BY <2>1, HeldBy
  <2>3. Made(s, v, 1) = Holds(s, v, G("g_cs"), 1)
    BY MadeOf DEF PrepOfOutputRows
  <2> QED
    BY <1>3, <2>2, <2>3
<1>14. v[4] = Made(s, v, 4)
  <2>1. LastWrite(s, Ub("gT"), 4, 1)
    BY <1>0, <1>1, <1>4, <1>5 DEF PrepOfOutputCells, LastWrite, NoWrite
  <2>2. Holds(s, v, Ub("gT"), 4) = v[1]
    BY <2>1, HeldBy
  <2>3. Made(s, v, 4) = <<"TEXP", Holds(s, v, Ub("gT"), 4)>>
    <3>1. "TEXP" # "copy" /\ MoveAt(s, 4, "V", "TEXP", <<Ub("eT")>>, <<Ub("gT")>>)
      BY DEF PrepOfOutputRows
    <3> QED
      BY <3>1, MadeOf
  <2> QED
    BY <1>3, <2>2, <2>3
<1>15. v[6] = Made(s, v, 6)
  <2>1. NoWrite(s, G("q"), 6)
    BY <1>0, <1>1, <1>4, <1>9 DEF PrepOfOutputCells, LastWrite, NoWrite
  <2>2. Holds(s, v, G("q"), 6) = G("q")
    BY <2>1, HeldBy
  <2>3. Made(s, v, 6) = Holds(s, v, G("q"), 6)
    BY MadeOf DEF PrepOfOutputRows
  <2> QED
    BY <1>3, <2>2, <2>3
<1>16. v[9] = Made(s, v, 9)
  <2>1. LastWrite(s, Ub("xT"), 9, 6) /\ LastWrite(s, Ub("eT"), 9, 4)
    BY <1>0, <1>1, <1>4, <1>8, <1>7 DEF PrepOfOutputCells, LastWrite, NoWrite
  <2>2. Holds(s, v, Ub("xT"), 9) = v[6] /\ Holds(s, v, Ub("eT"), 9) = v[4]
    BY <2>1, HeldBy
  <2>3. Made(s, v, 9) = <<"TMUL", Holds(s, v, Ub("xT"), 9), Holds(s, v, Ub("eT"), 9)>>
    <3>1. "TMUL" # "copy" /\ MoveAt(s, 9, "V", "TMUL", <<Ub("xT")>>, <<Ub("xT"), Ub("eT")>>)
      BY DEF PrepOfOutputRows
    <3> QED
      BY <3>1, MadeOfTwo
  <2> QED
    BY <1>3, <2>2, <2>3
<1>17. v[13] = Made(s, v, 13)
  <2>1. LastWrite(s, Ub("xT"), 13, 9)
    BY <1>0, <1>1, <1>4, <1>8 DEF PrepOfOutputCells, LastWrite, NoWrite
  <2>2. Holds(s, v, Ub("xT"), 13) = v[9]
    BY <2>1, HeldBy
  <2>3. Made(s, v, 13) = Holds(s, v, Ub("xT"), 13)
    BY MadeOf DEF PrepOfOutputRows
  <2> QED
    BY <1>3, <2>2, <2>3
<1>18. v[14] = Made(s, v, 14)
  <2>1. LastWrite(s, Ub("gT"), 14, 1)
    BY <1>0, <1>1, <1>4, <1>5 DEF PrepOfOutputCells, LastWrite, NoWrite
  <2>2. Holds(s, v, Ub("gT"), 14) = v[1]
    BY <2>1, HeldBy
  <2>3. Made(s, v, 14) = <<"TMULS", Holds(s, v, Ub("gT"), 14)>>
    <3>1. "TMULS" # "copy" /\ MoveAt(s, 14, "V", "TMULS", <<Ub("gT")>>, <<Ub("gT")>>)
      BY DEF PrepOfOutputRows
    <3> QED
      BY <3>1, MadeOf
  <2> QED
    BY <1>3, <2>2, <2>3
<1>19. v[16] = Made(s, v, 16)
  <2>1. LastWrite(s, Ub("gT"), 16, 14)
    BY <1>0, <1>1, <1>4, <1>5 DEF PrepOfOutputCells, LastWrite, NoWrite
  <2>2. Holds(s, v, Ub("gT"), 16) = v[14]
    BY <2>1, HeldBy
  <2>3. Made(s, v, 16) = <<"TEXP", Holds(s, v, Ub("gT"), 16)>>
    <3>1. "TEXP" # "copy" /\ MoveAt(s, 16, "V", "TEXP", <<Ub("gT")>>, <<Ub("gT")>>)
      BY DEF PrepOfOutputRows
    <3> QED
      BY <3>1, MadeOf
  <2> QED
    BY <1>3, <2>2, <2>3
<1>20. v[20] = Made(s, v, 20)
  <2>1. NoWrite(s, G("k"), 20)
    BY <1>0, <1>1, <1>4, <1>11 DEF PrepOfOutputCells, LastWrite, NoWrite
  <2>2. Holds(s, v, G("k"), 20) = G("k")
    BY <2>1, HeldBy
  <2>3. Made(s, v, 20) = Holds(s, v, G("k"), 20)
    BY MadeOf DEF PrepOfOutputRows
  <2> QED
    BY <1>3, <2>2, <2>3
<1>21. v[23] = Made(s, v, 23)
  <2>1. LastWrite(s, Ub("xT"), 23, 20) /\ LastWrite(s, Ub("gT"), 23, 16)
    BY <1>0, <1>1, <1>4, <1>8, <1>5 DEF PrepOfOutputCells, LastWrite, NoWrite
  <2>2. Holds(s, v, Ub("xT"), 23) = v[20] /\ Holds(s, v, Ub("gT"), 23) = v[16]
    BY <2>1, HeldBy
  <2>3. Made(s, v, 23) = <<"TMUL", Holds(s, v, Ub("xT"), 23), Holds(s, v, Ub("gT"), 23)>>
    <3>1. "TMUL" # "copy" /\ MoveAt(s, 23, "V", "TMUL", <<Ub("xT")>>, <<Ub("xT"), Ub("gT")>>)
      BY DEF PrepOfOutputRows
    <3> QED
      BY <3>1, MadeOfTwo
  <2> QED
    BY <1>3, <2>2, <2>3
<1>22. v[27] = Made(s, v, 27)
  <2>1. LastWrite(s, Ub("xT"), 27, 23)
    BY <1>0, <1>1, <1>4, <1>8 DEF PrepOfOutputCells, LastWrite, NoWrite
  <2>2. Holds(s, v, Ub("xT"), 27) = v[23]
    BY <2>1, HeldBy
  <2>3. Made(s, v, 27) = Holds(s, v, Ub("xT"), 27)
    BY MadeOf DEF PrepOfOutputRows
  <2> QED
    BY <1>3, <2>2, <2>3
<1>23. /\ v[2] = Made(s, v, 2) /\ v[3] = Made(s, v, 3) /\ v[5] = Made(s, v, 5) /\ v[7] = Made(s, v, 7)
      /\ v[8] = Made(s, v, 8) /\ v[10] = Made(s, v, 10) /\ v[11] = Made(s, v, 11)
      /\ v[12] = Made(s, v, 12) /\ v[15] = Made(s, v, 15) /\ v[17] = Made(s, v, 17)
      /\ v[18] = Made(s, v, 18) /\ v[19] = Made(s, v, 19) /\ v[21] = Made(s, v, 21)
      /\ v[22] = Made(s, v, 22) /\ v[24] = Made(s, v, 24) /\ v[25] = Made(s, v, 25)
      /\ v[26] = Made(s, v, 26) /\ v[28] = Made(s, v, 28)
  <2>1. /\ StillAt(s, 2) /\ StillAt(s, 3) /\ StillAt(s, 5) /\ StillAt(s, 7) /\ StillAt(s, 8)
        /\ StillAt(s, 10) /\ StillAt(s, 11) /\ StillAt(s, 12) /\ StillAt(s, 15) /\ StillAt(s, 17)
        /\ StillAt(s, 18) /\ StillAt(s, 19) /\ StillAt(s, 21) /\ StillAt(s, 22) /\ StillAt(s, 24)
        /\ StillAt(s, 25) /\ StillAt(s, 26) /\ StillAt(s, 28)
    BY FlagsAreStill DEF PrepOfOutputRows
  <2> QED
    BY <1>3, <2>1, MadeStill
<1>24. Annotated(s, v)
  BY <1>1, <1>2, <1>13, <1>14, <1>15, <1>16, <1>17, <1>18, <1>19, <1>20, <1>21, <1>22, <1>23
     DEF Annotated
<1>25. Writers(s, G("q_eff")) # {} /\ Contents(s, v, G("q_eff"), Writers(s, G("q_eff"))) = v[13]
  <2>1. Leaves(s, G("q_eff"), 13)
    BY <1>0, <1>1, <1>4, <1>10 DEF PrepOfOutputCells, Leaves, LastWrite
  <2> QED
    BY <2>1, LeftBy
<1>26. Writers(s, G("k_eff")) # {} /\ Contents(s, v, G("k_eff"), Writers(s, G("k_eff"))) = v[27]
  <2>1. Leaves(s, G("k_eff"), 27)
    BY <1>0, <1>1, <1>4, <1>12 DEF PrepOfOutputCells, Leaves, LastWrite
  <2> QED
    BY <2>1, LeftBy
<1> QED
  BY <1>3, <1>24, <1>25, <1>26 DEF Delivers, v

\* chunk_o_elt; an op of the vector unit is not a copy
ElementwiseRows(s, op) ==
  /\ IsList(s) /\ Len(s) = 10 /\ MoveAt(s, 1, "MTE2", "copy", <<Ub("aT")>>, <<G("a")>>)
  /\ MoveAt(s, 2, "MTE2", "copy", <<Ub("bT")>>, <<G("b")>>) /\ SetAt(s, 3, "MTE2", "V", 0)
  /\ WaitAt(s, 4, "MTE2", "V", 0) /\ MoveAt(s, 5, "V", op, <<Ub("aT")>>, <<Ub("aT"), Ub("bT")>>)
  /\ PauseAt(s, 6) /\ SetAt(s, 7, "V", "MTE3", 0) /\ WaitAt(s, 8, "V", "MTE3", 0)
  /\ MoveAt(s, 9, "MTE3", "copy", <<G("out")>>, <<Ub("aT")>>) /\ FenceAt(s, 10)

LEMMA ElementwiseIs == ASSUME NEW op PROVE ElementwiseRows(ChunkOElt(op), op)
<1> DEFINE u == <<Load(Ub("aT"), G("a")), Load(Ub("bT"), G("b")), SetFlag("MTE2", "V", 0),
                  WaitFlag("MTE2", "V", 0), Vec(op, Ub("aT"), <<Ub("aT"), Ub("bT")>>),
                  BarrierV, SetFlag("V", "MTE3", 0), WaitFlag("V", "MTE3", 0),
                  Store(G("out"), Ub("aT")), Barrier>>
           s == ChunkOElt(op)
<1>1. <<Load(Ub("aT"), G("a")), Load(Ub("bT"), G("b"))>> = Slice(u, 0, 2)
  BY DEF Slice
<1>2. Sync("MTE2", "V", 0) = Slice(u, 2, 4)
  BY DEF Slice, Sync
<1>3. <<Vec(op, Ub("aT"), <<Ub("aT"), Ub("bT")>>), BarrierV>> = Slice(u, 4, 6)
  BY DEF Slice
<1>4. Sync("V", "MTE3", 0) = Slice(u, 6, 8)
  BY DEF Slice, Sync
<1>5. <<Store(G("out"), Ub("aT")), Barrier>> = Slice(u, 8, 10)
  BY DEF Slice
<1>6. s = Slice(u, 0, 10)
  <2> HIDE DEF u
  <2>1. /\ Then(Slice(u, 0, 2), Slice(u, 2, 4)) = Slice(u, 0, 4)
        /\ Then(Slice(u, 0, 4), Slice(u, 4, 6)) = Slice(u, 0, 6)
        /\ Then(Slice(u, 0, 6), Slice(u, 6, 8)) = Slice(u, 0, 8)
        /\ Then(Slice(u, 0, 8), Slice(u, 8, 10)) = Slice(u, 0, 10)
    BY Slices
  <2> QED
    BY <1>1, <1>2, <1>3, <1>4, <1>5, <2>1, Zenon DEF Then, ChunkOElt
<1>7. PICK n \in Nat : n = 10
  OBVIOUS
<1>8. IsList(s) /\ Len(s) = 10 /\ \A i \in 1..10 : s[i] = u[i]
  <2> HIDE DEF u, s
  <2>1. IsList(Slice(u, 0, n)) /\ Len(Slice(u, 0, n)) = n /\ \A i \in 1..n : Slice(u, 0, n)[i] = u[i]
    BY SliceAll
  <2> QED
    BY <1>6, <1>7, <2>1
<1> HIDE DEF s
<1>9. /\ Entry(s, 1, Load(Ub("aT"), G("a"))) /\ Entry(s, 2, Load(Ub("bT"), G("b")))
      /\ Entry(s, 3, SetFlag("MTE2", "V", 0)) /\ Entry(s, 4, WaitFlag("MTE2", "V", 0))
      /\ Entry(s, 5, Vec(op, Ub("aT"), <<Ub("aT"), Ub("bT")>>)) /\ Entry(s, 6, BarrierV)
      /\ Entry(s, 7, SetFlag("V", "MTE3", 0)) /\ Entry(s, 8, WaitFlag("V", "MTE3", 0))
      /\ Entry(s, 9, Store(G("out"), Ub("aT"))) /\ Entry(s, 10, Barrier)
  BY <1>8 DEF Entry
<1> HIDE DEF u
<1>10. /\ SetAt(s, 3, "MTE2", "V", 0) /\ WaitAt(s, 4, "MTE2", "V", 0) /\ PauseAt(s, 6)
       /\ SetAt(s, 7, "V", "MTE3", 0) /\ WaitAt(s, 8, "V", "MTE3", 0) /\ FenceAt(s, 10)
  BY <1>8, <1>9, SyncsAre
<1>11. /\ MoveAt(s, 1, "MTE2", "copy", <<Ub("aT")>>, <<G("a")>>)
       /\ MoveAt(s, 2, "MTE2", "copy", <<Ub("bT")>>, <<G("b")>>)
       /\ MoveAt(s, 5, "V", op, <<Ub("aT")>>, <<Ub("aT"), Ub("bT")>>)
       /\ MoveAt(s, 9, "MTE3", "copy", <<G("out")>>, <<Ub("aT")>>)
  BY <1>8, <1>9, MovesAre
<1> QED
  BY <1>8, <1>10, <1>11 DEF ElementwiseRows, s

ElementwiseCells(s, op) ==
  /\ \A b \in 1..10 : b \in {1, 2, 5, 9} \/ StillAt(s, b)
  /\ \A b \in {1, 2, 5, 9} : Moves(s[b])
  /\ \A b \in 1..10 : \A c : Puts(s, b, c) \/ Takes(s, b, c) => b \in {1, 2, 5, 9}
  /\ \A c : Puts(s, 1, c) <=> c = Ub("aT")
  /\ \A c : Puts(s, 2, c) <=> c = Ub("bT")
  /\ \A c : Puts(s, 5, c) <=> c = Ub("aT")
  /\ \A c : Puts(s, 9, c) <=> c = G("out")
  /\ \A c : Takes(s, 1, c) <=> c = G("a")
  /\ \A c : Takes(s, 2, c) <=> c = G("b")
  /\ \A c : Takes(s, 5, c) <=> c = Ub("aT") \/ c = Ub("bT")
  /\ \A c : Takes(s, 9, c) <=> c = Ub("aT")

LEMMA ElementwiseUses == ASSUME NEW s, NEW op, ElementwiseRows(s, op) PROVE ElementwiseCells(s, op)
<1>1. /\ StillAt(s, 3) /\ StillAt(s, 4) /\ StillAt(s, 6) /\ StillAt(s, 7) /\ StillAt(s, 8)
      /\ StillAt(s, 10)
  BY FlagsAreStill DEF ElementwiseRows
<1>2. \A b \in 1..10 : b \in {1, 2, 5, 9} \/ StillAt(s, b)
  BY <1>1
<1>3. \A b \in {1, 2, 5, 9} : Moves(s[b])
  BY DEF ElementwiseRows, MoveAt
<1>4. \A b \in 1..10 : \A c : Puts(s, b, c) \/ Takes(s, b, c) => b \in {1, 2, 5, 9}
  BY <1>2, CellsUsed
<1>5. /\ \A c : Puts(s, 1, c) <=> c = Ub("aT")
      /\ \A c : Puts(s, 2, c) <=> c = Ub("bT")
      /\ \A c : Puts(s, 5, c) <=> c = Ub("aT")
      /\ \A c : Puts(s, 9, c) <=> c = G("out")
  <2>1. /\ MoveAt(s, 1, "MTE2", "copy", <<Ub("aT")>>, <<G("a")>>)
        /\ MoveAt(s, 2, "MTE2", "copy", <<Ub("bT")>>, <<G("b")>>)
        /\ MoveAt(s, 5, "V", op, <<Ub("aT")>>, <<Ub("aT"), Ub("bT")>>)
        /\ MoveAt(s, 9, "MTE3", "copy", <<G("out")>>, <<Ub("aT")>>)
    BY DEF ElementwiseRows
  <2> QED
    BY <2>1, CellsUsed
<1>6. /\ \A c : Takes(s, 1, c) <=> c = G("a")
      /\ \A c : Takes(s, 2, c) <=> c = G("b")
      /\ \A c : Takes(s, 5, c) <=> c = Ub("aT") \/ c = Ub("bT")
      /\ \A c : Takes(s, 9, c) <=> c = Ub("aT")
  <2>1. /\ MoveAt(s, 1, "MTE2", "copy", <<Ub("aT")>>, <<G("a")>>)
        /\ MoveAt(s, 2, "MTE2", "copy", <<Ub("bT")>>, <<G("b")>>)
        /\ MoveAt(s, 5, "V", op, <<Ub("aT")>>, <<Ub("aT"), Ub("bT")>>)
        /\ MoveAt(s, 9, "MTE3", "copy", <<G("out")>>, <<Ub("aT")>>)
    BY DEF ElementwiseRows
  <2> QED
    BY <2>1, CellsUsed
<1> QED
  BY <1>2, <1>3, <1>4, <1>5, <1>6 DEF ElementwiseCells

LEMMA ElementwiseTidy == ASSUME NEW s, NEW op, ElementwiseRows(s, op) PROVE Sound(s) /\ Tidy(s)
<1>1. IsList(s) /\ Len(s) = 10
  BY DEF ElementwiseRows
<1>2. Paired(s)
  <2>1. PairedAt(s, 3) /\ PairedAt(s, 4)
    BY SyncPaired DEF ElementwiseRows
  <2>2. PairedAt(s, 7) /\ PairedAt(s, 8)
    BY SyncPaired DEF ElementwiseRows
  <2>3. /\ PairedAt(s, 1) /\ PairedAt(s, 2) /\ PairedAt(s, 5) /\ PairedAt(s, 6) /\ PairedAt(s, 9)
        /\ PairedAt(s, 10)
    BY StillPaired DEF ElementwiseRows
  <2> QED
    BY <1>1, <2>1, <2>2, <2>3 DEF Paired
<1>3. /\ RunsOn(s, 1, "MTE2") /\ RunsOn(s, 2, "MTE2") /\ RunsOn(s, 5, "V") /\ RunsOn(s, 9, "MTE3")
  BY MoveRuns DEF ElementwiseRows
<1>4. ElementwiseCells(s, op)
  BY ElementwiseUses
<1>5. Before(s, 1, 5)
  BY <1>3, ByFlag DEF ElementwiseRows
<1>6. Before(s, 1, 2)
  BY <1>3, ByPipe
<1>7. Before(s, 2, 5)
  BY <1>3, ByFlag DEF ElementwiseRows
<1>8. Before(s, 5, 9)
  BY <1>3, ByFlag DEF ElementwiseRows
<1>9. Before(s, 2, 9)
  BY <1>7, <1>8, ByBoth
<1>10. Before(s, 1, 9)
  BY <1>6, <1>9, ByBoth
<1>11. OrderedFrom(s, 1)
  <2>1. ASSUME NEW b \in 1..10, NEW c, 1 < b, Clash(s, 1, b, c) PROVE Before(s, 1, b)
    BY <1>4, <1>6, <1>5, <1>10, <2>1, Named DEF ElementwiseCells, Clash
  <2> QED
    BY <1>1, <2>1, ClashBefore
<1>12. OrderedFrom(s, 2)
  <2>1. ASSUME NEW b \in 1..10, NEW c, 2 < b, Clash(s, 2, b, c) PROVE Before(s, 2, b)
    BY <1>4, <1>7, <1>9, <2>1, Named DEF ElementwiseCells, Clash
  <2> QED
    BY <1>1, <2>1, ClashBefore
<1>13. OrderedFrom(s, 5)
  <2>1. ASSUME NEW b \in 1..10, NEW c, 5 < b, Clash(s, 5, b, c) PROVE Before(s, 5, b)
    BY <1>4, <1>8, <2>1, Named DEF ElementwiseCells, Clash
  <2> QED
    BY <1>1, <2>1, ClashBefore
<1>14. OrderedFrom(s, 9)
  <2>1. ASSUME NEW b \in 1..10, NEW c, 9 < b, Clash(s, 9, b, c) PROVE Before(s, 9, b)
    BY <1>4, <2>1, Named DEF ElementwiseCells, Clash
  <2> QED
    BY <1>1, <2>1, ClashBefore
<1>15. Ordered(s)
  BY <1>1, <1>4, <1>11, <1>12, <1>13, <1>14, OrderedAll DEF ElementwiseCells
<1>16. Plain(s)
  BY <1>1, <1>4 DEF ElementwiseCells, Plain, StillAt
<1> QED
  BY <1>1, <1>2, <1>15, <1>16 DEF Sound, Tidy

ElementwiseMade(op) ==
  <<G("a"), G("b"), Scratch, Scratch, <<op, G("a"), G("b")>>, Scratch,
    Scratch, Scratch, <<op, G("a"), G("b")>>, Scratch>>

LEMMA ElementwiseMakes ==
  ASSUME NEW s, NEW op, ElementwiseRows(s, op), op # "copy"
  PROVE  /\ Annotated(s, ElementwiseMade(op))
         /\ Delivers(s, ElementwiseMade(op), {<<G("out"), <<op, G("a"), G("b")>>>>})
<1> DEFINE v == ElementwiseMade(op)
<1>1. IsList(s) /\ Len(s) = 10
  BY DEF ElementwiseRows
<1>2. IsList(v) /\ Len(v) = 10
  <2>1. v = Slice(v, 0, 10)
    BY DEF Slice, ElementwiseMade
  <2>2. PICK n \in Nat : n = 10
    OBVIOUS
  <2> HIDE DEF v
  <2> QED
    BY <2>1, <2>2, ListOf
<1>3. /\ v[1] = G("a") /\ v[2] = G("b") /\ v[3] = Scratch /\ v[4] = Scratch
      /\ v[5] = <<op, G("a"), G("b")>> /\ v[6] = Scratch /\ v[7] = Scratch /\ v[8] = Scratch
      /\ v[9] = <<op, G("a"), G("b")>> /\ v[10] = Scratch
  BY DEF ElementwiseMade
<1> HIDE DEF v
<1>0. ElementwiseCells(s, op)
  BY ElementwiseUses
<1>4. /\ s[1].dst[1] = Ub("aT") /\ s[2].dst[1] = Ub("bT") /\ s[5].dst[1] = Ub("aT")
      /\ s[9].dst[1] = G("out")
  BY DEF ElementwiseRows, MoveAt
<1>5. \A j \in 1..10 : Puts(s, j, Ub("aT")) => j \in {1, 5}
  BY <1>0, Named DEF ElementwiseCells
<1>6. \A j \in 1..10 : Puts(s, j, G("a")) => j \in {}
  BY <1>0, Named DEF ElementwiseCells
<1>7. \A j \in 1..10 : Puts(s, j, Ub("bT")) => j \in {2}
  BY <1>0, Named DEF ElementwiseCells
<1>8. \A j \in 1..10 : Puts(s, j, G("b")) => j \in {}
  BY <1>0, Named DEF ElementwiseCells
<1>9. \A j \in 1..10 : Puts(s, j, G("out")) => j \in {9}
  BY <1>0, Named DEF ElementwiseCells
<1>10. v[1] = Made(s, v, 1)
  <2>1. NoWrite(s, G("a"), 1)
    BY <1>0, <1>1, <1>4, <1>6 DEF ElementwiseCells, LastWrite, NoWrite
  <2>2. Holds(s, v, G("a"), 1) = G("a")
    BY <2>1, HeldBy
  <2>3. Made(s, v, 1) = Holds(s, v, G("a"), 1)
    BY MadeOf DEF ElementwiseRows
  <2> QED
    BY <1>3, <2>2, <2>3
<1>11. v[2] = Made(s, v, 2)
  <2>1. NoWrite(s, G("b"), 2)
    BY <1>0, <1>1, <1>4, <1>8 DEF ElementwiseCells, LastWrite, NoWrite
  <2>2. Holds(s, v, G("b"), 2) = G("b")
    BY <2>1, HeldBy
  <2>3. Made(s, v, 2) = Holds(s, v, G("b"), 2)
    BY MadeOf DEF ElementwiseRows
  <2> QED
    BY <1>3, <2>2, <2>3
<1>12. v[5] = Made(s, v, 5)
  <2>1. LastWrite(s, Ub("aT"), 5, 1) /\ LastWrite(s, Ub("bT"), 5, 2)
    BY <1>0, <1>1, <1>4, <1>5, <1>7 DEF ElementwiseCells, LastWrite, NoWrite
  <2>2. Holds(s, v, Ub("aT"), 5) = v[1] /\ Holds(s, v, Ub("bT"), 5) = v[2]
    BY <2>1, HeldBy
  <2>3. Made(s, v, 5) = <<op, Holds(s, v, Ub("aT"), 5), Holds(s, v, Ub("bT"), 5)>>
    <3>1. op # "copy" /\ MoveAt(s, 5, "V", op, <<Ub("aT")>>, <<Ub("aT"), Ub("bT")>>)
      BY DEF ElementwiseRows
    <3> QED
      BY <3>1, MadeOfTwo
  <2> QED
    BY <1>3, <2>2, <2>3
<1>13. v[9] = Made(s, v, 9)
  <2>1. LastWrite(s, Ub("aT"), 9, 5)
    BY <1>0, <1>1, <1>4, <1>5 DEF ElementwiseCells, LastWrite, NoWrite
  <2>2. Holds(s, v, Ub("aT"), 9) = v[5]
    BY <2>1, HeldBy
  <2>3. Made(s, v, 9) = Holds(s, v, Ub("aT"), 9)
    BY MadeOf DEF ElementwiseRows
  <2> QED
    BY <1>3, <2>2, <2>3
<1>14. /\ v[3] = Made(s, v, 3) /\ v[4] = Made(s, v, 4) /\ v[6] = Made(s, v, 6) /\ v[7] = Made(s, v, 7)
      /\ v[8] = Made(s, v, 8) /\ v[10] = Made(s, v, 10)
  <2>1. /\ StillAt(s, 3) /\ StillAt(s, 4) /\ StillAt(s, 6) /\ StillAt(s, 7) /\ StillAt(s, 8)
        /\ StillAt(s, 10)
    BY FlagsAreStill DEF ElementwiseRows
  <2> QED
    BY <1>3, <2>1, MadeStill
<1>15. Annotated(s, v)
  BY <1>1, <1>2, <1>10, <1>11, <1>12, <1>13, <1>14 DEF Annotated
<1>16. Writers(s, G("out")) # {} /\ Contents(s, v, G("out"), Writers(s, G("out"))) = v[9]
  <2>1. Leaves(s, G("out"), 9)
    BY <1>0, <1>1, <1>4, <1>9 DEF ElementwiseCells, Leaves, LastWrite
  <2> QED
    BY <2>1, LeftBy
<1> QED
  BY <1>3, <1>15, <1>16 DEF Delivers, v

\* matmul
ProductRows(s, mode) ==
  /\ IsList(s) /\ Len(s) = 15 /\ MoveAt(s, 1, "MTE2", "copy", <<Ub("aMat")>>, <<G("a")>>)
  /\ MoveAt(s, 2, "MTE2", "copy", <<Ub("bMat")>>, <<G("b")>>) /\ SetAt(s, 3, "MTE2", "MTE1", 1)
  /\ WaitAt(s, 4, "MTE2", "MTE1", 1) /\ SetAt(s, 5, "M", "MTE1", 1) /\ WaitAt(s, 6, "M", "MTE1", 1)
  /\ MoveAt(s, 7, "MTE1", (IF mode = "TN" THEN "transpose" ELSE "copy"), <<Ub("l0a")>>, <<Ub("aMat")>>)
  /\ MoveAt(s, 8, "MTE1", (IF mode = "NT" THEN "transpose" ELSE "copy"), <<Ub("l0b")>>, <<Ub("bMat")>>)
  /\ SetAt(s, 9, "MTE1", "M", 1) /\ WaitAt(s, 10, "MTE1", "M", 1)
  /\ MoveAt(s, 11, "M", "TMATMUL", <<Ub("cTile")>>, <<Ub("l0a"), Ub("l0b")>>)
  /\ SetAt(s, 12, "M", "FIX", 1) /\ WaitAt(s, 13, "M", "FIX", 1)
  /\ MoveAt(s, 14, "FIX", "copy", <<G("c")>>, <<Ub("cTile")>>) /\ FenceAt(s, 15)

LEMMA ProductIs == ASSUME NEW mode PROVE ProductRows(MatMul(mode), mode)
<1> DEFINE u == <<Load(Ub("aMat"), G("a")), Load(Ub("bMat"), G("b")),
                  SetFlag("MTE2", "MTE1", 1), WaitFlag("MTE2", "MTE1", 1),
                  SetFlag("M", "MTE1", 1), WaitFlag("M", "MTE1", 1),
                  Op("MTE1", IF mode = "TN" THEN "transpose" ELSE "copy", <<Ub("l0a")>>, <<Ub("aMat")>>),
                  Op("MTE1", IF mode = "NT" THEN "transpose" ELSE "copy", <<Ub("l0b")>>, <<Ub("bMat")>>),
                  SetFlag("MTE1", "M", 1), WaitFlag("MTE1", "M", 1),
                  Op("M", "TMATMUL", <<Ub("cTile")>>, <<Ub("l0a"), Ub("l0b")>>),
                  SetFlag("M", "FIX", 1), WaitFlag("M", "FIX", 1),
                  Op("FIX", "copy", <<G("c")>>, <<Ub("cTile")>>), Barrier>>
           s == MatMul(mode)
<1>1. <<Load(Ub("aMat"), G("a")), Load(Ub("bMat"), G("b"))>> = Slice(u, 0, 2)
  BY DEF Slice
<1>2. Sync("MTE2", "MTE1", 1) = Slice(u, 2, 4)
  BY DEF Slice, Sync
<1>3. Sync("M", "MTE1", 1) = Slice(u, 4, 6)
  BY DEF Slice, Sync
<1>4. <<Extract("l0a", "aMat", mode = "TN"), Extract("l0b", "bMat", mode = "NT")>> = Slice(u, 6, 8)
  BY DEF Slice, Extract
<1>5. Sync("MTE1", "M", 1) = Slice(u, 8, 10)
  BY DEF Slice, Sync
<1>6. <<Op("M", "TMATMUL", <<Ub("cTile")>>, <<Ub("l0a"), Ub("l0b")>>)>> = Slice(u, 10, 11)
  BY DEF Slice
<1>7. Sync("M", "FIX", 1) = Slice(u, 11, 13)
  BY DEF Slice, Sync
<1>8. <<Op("FIX", "copy", <<G("c")>>, <<Ub("cTile")>>), Barrier>> = Slice(u, 13, 15)
  BY DEF Slice
<1>9. s = Slice(u, 0, 15)
  <2> HIDE DEF u
  <2>1. /\ Then(Slice(u, 0, 2), Slice(u, 2, 4)) = Slice(u, 0, 4)
        /\ Then(Slice(u, 0, 4), Slice(u, 4, 6)) = Slice(u, 0, 6)
        /\ Then(Slice(u, 0, 6), Slice(u, 6, 8)) = Slice(u, 0, 8)
        /\ Then(Slice(u, 0, 8), Slice(u, 8, 10)) = Slice(u, 0, 10)
        /\ Then(Slice(u, 0, 10), Slice(u, 10, 11)) = Slice(u, 0, 11)
        /\ Then(Slice(u, 0, 11), Slice(u, 11, 13)) = Slice(u, 0, 13)
        /\ Then(Slice(u, 0, 13), Slice(u, 13, 15)) = Slice(u, 0, 15)
    BY Slices
  <2> QED
    BY <1>1, <1>2, <1>3, <1>4, <1>5, <1>6, <1>7, <1>8, <2>1, Zenon DEF Then, MatMul
<1>10. PICK n \in Nat : n = 15
  OBVIOUS
<1>11. IsList(s) /\ Len(s) = 15 /\ \A i \in 1..15 : s[i] = u[i]
  <2> HIDE DEF u, s
  <2>1. IsList(Slice(u, 0, n)) /\ Len(Slice(u, 0, n)) = n /\ \A i \in 1..n : Slice(u, 0, n)[i] = u[i]
    BY SliceAll
  <2> QED
    BY <1>9, <1>10, <2>1
<1> HIDE DEF s
<1>12. /\ Entry(s, 1, Load(Ub("aMat"), G("a"))) /\ Entry(s, 2, Load(Ub("bMat"), G("b")))
       /\ Entry(s, 3, SetFlag("MTE2", "MTE1", 1)) /\ Entry(s, 4, WaitFlag("MTE2", "MTE1", 1))
       /\ Entry(s, 5, SetFlag("M", "MTE1", 1)) /\ Entry(s, 6, WaitFlag("M", "MTE1", 1))
       /\ Entry(s, 7, Op("MTE1", IF mode = "TN" THEN "transpose" ELSE "copy", <<Ub("l0a")>>, <<Ub("aMat")>>))
       /\ Entry(s, 8, Op("MTE1", IF mode = "NT" THEN "transpose" ELSE "copy", <<Ub("l0b")>>, <<Ub("bMat")>>))
       /\ Entry(s, 9, SetFlag("MTE1", "M", 1)) /\ Entry(s, 10, WaitFlag("MTE1", "M", 1))
       /\ Entry(s, 11, Op("M", "TMATMUL", <<Ub("cTile")>>, <<Ub("l0a"), Ub("l0b")>>))
       /\ Entry(s, 12, SetFlag("M", "FIX", 1)) /\ Entry(s, 13, WaitFlag("M", "FIX", 1))
       /\ Entry(s, 14, Op("FIX", "copy", <<G("c")>>, <<Ub("cTile")>>)) /\ Entry(s, 15, Barrier)
  BY <1>11 DEF Entry
<1> HIDE DEF u
<1>13. /\ SetAt(s, 3, "MTE2", "MTE1", 1) /\ WaitAt(s, 4, "MTE2", "MTE1", 1) /\ SetAt(s, 5, "M", "MTE1", 1)
       /\ WaitAt(s, 6, "M", "MTE1", 1) /\ SetAt(s, 9, "MTE1", "M", 1) /\ WaitAt(s, 10, "MTE1", "M", 1)
       /\ SetAt(s, 12, "M", "FIX", 1) /\ WaitAt(s, 13, "M", "FIX", 1) /\ FenceAt(s, 15)
  BY <1>11, <1>12, SyncsAre
<1>14. /\ MoveAt(s, 1, "MTE2", "copy", <<Ub("aMat")>>, <<G("a")>>)
       /\ MoveAt(s, 2, "MTE2", "copy", <<Ub("bMat")>>, <<G("b")>>)
       /\ MoveAt(s, 7, "MTE1", (IF mode = "TN" THEN "transpose" ELSE "copy"), <<Ub("l0a")>>, <<Ub("aMat")>>)
       /\ MoveAt(s, 8, "MTE1", (IF mode = "NT" THEN "transpose" ELSE "copy"), <<Ub("l0b")>>, <<Ub("bMat")>>)
       /\ MoveAt(s, 11, "M", "TMATMUL", <<Ub("cTile")>>, <<Ub("l0a"), Ub("l0b")>>)
       /\ MoveAt(s, 14, "FIX", "copy", <<G("c")>>, <<Ub("cTile")>>)
  BY <1>11, <1>12, MovesAre
<1> QED
  BY <1>11, <1>13, <1>14 DEF ProductRows, s

ProductCells(s, mode) ==
  /\ \A b \in 1..15 : b \in {1, 2, 7, 8, 11, 14} \/ StillAt(s, b)
  /\ \A b \in {1, 2, 7, 8, 11, 14} : Moves(s[b])
  /\ \A b \in 1..15 : \A c : Puts(s, b, c) \/ Takes(s, b, c) => b \in {1, 2, 7, 8, 11, 14}
  /\ \A c : Puts(s, 1, c) <=> c = Ub("aMat")
  /\ \A c : Puts(s, 2, c) <=> c = Ub("bMat")
  /\ \A c : Puts(s, 7, c) <=> c = Ub("l0a")
  /\ \A c : Puts(s, 8, c) <=> c = Ub("l0b")
  /\ \A c : Puts(s, 11, c) <=> c = Ub("cTile")
  /\ \A c : Puts(s, 14, c) <=> c = G("c")
  /\ \A c : Takes(s, 1, c) <=> c = G("a")
  /\ \A c : Takes(s, 2, c) <=> c = G("b")
  /\ \A c : Takes(s, 7, c) <=> c = Ub("aMat")
  /\ \A c : Takes(s, 8, c) <=> c = Ub("bMat")
  /\ \A c : Takes(s, 11, c) <=> c = Ub("l0a") \/ c = Ub("l0b")
  /\ \A c : Takes(s, 14, c) <=> c = Ub("cTile")

LEMMA ProductUses == ASSUME NEW s, NEW mode, ProductRows(s, mode) PROVE ProductCells(s, mode)
<1>1. /\ StillAt(s, 3) /\ StillAt(s, 4) /\ StillAt(s, 5) /\ StillAt(s, 6) /\ StillAt(s, 9)
      /\ StillAt(s, 10) /\ StillAt(s, 12) /\ StillAt(s, 13) /\ StillAt(s, 15)
  BY FlagsAreStill DEF ProductRows
<1>2. \A b \in 1..15 : b \in {1, 2, 7, 8, 11, 14} \/ StillAt(s, b)
  BY <1>1
<1>3. \A b \in {1, 2, 7, 8, 11, 14} : Moves(s[b])
  BY DEF ProductRows, MoveAt
<1>4. \A b \in 1..15 : \A c : Puts(s, b, c) \/ Takes(s, b, c) => b \in {1, 2, 7, 8, 11, 14}
  BY <1>2, CellsUsed
<1>5. /\ \A c : Puts(s, 1, c) <=> c = Ub("aMat")
      /\ \A c : Puts(s, 2, c) <=> c = Ub("bMat")
      /\ \A c : Puts(s, 7, c) <=> c = Ub("l0a")
      /\ \A c : Puts(s, 8, c) <=> c = Ub("l0b")
      /\ \A c : Puts(s, 11, c) <=> c = Ub("cTile")
      /\ \A c : Puts(s, 14, c) <=> c = G("c")
  <2>1. /\ MoveAt(s, 1, "MTE2", "copy", <<Ub("aMat")>>, <<G("a")>>)
        /\ MoveAt(s, 2, "MTE2", "copy", <<Ub("bMat")>>, <<G("b")>>)
        /\ MoveAt(s, 7, "MTE1", (IF mode = "TN" THEN "transpose" ELSE "copy"), <<Ub("l0a")>>, <<Ub("aMat")>>)
        /\ MoveAt(s, 8, "MTE1", (IF mode = "NT" THEN "transpose" ELSE "copy"), <<Ub("l0b")>>, <<Ub("bMat")>>)
        /\ MoveAt(s, 11, "M", "TMATMUL", <<Ub("cTile")>>, <<Ub("l0a"), Ub("l0b")>>)
        /\ MoveAt(s, 14, "FIX", "copy", <<G("c")>>, <<Ub("cTile")>>)
    BY DEF ProductRows
  <2> QED
    BY <2>1, CellsUsed
<1>6. /\ \A c : Takes(s, 1, c) <=> c = G("a")
      /\ \A c : Takes(s, 2, c) <=> c = G("b")
      /\ \A c : Takes(s, 7, c) <=> c = Ub("aMat")
      /\ \A c : Takes(s, 8, c) <=> c = Ub("bMat")
      /\ \A c : Takes(s, 11, c) <=> c = Ub("l0a") \/ c = Ub("l0b")
      /\ \A c : Takes(s, 14, c) <=> c = Ub("cTile")
  <2>1. /\ MoveAt(s, 1, "MTE2", "copy", <<Ub("aMat")>>, <<G("a")>>)
        /\ MoveAt(s, 2, "MTE2", "copy", <<Ub("bMat")>>, <<G("b")>>)
        /\ MoveAt(s, 7, "MTE1", (IF mode = "TN" THEN "transpose" ELSE "copy"), <<Ub("l0a")>>, <<Ub("aMat")>>)
        /\ MoveAt(s, 8, "MTE1", (IF mode = "NT" THEN "transpose" ELSE "copy"), <<Ub("l0b")>>, <<Ub("bMat")>>)
        /\ MoveAt(s, 11, "M", "TMATMUL", <<Ub("cTile")>>, <<Ub("l0a"), Ub("l0b")>>)
        /\ MoveAt(s, 14, "FIX", "copy", <<G("c")>>, <<Ub("cTile")>>)
    BY DEF ProductRows
  <2> QED
    BY <2>1, CellsUsed
<1> QED
  BY <1>2, <1>3, <1>4, <1>5, <1>6 DEF ProductCells

LEMMA ProductTidy == ASSUME NEW s, NEW mode, ProductRows(s, mode) PROVE Sound(s) /\ Tidy(s)
<1>1. IsList(s) /\ Len(s) = 15
  BY DEF ProductRows
<1>2. Paired(s)
  <2>1. PairedAt(s, 3) /\ PairedAt(s, 4)
    BY SyncPaired DEF ProductRows
  <2>2. PairedAt(s, 5) /\ PairedAt(s, 6)
    BY SyncPaired DEF ProductRows
  <2>3. PairedAt(s, 9) /\ PairedAt(s, 10)
    BY SyncPaired DEF ProductRows
  <2>4. PairedAt(s, 12) /\ PairedAt(s, 13)
    BY SyncPaired DEF ProductRows
  <2>5. /\ PairedAt(s, 1) /\ PairedAt(s, 2) /\ PairedAt(s, 7) /\ PairedAt(s, 8) /\ PairedAt(s, 11)
        /\ PairedAt(s, 14) /\ PairedAt(s, 15)
    BY StillPaired DEF ProductRows
  <2> QED
    BY <1>1, <2>1, <2>2, <2>3, <2>4, <2>5 DEF Paired
<1>3. /\ RunsOn(s, 1, "MTE2") /\ RunsOn(s, 2, "MTE2") /\ RunsOn(s, 7, "MTE1") /\ RunsOn(s, 8, "MTE1")
      /\ RunsOn(s, 11, "M") /\ RunsOn(s, 14, "FIX")
  BY MoveRuns DEF ProductRows
<1>4. ProductCells(s, mode)
  BY ProductUses
<1>5. Before(s, 1, 7)
  BY <1>3, ByFlag DEF ProductRows
<1>6. Before(s, 2, 8)
  BY <1>3, ByFlag DEF ProductRows
<1>7. Before(s, 7, 11)
  BY <1>3, ByFlag DEF ProductRows
<1>8. Before(s, 8, 11)
  BY <1>3, ByFlag DEF ProductRows
<1>9. Before(s, 11, 14)
  BY <1>3, ByFlag DEF ProductRows
<1>10. OrderedFrom(s, 1)
  <2>1. ASSUME NEW b \in 1..15, NEW c, 1 < b, Clash(s, 1, b, c) PROVE Before(s, 1, b)
    BY <1>4, <1>5, <2>1, Named DEF ProductCells, Clash
  <2> QED
    BY <1>1, <2>1, ClashBefore
<1>11. OrderedFrom(s, 2)
  <2>1. ASSUME NEW b \in 1..15, NEW c, 2 < b, Clash(s, 2, b, c) PROVE Before(s, 2, b)
    BY <1>4, <1>6, <2>1, Named DEF ProductCells, Clash
  <2> QED
    BY <1>1, <2>1, ClashBefore
<1>12. OrderedFrom(s, 7)
  <2>1. ASSUME NEW b \in 1..15, NEW c, 7 < b, Clash(s, 7, b, c) PROVE Before(s, 7, b)
    BY <1>4, <1>7, <2>1, Named DEF ProductCells, Clash
  <2> QED
    BY <1>1, <2>1, ClashBefore
<1>13. OrderedFrom(s, 8)
  <2>1. ASSUME NEW b \in 1..15, NEW c, 8 < b, Clash(s, 8, b, c) PROVE Before(s, 8, b)
    BY <1>4, <1>8, <2>1, Named DEF ProductCells, Clash
  <2> QED
    BY <1>1, <2>1, ClashBefore
<1>14. OrderedFrom(s, 11)
  <2>1. ASSUME NEW b \in 1..15, NEW c, 11 < b, Clash(s, 11, b, c) PROVE Before(s, 11, b)
    BY <1>4, <1>9, <2>1, Named DEF ProductCells, Clash
  <2> QED
    BY <1>1, <2>1, ClashBefore
<1>15. OrderedFrom(s, 14)
  <2>1. ASSUME NEW b \in 1..15, NEW c, 14 < b, Clash(s, 14, b, c) PROVE Before(s, 14, b)
    BY <1>4, <2>1, Named DEF ProductCells, Clash
  <2> QED
    BY <1>1, <2>1, ClashBefore
<1>16. Ordered(s)
  BY <1>1, <1>4, <1>10, <1>11, <1>12, <1>13, <1>14, <1>15, OrderedAll DEF ProductCells
<1>17. Plain(s)
  BY <1>1, <1>4 DEF ProductCells, Plain, StillAt
<1> QED
  BY <1>1, <1>2, <1>16, <1>17 DEF Sound, Tidy

ProductMade(mode) ==
  <<G("a"), G("b"), Scratch, Scratch, Scratch, Scratch, Left(mode),
    Right(mode), Scratch, Scratch, <<"TMATMUL", Left(mode), Right(mode)>>, Scratch, Scratch,
    <<"TMATMUL", Left(mode), Right(mode)>>, Scratch>>

LEMMA ProductMakes ==
  ASSUME NEW s, NEW mode, ProductRows(s, mode)
  PROVE  /\ Annotated(s, ProductMade(mode))
         /\ Delivers(s, ProductMade(mode), {<<G("c"), <<"TMATMUL", Left(mode), Right(mode)>>>>})
<1> DEFINE v == ProductMade(mode)
<1>1. IsList(s) /\ Len(s) = 15
  BY DEF ProductRows
<1>2. IsList(v) /\ Len(v) = 15
  <2>1. v = Slice(v, 0, 15)
    BY DEF Slice, ProductMade
  <2>2. PICK n \in Nat : n = 15
    OBVIOUS
  <2> HIDE DEF v
  <2> QED
    BY <2>1, <2>2, ListOf
<1>3. /\ v[1] = G("a") /\ v[2] = G("b") /\ v[3] = Scratch /\ v[4] = Scratch /\ v[5] = Scratch
      /\ v[6] = Scratch /\ v[7] = Left(mode) /\ v[8] = Right(mode) /\ v[9] = Scratch /\ v[10] = Scratch
      /\ v[11] = <<"TMATMUL", Left(mode), Right(mode)>> /\ v[12] = Scratch /\ v[13] = Scratch
      /\ v[14] = <<"TMATMUL", Left(mode), Right(mode)>> /\ v[15] = Scratch
  BY DEF ProductMade
<1> HIDE DEF v
<1>0. ProductCells(s, mode)
  BY ProductUses
<1>4. /\ s[1].dst[1] = Ub("aMat") /\ s[2].dst[1] = Ub("bMat") /\ s[7].dst[1] = Ub("l0a")
      /\ s[8].dst[1] = Ub("l0b") /\ s[11].dst[1] = Ub("cTile") /\ s[14].dst[1] = G("c")
  BY DEF ProductRows, MoveAt
<1>5. \A j \in 1..15 : Puts(s, j, Ub("aMat")) => j \in {1}
  BY <1>0, Named DEF ProductCells
<1>6. \A j \in 1..15 : Puts(s, j, G("a")) => j \in {}
  BY <1>0, Named DEF ProductCells
<1>7. \A j \in 1..15 : Puts(s, j, Ub("bMat")) => j \in {2}
  BY <1>0, Named DEF ProductCells
<1>8. \A j \in 1..15 : Puts(s, j, G("b")) => j \in {}
  BY <1>0, Named DEF ProductCells
<1>9. \A j \in 1..15 : Puts(s, j, Ub("l0a")) => j \in {7}
  BY <1>0, Named DEF ProductCells
<1>10. \A j \in 1..15 : Puts(s, j, Ub("l0b")) => j \in {8}
  BY <1>0, Named DEF ProductCells
<1>11. \A j \in 1..15 : Puts(s, j, Ub("cTile")) => j \in {11}
  BY <1>0, Named DEF ProductCells
<1>12. \A j \in 1..15 : Puts(s, j, G("c")) => j \in {14}
  BY <1>0, Named DEF ProductCells
<1>13. v[1] = Made(s, v, 1)
  <2>1. NoWrite(s, G("a"), 1)
    BY <1>0, <1>1, <1>4, <1>6 DEF ProductCells, LastWrite, NoWrite
  <2>2. Holds(s, v, G("a"), 1) = G("a")
    BY <2>1, HeldBy
  <2>3. Made(s, v, 1) = Holds(s, v, G("a"), 1)
    BY MadeOf DEF ProductRows
  <2> QED
    BY <1>3, <2>2, <2>3
<1>14. v[2] = Made(s, v, 2)
  <2>1. NoWrite(s, G("b"), 2)
    BY <1>0, <1>1, <1>4, <1>8 DEF ProductCells, LastWrite, NoWrite
  <2>2. Holds(s, v, G("b"), 2) = G("b")
    BY <2>1, HeldBy
  <2>3. Made(s, v, 2) = Holds(s, v, G("b"), 2)
    BY MadeOf DEF ProductRows
  <2> QED
    BY <1>3, <2>2, <2>3
<1>15. v[7] = Made(s, v, 7)
  <2>1. LastWrite(s, Ub("aMat"), 7, 1)
    BY <1>0, <1>1, <1>4, <1>5 DEF ProductCells, LastWrite, NoWrite
  <2>2. Holds(s, v, Ub("aMat"), 7) = v[1]
    BY <2>1, HeldBy
  <2>3. Made(s, v, 7) = IF mode = "TN" THEN <<"transpose", Holds(s, v, Ub("aMat"), 7)>> ELSE Holds(s, v,
            Ub("aMat"), 7)
    <3>1. "transpose" # "copy" /\ MoveAt(s, 7, "MTE1", (IF mode = "TN" THEN "transpose" ELSE "copy"),
              <<Ub("l0a")>>, <<Ub("aMat")>>)
      BY DEF ProductRows
    <3> QED
      BY <3>1, MadeOf
  <2> QED
    BY <1>3, <2>2, <2>3 DEF Left
<1>16. v[8] = Made(s, v, 8)
  <2>1. LastWrite(s, Ub("bMat"), 8, 2)
    BY <1>0, <1>1, <1>4, <1>7 DEF ProductCells, LastWrite, NoWrite
  <2>2. Holds(s, v, Ub("bMat"), 8) = v[2]
    BY <2>1, HeldBy
  <2>3. Made(s, v, 8) = IF mode = "NT" THEN <<"transpose", Holds(s, v, Ub("bMat"), 8)>> ELSE Holds(s, v,
            Ub("bMat"), 8)
    <3>1. "transpose" # "copy" /\ MoveAt(s, 8, "MTE1", (IF mode = "NT" THEN "transpose" ELSE "copy"),
              <<Ub("l0b")>>, <<Ub("bMat")>>)
      BY DEF ProductRows
    <3> QED
      BY <3>1, MadeOf
  <2> QED
    BY <1>3, <2>2, <2>3 DEF Right
<1>17. v[11] = Made(s, v, 11)
  <2>1. LastWrite(s, Ub("l0a"), 11, 7) /\ LastWrite(s, Ub("l0b"), 11, 8)
    BY <1>0, <1>1, <1>4, <1>9, <1>10 DEF ProductCells, LastWrite, NoWrite
  <2>2. Holds(s, v, Ub("l0a"), 11) = v[7] /\ Holds(s, v, Ub("l0b"), 11) = v[8]
    BY <2>1, HeldBy
  <2>3. Made(s, v, 11) = <<"TMATMUL", Holds(s, v, Ub("l0a"), 11), Holds(s, v, Ub("l0b"), 11)>>
    <3>1. "TMATMUL" # "copy" /\ MoveAt(s, 11, "M", "TMATMUL", <<Ub("cTile")>>, <<Ub("l0a"), Ub("l0b")>>)
      BY DEF ProductRows
    <3> QED
      BY <3>1, MadeOfTwo
  <2> QED
    BY <1>3, <2>2, <2>3
<1>18. v[14] = Made(s, v, 14)
  <2>1. LastWrite(s, Ub("cTile"), 14, 11)
    BY <1>0, <1>1, <1>4, <1>11 DEF ProductCells, LastWrite, NoWrite
  <2>2. Holds(s, v, Ub("cTile"), 14) = v[11]
    BY <2>1, HeldBy
  <2>3. Made(s, v, 14) = Holds(s, v, Ub("cTile"), 14)
    BY MadeOf DEF ProductRows
  <2> QED
    BY <1>3, <2>2, <2>3
<1>19. /\ v[3] = Made(s, v, 3) /\ v[4] = Made(s, v, 4) /\ v[5] = Made(s, v, 5) /\ v[6] = Made(s, v, 6)
      /\ v[9] = Made(s, v, 9) /\ v[10] = Made(s, v, 10) /\ v[12] = Made(s, v, 12)
      /\ v[13] = Made(s, v, 13) /\ v[15] = Made(s, v, 15)
  <2>1. /\ StillAt(s, 3) /\ StillAt(s, 4) /\ StillAt(s, 5) /\ StillAt(s, 6) /\ StillAt(s, 9)
        /\ StillAt(s, 10) /\ StillAt(s, 12) /\ StillAt(s, 13) /\ StillAt(s, 15)
    BY FlagsAreStill DEF ProductRows
  <2> QED
    BY <1>3, <2>1, MadeStill
<1>20. Annotated(s, v)
  BY <1>1, <1>2, <1>13, <1>14, <1>15, <1>16, <1>17, <1>18, <1>19 DEF Annotated
<1>21. Writers(s, G("c")) # {} /\ Contents(s, v, G("c"), Writers(s, G("c"))) = v[14]
  <2>1. Leaves(s, G("c"), 14)
    BY <1>0, <1>1, <1>4, <1>12 DEF ProductCells, Leaves, LastWrite
  <2> QED
    BY <2>1, LeftBy
<1> QED
  BY <1>3, <1>20, <1>21 DEF Delivers, v

\* gate_cumsum
CumsumRows(s) ==
  /\ IsList(s) /\ Len(s) = 13 /\ MoveAt(s, 1, "MTE2", "copy", <<Ub("aMat")>>, <<G("tril")>>)
  /\ MoveAt(s, 2, "MTE2", "copy", <<Ub("bMat")>>, <<G("g")>>) /\ SetAt(s, 3, "MTE2", "MTE1", 0)
  /\ WaitAt(s, 4, "MTE2", "MTE1", 0) /\ MoveAt(s, 5, "MTE1", "copy", <<Ub("l0a")>>, <<Ub("aMat")>>)
  /\ MoveAt(s, 6, "MTE1", "copy", <<Ub("l0b")>>, <<Ub("bMat")>>) /\ SetAt(s, 7, "MTE1", "M", 0)
  /\ WaitAt(s, 8, "MTE1", "M", 0)
  /\ MoveAt(s, 9, "M", "TMATMUL", <<Ub("cTile")>>, <<Ub("l0a"), Ub("l0b")>>)
  /\ SetAt(s, 10, "M", "FIX", 0) /\ WaitAt(s, 11, "M", "FIX", 0)
  /\ MoveAt(s, 12, "FIX", "copy", <<G("g_cs")>>, <<Ub("cTile")>>) /\ FenceAt(s, 13)

LEMMA CumsumIs == CumsumRows(GateCumsum)
<1> DEFINE u == <<Load(Ub("aMat"), G("tril")), Load(Ub("bMat"), G("g")),
                  SetFlag("MTE2", "MTE1", 0), WaitFlag("MTE2", "MTE1", 0),
                  Op("MTE1", "copy", <<Ub("l0a")>>, <<Ub("aMat")>>),
                  Op("MTE1", "copy", <<Ub("l0b")>>, <<Ub("bMat")>>), SetFlag("MTE1", "M", 0),
                  WaitFlag("MTE1", "M", 0),
                  Op("M", "TMATMUL", <<Ub("cTile")>>, <<Ub("l0a"), Ub("l0b")>>),
                  SetFlag("M", "FIX", 0), WaitFlag("M", "FIX", 0),
                  Op("FIX", "copy", <<G("g_cs")>>, <<Ub("cTile")>>), Barrier>>
           s == GateCumsum
<1>1. <<Load(Ub("aMat"), G("tril")), Load(Ub("bMat"), G("g"))>> = Slice(u, 0, 2)
  BY DEF Slice
<1>2. Sync("MTE2", "MTE1", 0) = Slice(u, 2, 4)
  BY DEF Slice, Sync
<1>3. <<Extract("l0a", "aMat", FALSE), Extract("l0b", "bMat", FALSE)>> = Slice(u, 4, 6)
  BY DEF Slice, Extract
<1>4. Sync("MTE1", "M", 0) = Slice(u, 6, 8)
  BY DEF Slice, Sync
<1>5. <<Op("M", "TMATMUL", <<Ub("cTile")>>, <<Ub("l0a"), Ub("l0b")>>)>> = Slice(u, 8, 9)
  BY DEF Slice
<1>6. Sync("M", "FIX", 0) = Slice(u, 9, 11)
  BY DEF Slice, Sync
<1>7. <<Op("FIX", "copy", <<G("g_cs")>>, <<Ub("cTile")>>), Barrier>> = Slice(u, 11, 13)
  BY DEF Slice
<1>8. s = Slice(u, 0, 13)
  <2> HIDE DEF u
  <2>1. /\ Then(Slice(u, 0, 2), Slice(u, 2, 4)) = Slice(u, 0, 4)
        /\ Then(Slice(u, 0, 4), Slice(u, 4, 6)) = Slice(u, 0, 6)
        /\ Then(Slice(u, 0, 6), Slice(u, 6, 8)) = Slice(u, 0, 8)
        /\ Then(Slice(u, 0, 8), Slice(u, 8, 9)) = Slice(u, 0, 9)
        /\ Then(Slice(u, 0, 9), Slice(u, 9, 11)) = Slice(u, 0, 11)
        /\ Then(Slice(u, 0, 11), Slice(u, 11, 13)) = Slice(u, 0, 13)
    BY Slices
  <2> QED
    BY <1>1, <1>2, <1>3, <1>4, <1>5, <1>6, <1>7, <2>1, Zenon DEF Then, GateCumsum
<1>9. PICK n \in Nat : n = 13
  OBVIOUS
<1>10. IsList(s) /\ Len(s) = 13 /\ \A i \in 1..13 : s[i] = u[i]
  <2> HIDE DEF u, s
  <2>1. IsList(Slice(u, 0, n)) /\ Len(Slice(u, 0, n)) = n /\ \A i \in 1..n : Slice(u, 0, n)[i] = u[i]
    BY SliceAll
  <2> QED
    BY <1>8, <1>9, <2>1
<1> HIDE DEF s
<1>11. /\ Entry(s, 1, Load(Ub("aMat"), G("tril"))) /\ Entry(s, 2, Load(Ub("bMat"), G("g")))
       /\ Entry(s, 3, SetFlag("MTE2", "MTE1", 0)) /\ Entry(s, 4, WaitFlag("MTE2", "MTE1", 0))
       /\ Entry(s, 5, Op("MTE1", "copy", <<Ub("l0a")>>, <<Ub("aMat")>>))
       /\ Entry(s, 6, Op("MTE1", "copy", <<Ub("l0b")>>, <<Ub("bMat")>>))
       /\ Entry(s, 7, SetFlag("MTE1", "M", 0)) /\ Entry(s, 8, WaitFlag("MTE1", "M", 0))
       /\ Entry(s, 9, Op("M", "TMATMUL", <<Ub("cTile")>>, <<Ub("l0a"), Ub("l0b")>>))
       /\ Entry(s, 10, SetFlag("M", "FIX", 0)) /\ Entry(s, 11, WaitFlag("M", "FIX", 0))
       /\ Entry(s, 12, Op("FIX", "copy", <<G("g_cs")>>, <<Ub("cTile")>>)) /\ Entry(s, 13, Barrier)
  BY <1>10 DEF Entry
<1> HIDE DEF u
<1>12. /\ SetAt(s, 3, "MTE2", "MTE1", 0) /\ WaitAt(s, 4, "MTE2", "MTE1", 0) /\ SetAt(s, 7, "MTE1", "M", 0)
       /\ WaitAt(s, 8, "MTE1", "M", 0) /\ SetAt(s, 10, "M", "FIX", 0) /\ WaitAt(s, 11, "M", "FIX", 0)
       /\ FenceAt(s, 13)
  BY <1>10, <1>11, SyncsAre
<1>13. /\ MoveAt(s, 1, "MTE2", "copy", <<Ub("aMat")>>, <<G("tril")>>)
       /\ MoveAt(s, 2, "MTE2", "copy", <<Ub("bMat")>>, <<G("g")>>)
       /\ MoveAt(s, 5, "MTE1", "copy", <<Ub("l0a")>>, <<Ub("aMat")>>)
       /\ MoveAt(s, 6, "MTE1", "copy", <<Ub("l0b")>>, <<Ub("bMat")>>)
       /\ MoveAt(s, 9, "M", "TMATMUL", <<Ub("cTile")>>, <<Ub("l0a"), Ub("l0b")>>)
       /\ MoveAt(s, 12, "FIX", "copy", <<G("g_cs")>>, <<Ub("cTile")>>)
  BY <1>10, <1>11, MovesAre
<1> QED
  BY <1>10, <1>12, <1>13 DEF CumsumRows, s

CumsumCells(s) ==
  /\ \A b \in 1..13 : b \in {1, 2, 5, 6, 9, 12} \/ StillAt(s, b)
  /\ \A b \in {1, 2, 5, 6, 9, 12} : Moves(s[b])
  /\ \A b \in 1..13 : \A c : Puts(s, b, c) \/ Takes(s, b, c) => b \in {1, 2, 5, 6, 9, 12}
  /\ \A c : Puts(s, 1, c) <=> c = Ub("aMat")
  /\ \A c : Puts(s, 2, c) <=> c = Ub("bMat")
  /\ \A c : Puts(s, 5, c) <=> c = Ub("l0a")
  /\ \A c : Puts(s, 6, c) <=> c = Ub("l0b")
  /\ \A c : Puts(s, 9, c) <=> c = Ub("cTile")
  /\ \A c : Puts(s, 12, c) <=> c = G("g_cs")
  /\ \A c : Takes(s, 1, c) <=> c = G("tril")
  /\ \A c : Takes(s, 2, c) <=> c = G("g")
  /\ \A c : Takes(s, 5, c) <=> c = Ub("aMat")
  /\ \A c : Takes(s, 6, c) <=> c = Ub("bMat")
  /\ \A c : Takes(s, 9, c) <=> c = Ub("l0a") \/ c = Ub("l0b")
  /\ \A c : Takes(s, 12, c) <=> c = Ub("cTile")

LEMMA CumsumUses == ASSUME NEW s, CumsumRows(s) PROVE CumsumCells(s)
<1>1. /\ StillAt(s, 3) /\ StillAt(s, 4) /\ StillAt(s, 7) /\ StillAt(s, 8) /\ StillAt(s, 10)
      /\ StillAt(s, 11) /\ StillAt(s, 13)
  BY FlagsAreStill DEF CumsumRows
<1>2. \A b \in 1..13 : b \in {1, 2, 5, 6, 9, 12} \/ StillAt(s, b)
  BY <1>1
<1>3. \A b \in {1, 2, 5, 6, 9, 12} : Moves(s[b])
  BY DEF CumsumRows, MoveAt
<1>4. \A b \in 1..13 : \A c : Puts(s, b, c) \/ Takes(s, b, c) => b \in {1, 2, 5, 6, 9, 12}
  BY <1>2, CellsUsed
<1>5. /\ \A c : Puts(s, 1, c) <=> c = Ub("aMat")
      /\ \A c : Puts(s, 2, c) <=> c = Ub("bMat")
      /\ \A c : Puts(s, 5, c) <=> c = Ub("l0a")
      /\ \A c : Puts(s, 6, c) <=> c = Ub("l0b")
      /\ \A c : Puts(s, 9, c) <=> c = Ub("cTile")
      /\ \A c : Puts(s, 12, c) <=> c = G("g_cs")
  <2>1. /\ MoveAt(s, 1, "MTE2", "copy", <<Ub("aMat")>>, <<G("tril")>>)
        /\ MoveAt(s, 2, "MTE2", "copy", <<Ub("bMat")>>, <<G("g")>>)
        /\ MoveAt(s, 5, "MTE1", "copy", <<Ub("l0a")>>, <<Ub("aMat")>>)
        /\ MoveAt(s, 6, "MTE1", "copy", <<Ub("l0b")>>, <<Ub("bMat")>>)
        /\ MoveAt(s, 9, "M", "TMATMUL", <<Ub("cTile")>>, <<Ub("l0a"), Ub("l0b")>>)
        /\ MoveAt(s, 12, "FIX", "copy", <<G("g_cs")>>, <<Ub("cTile")>>)
    BY DEF CumsumRows
  <2> QED
    BY <2>1, CellsUsed
<1>6. /\ \A c : Takes(s, 1, c) <=> c = G("tril")
      /\ \A c : Takes(s, 2, c) <=> c = G("g")
      /\ \A c : Takes(s, 5, c) <=> c = Ub("aMat")
      /\ \A c : Takes(s, 6, c) <=> c = Ub("bMat")
      /\ \A c : Takes(s, 9, c) <=> c = Ub("l0a") \/ c = Ub("l0b")
      /\ \A c : Takes(s, 12, c) <=> c = Ub("cTile")
  <2>1. /\ MoveAt(s, 1, "MTE2", "copy", <<Ub("aMat")>>, <<G("tril")>>)
        /\ MoveAt(s, 2, "MTE2", "copy", <<Ub("bMat")>>, <<G("g")>>)
        /\ MoveAt(s, 5, "MTE1", "copy", <<Ub("l0a")>>, <<Ub("aMat")>>)
        /\ MoveAt(s, 6, "MTE1", "copy", <<Ub("l0b")>>, <<Ub("bMat")>>)
        /\ MoveAt(s, 9, "M", "TMATMUL", <<Ub("cTile")>>, <<Ub("l0a"), Ub("l0b")>>)
        /\ MoveAt(s, 12, "FIX", "copy", <<G("g_cs")>>, <<Ub("cTile")>>)
    BY DEF CumsumRows
  <2> QED
    BY <2>1, CellsUsed
<1> QED
  BY <1>2, <1>3, <1>4, <1>5, <1>6 DEF CumsumCells

LEMMA CumsumTidy == ASSUME NEW s, CumsumRows(s) PROVE Sound(s) /\ Tidy(s)
<1>1. IsList(s) /\ Len(s) = 13
  BY DEF CumsumRows
<1>2. Paired(s)
  <2>1. PairedAt(s, 3) /\ PairedAt(s, 4)
    BY SyncPaired DEF CumsumRows
  <2>2. PairedAt(s, 7) /\ PairedAt(s, 8)
    BY SyncPaired DEF CumsumRows
  <2>3. PairedAt(s, 10) /\ PairedAt(s, 11)
    BY SyncPaired DEF CumsumRows
  <2>4. /\ PairedAt(s, 1) /\ PairedAt(s, 2) /\ PairedAt(s, 5) /\ PairedAt(s, 6) /\ PairedAt(s, 9)
        /\ PairedAt(s, 12) /\ PairedAt(s, 13)
    BY StillPaired DEF CumsumRows
  <2> QED
    BY <1>1, <2>1, <2>2, <2>3, <2>4 DEF Paired
<1>3. /\ RunsOn(s, 1, "MTE2") /\ RunsOn(s, 2, "MTE2") /\ RunsOn(s, 5, "MTE1") /\ RunsOn(s, 6, "MTE1")
      /\ RunsOn(s, 9, "M") /\ RunsOn(s, 12, "FIX")
  BY MoveRuns DEF CumsumRows
<1>4. CumsumCells(s)
  BY CumsumUses
<1>5. Before(s, 1, 5)
  BY <1>3, ByFlag DEF CumsumRows
<1>6. Before(s, 2, 6)
  BY <1>3, ByFlag DEF CumsumRows
<1>7. Before(s, 5, 9)
  BY <1>3, ByFlag DEF CumsumRows
<1>8. Before(s, 6, 9)
  BY <1>3, ByFlag DEF CumsumRows
<1>9. Before(s, 9, 12)
  BY <1>3, ByFlag DEF CumsumRows
<1>10. OrderedFrom(s, 1)
  <2>1. ASSUME NEW b \in 1..13, NEW c, 1 < b, Clash(s, 1, b, c) PROVE Before(s, 1, b)
    BY <1>4, <1>5, <2>1, Named DEF CumsumCells, Clash
  <2> QED
    BY <1>1, <2>1, ClashBefore
<1>11. OrderedFrom(s, 2)
  <2>1. ASSUME NEW b \in 1..13, NEW c, 2 < b, Clash(s, 2, b, c) PROVE Before(s, 2, b)
    BY <1>4, <1>6, <2>1, Named DEF CumsumCells, Clash
  <2> QED
    BY <1>1, <2>1, ClashBefore
<1>12. OrderedFrom(s, 5)
  <2>1. ASSUME NEW b \in 1..13, NEW c, 5 < b, Clash(s, 5, b, c) PROVE Before(s, 5, b)
    BY <1>4, <1>7, <2>1, Named DEF CumsumCells, Clash
  <2> QED
    BY <1>1, <2>1, ClashBefore
<1>13. OrderedFrom(s, 6)
  <2>1. ASSUME NEW b \in 1..13, NEW c, 6 < b, Clash(s, 6, b, c) PROVE Before(s, 6, b)
    BY <1>4, <1>8, <2>1, Named DEF CumsumCells, Clash
  <2> QED
    BY <1>1, <2>1, ClashBefore
<1>14. OrderedFrom(s, 9)
  <2>1. ASSUME NEW b \in 1..13, NEW c, 9 < b, Clash(s, 9, b, c) PROVE Before(s, 9, b)
    BY <1>4, <1>9, <2>1, Named DEF CumsumCells, Clash
  <2> QED
    BY <1>1, <2>1, ClashBefore
<1>15. OrderedFrom(s, 12)
  <2>1. ASSUME NEW b \in 1..13, NEW c, 12 < b, Clash(s, 12, b, c) PROVE Before(s, 12, b)
    BY <1>4, <2>1, Named DEF CumsumCells, Clash
  <2> QED
    BY <1>1, <2>1, ClashBefore
<1>16. Ordered(s)
  BY <1>1, <1>4, <1>10, <1>11, <1>12, <1>13, <1>14, <1>15, OrderedAll DEF CumsumCells
<1>17. Plain(s)
  BY <1>1, <1>4 DEF CumsumCells, Plain, StillAt
<1> QED
  BY <1>1, <1>2, <1>16, <1>17 DEF Sound, Tidy

CumsumMade ==
  <<G("tril"), G("g"), Scratch, Scratch, G("tril"), G("g"), Scratch, Scratch,
    <<"TMATMUL", G("tril"), G("g")>>, Scratch, Scratch, <<"TMATMUL", G("tril"), G("g")>>,
    Scratch>>

LEMMA CumsumMakes ==
  ASSUME NEW s, CumsumRows(s)
  PROVE  /\ Annotated(s, CumsumMade)
         /\ Delivers(s, CumsumMade, {<<G("g_cs"), <<"TMATMUL", G("tril"), G("g")>>>>})
<1> DEFINE v == CumsumMade
<1>1. IsList(s) /\ Len(s) = 13
  BY DEF CumsumRows
<1>2. IsList(v) /\ Len(v) = 13
  <2>1. v = Slice(v, 0, 13)
    BY DEF Slice, CumsumMade
  <2>2. PICK n \in Nat : n = 13
    OBVIOUS
  <2> HIDE DEF v
  <2> QED
    BY <2>1, <2>2, ListOf
<1>3. /\ v[1] = G("tril") /\ v[2] = G("g") /\ v[3] = Scratch /\ v[4] = Scratch /\ v[5] = G("tril")
      /\ v[6] = G("g") /\ v[7] = Scratch /\ v[8] = Scratch /\ v[9] = <<"TMATMUL", G("tril"), G("g")>>
      /\ v[10] = Scratch /\ v[11] = Scratch /\ v[12] = <<"TMATMUL", G("tril"), G("g")>> /\ v[13] = Scratch
  BY DEF CumsumMade
<1> HIDE DEF v
<1>0. CumsumCells(s)
  BY CumsumUses
<1>4. /\ s[1].dst[1] = Ub("aMat") /\ s[2].dst[1] = Ub("bMat") /\ s[5].dst[1] = Ub("l0a")
      /\ s[6].dst[1] = Ub("l0b") /\ s[9].dst[1] = Ub("cTile") /\ s[12].dst[1] = G("g_cs")
  BY DEF CumsumRows, MoveAt
<1>5. \A j \in 1..13 : Puts(s, j, Ub("aMat")) => j \in {1}
  BY <1>0, Named DEF CumsumCells
<1>6. \A j \in 1..13 : Puts(s, j, G("tril")) => j \in {}
  BY <1>0, Named DEF CumsumCells
<1>7. \A j \in 1..13 : Puts(s, j, Ub("bMat")) => j \in {2}
  BY <1>0, Named DEF CumsumCells
<1>8. \A j \in 1..13 : Puts(s, j, G("g")) => j \in {}
  BY <1>0, Named DEF CumsumCells
<1>9. \A j \in 1..13 : Puts(s, j, Ub("l0a")) => j \in {5}
  BY <1>0, Named DEF CumsumCells
<1>10. \A j \in 1..13 : Puts(s, j, Ub("l0b")) => j \in {6}
  BY <1>0, Named DEF CumsumCells
<1>11. \A j \in 1..13 : Puts(s, j, Ub("cTile")) => j \in {9}
  BY <1>0, Named DEF CumsumCells
<1>12. \A j \in 1..13 : Puts(s, j, G("g_cs")) => j \in {12}
  BY <1>0, Named DEF CumsumCells
<1>13. v[1] = Made(s, v, 1)
  <2>1. NoWrite(s, G("tril"), 1)
    BY <1>0, <1>1, <1>4, <1>6 DEF CumsumCells, LastWrite, NoWrite
  <2>2. Holds(s, v, G("tril"), 1) = G("tril")
    BY <2>1, HeldBy
  <2>3. Made(s, v, 1) = Holds(s, v, G("tril"), 1)
    BY MadeOf DEF CumsumRows
  <2> QED
    BY <1>3, <2>2, <2>3
<1>14. v[2] = Made(s, v, 2)
  <2>1. NoWrite(s, G("g"), 2)
    BY <1>0, <1>1, <1>4, <1>8 DEF CumsumCells, LastWrite, NoWrite
  <2>2. Holds(s, v, G("g"), 2) = G("g")
    BY <2>1, HeldBy
  <2>3. Made(s, v, 2) = Holds(s, v, G("g"), 2)
    BY MadeOf DEF CumsumRows
  <2> QED
    BY <1>3, <2>2, <2>3
<1>15. v[5] = Made(s, v, 5)
  <2>1. LastWrite(s, Ub("aMat"), 5, 1)
    BY <1>0, <1>1, <1>4, <1>5 DEF CumsumCells, LastWrite, NoWrite
  <2>2. Holds(s, v, Ub("aMat"), 5) = v[1]
    BY <2>1, HeldBy
  <2>3. Made(s, v, 5) = Holds(s, v, Ub("aMat"), 5)
    BY MadeOf DEF CumsumRows
  <2> QED
    BY <1>3, <2>2, <2>3
<1>16. v[6] = Made(s, v, 6)
  <2>1. LastWrite(s, Ub("bMat"), 6, 2)
    BY <1>0, <1>1, <1>4, <1>7 DEF CumsumCells, LastWrite, NoWrite
  <2>2. Holds(s, v, Ub("bMat"), 6) = v[2]
    BY <2>1, HeldBy
  <2>3. Made(s, v, 6) = Holds(s, v, Ub("bMat"), 6)
    BY MadeOf DEF CumsumRows
  <2> QED
    BY <1>3, <2>2, <2>3
<1>17. v[9] = Made(s, v, 9)
  <2>1. LastWrite(s, Ub("l0a"), 9, 5) /\ LastWrite(s, Ub("l0b"), 9, 6)
    BY <1>0, <1>1, <1>4, <1>9, <1>10 DEF CumsumCells, LastWrite, NoWrite
  <2>2. Holds(s, v, Ub("l0a"), 9) = v[5] /\ Holds(s, v, Ub("l0b"), 9) = v[6]
    BY <2>1, HeldBy
  <2>3. Made(s, v, 9) = <<"TMATMUL", Holds(s, v, Ub("l0a"), 9), Holds(s, v, Ub("l0b"), 9)>>
    <3>1. "TMATMUL" # "copy" /\ MoveAt(s, 9, "M", "TMATMUL", <<Ub("cTile")>>, <<Ub("l0a"), Ub("l0b")>>)
      BY DEF CumsumRows
    <3> QED
      BY <3>1, MadeOfTwo
  <2> QED
    BY <1>3, <2>2, <2>3
<1>18. v[12] = Made(s, v, 12)
  <2>1. LastWrite(s, Ub("cTile"), 12, 9)
    BY <1>0, <1>1, <1>4, <1>11 DEF CumsumCells, LastWrite, NoWrite
  <2>2. Holds(s, v, Ub("cTile"), 12) = v[9]
    BY <2>1, HeldBy
  <2>3. Made(s, v, 12) = Holds(s, v, Ub("cTile"), 12)
    BY MadeOf DEF CumsumRows
  <2> QED
    BY <1>3, <2>2, <2>3
<1>19. /\ v[3] = Made(s, v, 3) /\ v[4] = Made(s, v, 4) /\ v[7] = Made(s, v, 7) /\ v[8] = Made(s, v, 8)
      /\ v[10] = Made(s, v, 10) /\ v[11] = Made(s, v, 11) /\ v[13] = Made(s, v, 13)
  <2>1. /\ StillAt(s, 3) /\ StillAt(s, 4) /\ StillAt(s, 7) /\ StillAt(s, 8) /\ StillAt(s, 10)
        /\ StillAt(s, 11) /\ StillAt(s, 13)
    BY FlagsAreStill DEF CumsumRows
  <2> QED
    BY <1>3, <2>1, MadeStill
<1>20. Annotated(s, v)
  BY <1>1, <1>2, <1>13, <1>14, <1>15, <1>16, <1>17, <1>18, <1>19 DEF Annotated
<1>21. Writers(s, G("g_cs")) # {} /\ Contents(s, v, G("g_cs"), Writers(s, G("g_cs"))) = v[12]
  <2>1. Leaves(s, G("g_cs"), 12)
    BY <1>0, <1>1, <1>4, <1>12 DEF CumsumCells, Leaves, LastWrite
  <2> QED
    BY <2>1, LeftBy
<1> QED
  BY <1>3, <1>20, <1>21 DEF Delivers, v

-----------------------------------------------------------------------------
(* Every kernel *)

LEMMA ScansSound ==
  ASSUME NEW role \in {"first", "middle", "last"}
  PROVE  /\ Sound(AllScan(role)) /\ Makes(AllScan(role), PromisedScan(role))
         /\ Sound(AllScanBackward(role)) /\ Makes(AllScanBackward(role), PromisedBackward(role))
<1>1. CASE role = "first"
  BY <1>1, ForwardFirstScan, BackwardFirstScan
<1>2. CASE role = "middle"
  BY <1>2, ForwardMiddleScan, BackwardMiddleScan
<1>3. CASE role = "last"
  BY <1>3, ForwardLastScan, BackwardLastScan
<1> QED
  BY <1>1, <1>2, <1>3

LEMMA MakesBy ==
  ASSUME NEW s, NEW v, NEW P, Tidy(s), Annotated(s, v), Delivers(s, v, P)
  PROVE  Makes(s, P)
  BY DEF Makes

LEMMA PairIs ==
  ASSUME NEW A, NEW B, NEW x \in A \X B PROVE x[1] \in A /\ x[2] \in B
  OBVIOUS

LEMMA VariantIs ==
  ASSUME NEW x \in KernelVariants
  PROVE  \/ x[1] \in {"allscan", "allscan_backward"} /\ x[2] \in {"first", "middle", "last"}
         \/ x[1] \in {"chunk_h_update"} /\ x[2] \in {"first", "next"}
         \/ x[1] \in {"chunk_o_elt"} /\ x[2] \in {"TMUL", "TADD"}
         \/ x[1] \in {"matmul"} /\ x[2] \in {"NN", "TN", "NT"}
         \/ x[1] \in {"chunk_h_prep", "chunk_o_prep", "gate_cumsum"} /\ x[2] \in {""}
<1>1. \/ x \in {"allscan", "allscan_backward"} \X {"first", "middle", "last"}
      \/ x \in {"chunk_h_update"} \X {"first", "next"}
      \/ x \in {"chunk_o_elt"} \X {"TMUL", "TADD"}
      \/ x \in {"matmul"} \X {"NN", "TN", "NT"}
      \/ x \in {"chunk_h_prep", "chunk_o_prep", "gate_cumsum"} \X {""}
  BY Zenon DEF KernelVariants
<1> QED
  BY <1>1, PairIs, Zenon

LEMMA KernelsSound ==
  ASSUME NEW x \in KernelVariants
  PROVE  /\ Sound(Program(x))
         /\ x[1] # "chunk_h_prep" => Makes(Program(x), Promised(x))
<1>0. \/ x[1] \in {"allscan", "allscan_backward"} /\ x[2] \in {"first", "middle", "last"}
      \/ x[1] \in {"chunk_o_elt"} /\ x[2] \in {"TMUL", "TADD"}
      \/ x[1] \in {"chunk_h_prep", "chunk_h_update", "chunk_o_prep", "matmul", "gate_cumsum"}
  BY VariantIs, Zenon
<1>1. CASE x[1] \in {"allscan", "allscan_backward"}
  <2>1. x[2] \in {"first", "middle", "last"}
    BY <1>0, <1>1
  <2>2. CASE x[1] = "allscan"
    BY <2>1, <2>2, ScansSound DEF Program, Promised
  <2>3. CASE x[1] = "allscan_backward"
    BY <2>1, <2>3, ScansSound DEF Program, Promised
  <2> QED
    BY <1>1, <2>2, <2>3
<1>2. CASE x[1] = "chunk_h_prep"
  <2>1. Sound(ChunkHPrep)
    BY PrepOfStateIs, PrepOfStateTidy
  <2> QED
    BY <1>2, <2>1 DEF Program
<1>3. CASE x[1] = "chunk_h_update"
  <2>1. CASE x[2] = "first"
    <3>1. Sound(ChunkHFirst) /\ Makes(ChunkHFirst, {<<G("s_snap"), <<"TEXPANDS">>>>, <<G("S"), G("KV")>>})
      BY FirstStateIs, FirstStateTidy, FirstStateMakes, MakesBy, Zenon
    <3> QED
      BY <1>3, <2>1, <3>1 DEF Program, Promised
  <2>2. CASE x[2] # "first"
    <3>1. Sound(ChunkHUpdate) /\ Makes(ChunkHUpdate, {<<G("s_snap"), G("S")>>, <<G("S"), Advanced>>})
      BY UpdateIs, UpdateTidy, UpdateMakes, MakesBy, Zenon DEF Advanced
    <3> QED
      BY <1>3, <2>2, <3>1 DEF Program, Promised
  <2> QED
    BY <2>1, <2>2
<1>4. CASE x[1] = "chunk_o_prep"
  <2>1. Sound(ChunkOPrep)
    BY PrepOfOutputIs, PrepOfOutputTidy
  <2>2. Makes(ChunkOPrep, {<<G("q_eff"), <<"TMUL", G("q"), <<"TEXP", G("g_cs")>>>>>>,
                           <<G("k_eff"), <<"TMUL", G("k"), <<"TEXP", <<"TMULS", G("g_cs")>>>>>>>>})
    BY PrepOfOutputIs, PrepOfOutputTidy, PrepOfOutputMakes, MakesBy, Zenon
  <2> QED
    BY <1>4, <2>1, <2>2 DEF Program, Promised
<1>5. CASE x[1] = "chunk_o_elt"
  <2>1. x[2] # "copy"
    BY <1>0, <1>5
  <2> DEFINE op == x[2]
  <2>2. op # "copy"
    BY <2>1
  <2>3. Sound(ChunkOElt(op)) /\ Makes(ChunkOElt(op), {<<G("out"), <<op, G("a"), G("b")>>>>})
    <3> HIDE DEF op
    <3> QED
      BY <2>2, ElementwiseIs, ElementwiseTidy, ElementwiseMakes, MakesBy, Zenon
  <2> QED
    BY <1>5, <2>3 DEF Program, Promised
<1>6. CASE x[1] = "matmul"
  <2> DEFINE mode == x[2]
  <2>1. Sound(MatMul(mode)) /\ Makes(MatMul(mode), {<<G("c"), <<"TMATMUL", Left(mode), Right(mode)>>>>})
    <3> HIDE DEF mode
    <3> QED
      BY ProductIs, ProductTidy, ProductMakes, MakesBy, Zenon
  <2> QED
    BY <1>6, <2>1 DEF Program, Promised
<1>7. CASE x[1] = "gate_cumsum"
  <2>1. Sound(GateCumsum) /\ Makes(GateCumsum, {<<G("g_cs"), <<"TMATMUL", G("tril"), G("g")>>>>})
    BY CumsumIs, CumsumTidy, CumsumMakes, MakesBy, Zenon
  <2> QED
    BY <1>7, <2>1 DEF Program, Promised
<1> QED
  BY <1>0, <1>1, <1>2, <1>3, <1>4, <1>5, <1>6, <1>7

-----------------------------------------------------------------------------
(* The core *)

Runs == kernel \in Kernels /\ code = Program(kernel)

\* CoreInv without RaceFree, which the rest implies.
Steady ==
  /\ Runs /\ InvIssue /\ InvFlags
  /\ kernel[1] # "chunk_h_prep" => InvValues

LEMMA CodeIs ==
  ASSUME Runs
  PROVE  /\ IsList(code) /\ Paired(code)
         /\ kernel[1] # "chunk_h_prep" =>
              /\ Plain(code) /\ Ordered(code) /\ Annotated(code, InOrder(code))
              /\ Delivers(code, InOrder(code), Promised(kernel))
<1>1. kernel \in KernelVariants /\ code = Program(kernel)
  BY KernelAssumption DEF Runs
<1>2. Sound(code) /\ (kernel[1] # "chunk_h_prep" => Makes(code, Promised(kernel)))
  BY <1>1, KernelsSound
<1>3. IsList(code) /\ Paired(code)
  BY <1>2 DEF Sound
<1>4. ASSUME kernel[1] # "chunk_h_prep"
      PROVE  /\ Plain(code) /\ Ordered(code) /\ Annotated(code, InOrder(code))
             /\ Delivers(code, InOrder(code), Promised(kernel))
  <2>1. Tidy(code) /\ \E v : Annotated(code, v) /\ Delivers(code, v, Promised(kernel))
    BY <1>2, <1>4 DEF Makes
  <2>2. PICK v : Annotated(code, v) /\ Delivers(code, v, Promised(kernel))
    BY <2>1
  <2>3. InOrder(code) = v
    BY <1>3, <2>2, InOrderIs
  <2> QED
    BY <2>1, <2>2, <2>3 DEF Tidy
<1> QED
  BY <1>3, <1>4

LEMMA SteadyStart == Init => Steady
<1>1. Init => Runs
  BY DEF Init, Runs
<1> QED
  BY <1>1, IssueStarts, FlagsStart, ValuesStart DEF Steady

LEMMA SteadyStep == Steady /\ [Next]_vars => Steady'
<1>1. SUFFICES ASSUME Steady, [Next]_vars PROVE Steady'
  OBVIOUS
<1>2. Runs /\ InvIssue /\ InvFlags /\ (kernel[1] # "chunk_h_prep" => InvValues)
  BY <1>1 DEF Steady
<1>3. kernel' = kernel /\ code' = code
  BY <1>1 DEF Next, Start, Finish, Synchronise, vars
<1>4. Runs'
  BY <1>2, <1>3 DEF Runs
<1>5. InvIssue' /\ InvFlags'
  BY <1>1, <1>2, CodeIs, IssueKept, FlagsKept
<1>6. ASSUME kernel[1] # "chunk_h_prep" PROVE InvValues'
  BY <1>1, <1>2, <1>6, CodeIs, ValuesKept
<1> QED
  BY <1>3, <1>4, <1>5, <1>6 DEF Steady

LEMMA SteadyGives ==
  Steady => /\ CoreInv /\ FlagsConsumed
            /\ kernel[1] # "chunk_h_prep" => RaceFree /\ StoresPromised
<1>1. SUFFICES ASSUME Steady
               PROVE  /\ CoreInv /\ FlagsConsumed
                      /\ kernel[1] # "chunk_h_prep" => RaceFree /\ StoresPromised
  OBVIOUS
<1>2. Runs /\ InvIssue /\ InvFlags /\ (kernel[1] # "chunk_h_prep" => InvValues)
  BY <1>1 DEF Steady
<1>3. FlagsConsumed
  BY <1>2, CodeIs, FlagsEnd
<1>4. ASSUME kernel[1] # "chunk_h_prep" PROVE RaceFree /\ StoresPromised
  BY <1>2, <1>4, CodeIs, NoRace, ValuesEnd
<1> QED
  BY <1>2, <1>3, <1>4 DEF CoreInv, Runs

\* The inductive invariant: what has been issued and signalled is in program
\* order, and except in chunk_h_prep.cpp no two pipes touch a cell at once and
\* every cell holds what the kernel run one instruction at a time puts there.
THEOREM CoreInvariant == Spec => []CoreInv
<1>1. Spec => []Steady
  BY SteadyStart, SteadyStep, PTL DEF Spec
<1> QED
  BY <1>1, SteadyGives, PTL

\* Whatever the timing of the pipes, and for every number of blocks, no kernel
\* but chunk_h_prep.cpp, whose load of k over the gates (line 76) waits for no
\* flag from the vector pipe that reads them, writes a tile or a block that
\* another instruction is using.
THEOREM NoPipeRaces == Spec => [](kernel[1] # "chunk_h_prep" => RaceFree)
<1>1. Spec => []Steady
  BY SteadyStart, SteadyStep, PTL DEF Spec
<1> QED
  BY <1>1, SteadyGives, PTL

\* Every other kernel stores what its header promises: the two AllScan kernels
\* in every role, for every number of blocks, and the six of GLA.
THEOREM KernelsStorePromised == Spec => [](kernel[1] # "chunk_h_prep" => StoresPromised)
<1>1. Spec => []Steady
  BY SteadyStart, SteadyStep, PTL DEF Spec
<1> QED
  BY <1>1, SteadyGives, PTL

\* Every kernel, chunk_h_prep.cpp included, waits for each flag it sets: the
\* next kernel of the core finds none set.
THEOREM FlagsAllConsumed == Spec => []FlagsConsumed
<1>1. Spec => []Steady
  BY SteadyStart, SteadyStep, PTL DEF Spec
<1> QED
  BY <1>1, SteadyGives, PTL
=============================================================================
