--------------------------- MODULE SweepsProofs ---------------------------
(***************************************************************************)
(* Proofs about Sweeps: the invariants of SimplerZeCo, of the prepared     *)
(* workers and of the sweeps that use them, for every list of              *)
(* configurations, number of ranks, samples, heads and warm-ups.           *)
(*                                                                         *)
(* A call unfolds into a sequence of steps.  What a step relies on is made *)
(* a property of that sequence (ScriptSteps, Chained), shown once for what *)
(* each operation unfolds into and once for taking a step off; Finds and   *)
(* InvRunners say what the next step finds when its turn comes.            *)
(***************************************************************************)
EXTENDS Sweeps, SequenceTheorems, FiniteSetTheorems, WellFoundedInduction, TLAPS

-----------------------------------------------------------------------------
(* The search for a blocking: compile_blocked keeps the first plan that     *)
(* builds, for every list of plans in groups and whatever the compiler      *)
(* answers.  The invariant says what the walk has ruled out behind it; a    *)
(* group left early is ruled out because its floor has the smallest         *)
(* footprint.                                                               *)

\* Behind the walk nothing can build: the groups before this one, and in this
\* one the plans before `index`.
NothingBehind ==
  /\ \A g \in 1..(group - 1) : \A p \in Range(Groups[goal][g]) : RuledOut(p)
  /\ \A i \in 1..(index - 1) : RuledOut(Walked[i])

Positioned ==
  /\ goal \in Requests
  /\ group \in 1..Len(Groups[goal])
  /\ index \in 1..Len(Walked)

SearchInv ==
  /\ Positioned
  /\ NothingBehind
  /\ stage \in {"head", "floor"} => index = 1
  /\ stage = "floor" => RuledOut(Walked[1])
  /\ FirstFit

-----------------------------------------------------------------------------
(* The group being walked *)

LEMMA GroupFacts ==
  ASSUME NEW r \in Requests, NEW g \in 1..Len(Groups[r])
  PROVE  /\ Len(Groups[r]) \in Nat \ {0}
         /\ Groups[r][g] \in Seq(Plans[r])
         /\ Len(Groups[r][g]) \in Nat \ {0}
         /\ DOMAIN Groups[r][g] = 1..Len(Groups[r][g])
         /\ \A p \in Range(Groups[r][g]) : Smaller(Floor(Groups[r][g]), p)
<1> USE SearchAssumption
<1>1. /\ Len(Groups[r]) \in Nat \ {0} /\ g \in DOMAIN Groups[r]
  OBVIOUS
<1>2. /\ Groups[r][g] \in Seq(Plans[r]) /\ Groups[r][g] # <<>>
      /\ \A p \in Range(Groups[r][g]) : Smaller(Floor(Groups[r][g]), p)
  BY <1>1
<1> HIDE SearchAssumption
<1> QED BY <1>1, <1>2

\* What is ruled out stays so: an attempt only adds to the memo.
LEMMA RuledOutStays ==
  ASSUME NEW p, NEW o, Attempt(p, o), NEW q, RuledOut(q)
  PROVE  Excluded(seen', q)
<1>1. /\ DOMAIN seen \subseteq DOMAIN seen'
      /\ \A x \in DOMAIN seen : seen'[x] = seen[x]
  <2>1. CASE p \in DOMAIN seen
    BY <2>1 DEF Attempt
  <2>2. CASE p \notin DOMAIN seen
    BY <2>2 DEF Attempt
  <2> QED BY <2>1, <2>2
<1> QED BY <1>1 DEF RuledOut, Excluded, Smaller

LEMMA Recorded ==
  ASSUME NEW p, NEW o, Attempt(p, o)
  PROVE  p \in DOMAIN seen' /\ seen'[p] = o
BY DEF Attempt

\* A plan seen to be rejected is ruled out.
LEMMA Rejected ==
  ASSUME NEW p, NEW o, Attempt(p, o), o # "fits"
  PROVE  Excluded(seen', p)
BY Recorded DEF RuledOut, Excluded

-----------------------------------------------------------------------------
(* Leaving a group *)

LEMMA LeaveGroup ==
  ASSUME Positioned, NextGroup,
         \A g \in 1..(group - 1) : \A p \in Range(Groups[goal][g]) : Excluded(seen', p),
         \A p \in Range(Walked) : Excluded(seen', p),
         \A i \in 1..(index - 1) : Excluded(seen', Walked[i])
  PROVE  SearchInv'
<1>0. goal' = goal
  BY DEF NextGroup, MoveTo
<1>1. /\ Len(Groups[goal]) \in Nat \ {0} /\ group \in 1..Len(Groups[goal])
      /\ goal \in Requests
  BY GroupFacts DEF Positioned
<1>2. \A g \in 1..group : \A p \in Range(Groups[goal][g]) : Excluded(seen', p)
  <2> SUFFICES ASSUME NEW g \in 1..group
               PROVE  \A p \in Range(Groups[goal][g]) : Excluded(seen', p)
    OBVIOUS
  <2>1. CASE g = group
    BY <2>1 DEF Walked
  <2>2. CASE g # group
    BY <1>1, <2>2
  <2> QED BY <2>1, <2>2
<1>3. CASE group < Len(Groups[goal])
  <2>1. stage' = "head" /\ group' = group + 1 /\ index' = 1
    BY <1>3 DEF NextGroup
  <2>2. group' \in 1..Len(Groups[goal']) /\ goal' \in Requests
    BY <1>0, <1>1, <1>3, <2>1
  <2>3. index' \in 1..Len(Groups[goal'][group'])
    BY <2>1, <2>2, GroupFacts
  <2>4. \A g \in 1..(group' - 1) : \A p \in Range(Groups[goal'][g]) : Excluded(seen', p)
    BY <1>0, <1>1, <1>2, <2>1
  <2> QED BY <2>1, <2>2, <2>3, <2>4
          DEF SearchInv, Positioned, NothingBehind, FirstFit, Walked, RuledOut
<1>4. CASE ~(group < Len(Groups[goal]))
  <2>1. stage' = "unfit" /\ group' = group /\ index' = index
    BY <1>4 DEF NextGroup, MoveTo
  <2>2. group = Len(Groups[goal])
    BY <1>1, <1>4
  <2>3. \A p \in Plans[goal] : Excluded(seen', p)
    <3> SUFFICES ASSUME NEW p \in Plans[goal] PROVE Excluded(seen', p)
      OBVIOUS
    <3>1. PICK g \in DOMAIN Groups[goal] : p \in Range(Groups[goal][g])
      BY <1>1 DEF Plans
    <3>2. DOMAIN Groups[goal] = 1..group
      BY <1>1, <2>2, SearchAssumption
    <3> QED BY <1>2, <3>1, <3>2
  <2>4. (\A p \in Plans[goal] : RuledOut(p))'
    BY <1>0, <2>3 DEF RuledOut
  <2>5. NothingBehind'
    BY <1>0, <2>1 DEF NothingBehind, Walked, RuledOut
  <2> QED BY <1>0, <2>1, <2>4, <2>5 DEF SearchInv, Positioned, FirstFit, Walked
<1> QED BY <1>3, <1>4

-----------------------------------------------------------------------------
(* The steps of the walk *)

\* What every attempt keeps.
LEMMA BehindStays ==
  ASSUME SearchInv, NEW p, NEW o, Attempt(p, o)
  PROVE  /\ \A g \in 1..(group - 1) : \A q \in Range(Groups[goal][g]) : Excluded(seen', q)
         /\ \A i \in 1..(index - 1) : Excluded(seen', Walked[i])
         /\ stage = "floor" => Excluded(seen', Walked[1])
BY RuledOutStays DEF SearchInv, NothingBehind, RuledOut

\* Moving to another stage of the same plan keeps what lies behind.
LEMMA SamePlace ==
  ASSUME SearchInv, NEW p, NEW o, Attempt(p, o), NEW where, MoveTo(where)
  PROVE  /\ goal' = goal /\ group' = group /\ index' = index /\ Walked' = Walked
         /\ stage' = where
         /\ Positioned' /\ NothingBehind'
<1>1. goal' = goal /\ group' = group /\ index' = index /\ stage' = where
  BY DEF MoveTo
<1>2. Walked' = Walked
  BY <1>1 DEF Walked
<1>3. Positioned'
  BY <1>1, <1>2 DEF SearchInv, Positioned
<1>4. NothingBehind'
  BY <1>1, <1>2, BehindStays DEF NothingBehind, RuledOut
<1> QED BY <1>1, <1>2, <1>3, <1>4

\* The plan at `index` builds: it is the first that does.
LEMMA Kept ==
  ASSUME SearchInv, Attempt(Walked[index], "fits"), MoveTo("found")
  PROVE  SearchInv'
<1>1. /\ goal' = goal /\ group' = group /\ index' = index /\ Walked' = Walked
      /\ stage' = "found" /\ Positioned' /\ NothingBehind'
  BY SamePlace
<1>2. Walked[index] \in DOMAIN seen' /\ seen'[Walked[index]] = "fits"
  BY Recorded
<1> QED BY <1>1, <1>2 DEF SearchInv, FirstFit, NothingBehind

LEMMA Reraised ==
  ASSUME SearchInv, NEW p, Attempt(p, "error"), MoveTo("raised")
  PROVE  SearchInv'
BY SamePlace DEF SearchInv, FirstFit

LEMMA HeadStep ==
  ASSUME SearchInv, TryHead
  PROVE  SearchInv'
<1>1. stage = "head" /\ index = 1
  BY DEF TryHead, SearchInv
<1>2. PICK o \in Outcomes :
        /\ Attempt(Walked[1], o)
        /\ \/ o = "fits"  /\ MoveTo("found")
           \/ o = "error" /\ MoveTo("raised")
           \/ o \in {"buffer", "placement"} /\ MoveTo("floor")
  BY DEF TryHead
<1>3. CASE o = "fits"
  BY <1>1, <1>2, <1>3, Kept
<1>4. CASE o = "error"
  BY <1>2, <1>4, Reraised
<1>5. CASE o \in {"buffer", "placement"}
  <2>1. /\ index' = 1 /\ Walked' = Walked
        /\ stage' = "floor" /\ Positioned' /\ NothingBehind'
    BY <1>1, <1>2, <1>5, SamePlace
  <2>2. Excluded(seen', Walked[1])
    BY <1>2, <1>5, <2>1, Rejected
  <2> QED BY <2>1, <2>2 DEF SearchInv, FirstFit, RuledOut
<1> QED BY <1>3, <1>4, <1>5 DEF Outcomes

LEMMA FloorStep ==
  ASSUME SearchInv, TryFloor
  PROVE  SearchInv'
<1>1. stage = "floor" /\ index = 1 /\ RuledOut(Walked[1]) /\ Positioned
  BY DEF TryFloor, SearchInv
<1>2. PICK o \in Outcomes :
        /\ Attempt(Floor(Walked), o)
        /\ \/ o = "error" /\ MoveTo("raised")
           \/ o # "error" /\ FloorRulesOut(o) /\ NextGroup
           \/ o # "error" /\ ~FloorRulesOut(o) /\ Rest
  BY DEF TryFloor
<1>3. /\ \A g \in 1..(group - 1) : \A q \in Range(Groups[goal][g]) : Excluded(seen', q)
      /\ \A i \in 1..(index - 1) : Excluded(seen', Walked[i])
      /\ Excluded(seen', Walked[1])
  BY <1>1, <1>2, BehindStays
<1>4. /\ Len(Walked) \in Nat \ {0} /\ DOMAIN Walked = 1..Len(Walked)
      /\ \A p \in Range(Walked) : Smaller(Floor(Walked), p)
  BY <1>1, GroupFacts DEF Positioned, Walked
<1>5. CASE o = "error"
  BY <1>2, <1>5, Reraised
<1>6. CASE o # "error" /\ FloorRulesOut(o)
  <2>1. NextGroup
    BY <1>2, <1>6
  <2>2. Floor(Walked) \in DOMAIN seen' /\ seen'[Floor(Walked)] = "buffer"
    BY <1>2, <1>6, Recorded DEF FloorRulesOut
  <2>3. \A p \in Range(Walked) : Excluded(seen', p)
    BY <1>4, <2>2 DEF RuledOut, Excluded, Smaller
  <2> QED BY <1>1, <1>3, <2>1, <2>3, LeaveGroup
<1>7. CASE o # "error" /\ ~FloorRulesOut(o)
  <2>1. Rest
    BY <1>2, <1>7
  <2>2. CASE Len(Walked) > 1
    <3>1. stage' = "rest" /\ index' = 2 /\ goal' = goal /\ group' = group
      BY <2>1, <2>2 DEF Rest
    <3>2. Walked' = Walked
      BY <3>1 DEF Walked
    <3>3. Positioned'
      BY <1>1, <1>4, <2>2, <3>1, <3>2 DEF Positioned
    <3>4. \A i \in 1..(index' - 1) : Excluded(seen', Walked[i])
      BY <1>3, <3>1
    <3>5. NothingBehind'
      BY <1>3, <3>1, <3>2, <3>4 DEF NothingBehind, RuledOut
    <3> QED BY <3>1, <3>3, <3>5 DEF SearchInv, FirstFit
  <2>3. CASE ~(Len(Walked) > 1)
    <3>1. NextGroup
      BY <2>1, <2>3 DEF Rest
    <3>2. Len(Walked) = 1
      BY <1>4, <2>3
    <3>3. \A p \in Range(Walked) : p = Walked[1]
      BY <1>4, <3>2 DEF Range
    <3> QED BY <1>1, <1>3, <3>1, <3>3, LeaveGroup
  <2> QED BY <2>2, <2>3
<1> QED BY <1>5, <1>6, <1>7

LEMMA RestStep ==
  ASSUME SearchInv, TryRest
  PROVE  SearchInv'
<1>1. stage = "rest" /\ Positioned
  BY DEF TryRest, SearchInv
<1>2. PICK o \in Outcomes :
        /\ Attempt(Walked[index], o)
        /\ \/ o = "fits"  /\ MoveTo("found")
           \/ o = "error" /\ MoveTo("raised")
           \/ /\ o \in {"buffer", "placement"}
              /\ IF index < Len(Walked)
                 THEN index' = index + 1 /\ UNCHANGED <<goal, stage, group>>
                 ELSE NextGroup
  BY DEF TryRest
<1>3. /\ \A g \in 1..(group - 1) : \A q \in Range(Groups[goal][g]) : Excluded(seen', q)
      /\ \A i \in 1..(index - 1) : Excluded(seen', Walked[i])
  BY <1>2, BehindStays
<1>4. /\ Len(Walked) \in Nat \ {0} /\ DOMAIN Walked = 1..Len(Walked)
      /\ index \in 1..Len(Walked)
  BY <1>1, GroupFacts DEF Positioned, Walked
<1>5. CASE o = "fits"
  BY <1>2, <1>5, Kept
<1>6. CASE o = "error"
  BY <1>2, <1>6, Reraised
<1>7. CASE o \in {"buffer", "placement"}
  <2>1. Excluded(seen', Walked[index])
    <3>1. o # "fits"
      BY <1>7
    <3>2. PICK p : p = Walked[index]
      OBVIOUS
    <3>3. p \in DOMAIN seen' /\ seen'[p] = o
      BY <1>2, <3>2, Recorded
    <3> QED BY <3>1, <3>2, <3>3 DEF RuledOut, Excluded
  <2>2. \A i \in 1..index : Excluded(seen', Walked[i])
    BY <1>3, <1>4, <2>1
  <2>3. CASE index < Len(Walked)
    <3>1. stage' = "rest" /\ index' = index + 1 /\ goal' = goal /\ group' = group
      BY <1>1, <1>2, <1>7, <2>3
    <3>2. Walked' = Walked
      BY <3>1 DEF Walked
    <3>3. Positioned'
      BY <1>1, <1>4, <2>3, <3>1, <3>2 DEF Positioned
    <3>4. \A i \in 1..(index' - 1) : Excluded(seen', Walked[i])
      BY <1>4, <2>2, <3>1
    <3>5. NothingBehind'
      BY <1>3, <3>1, <3>2, <3>4 DEF NothingBehind, RuledOut
    <3> QED BY <3>1, <3>3, <3>5 DEF SearchInv, FirstFit
  <2>4. CASE ~(index < Len(Walked))
    <3>1. NextGroup
      BY <1>2, <1>7, <2>4
    <3>2. index = Len(Walked)
      <4>0. Len(Walked) \in Nat \ {0}
        BY <1>4
      <4>1. PICK n \in Nat \ {0} : n = Len(Walked)
        BY <4>0, Zenon
      <4>2. index \in 1..n /\ ~(index < n)
        BY <1>4, <2>4, <4>1
      <4>3. index = n
        BY <4>2
      <4> QED BY <4>1, <4>3
    <3>3. \A p \in Range(Walked) : Excluded(seen', p)
      <4> SUFFICES ASSUME NEW i \in DOMAIN Walked PROVE Excluded(seen', Walked[i])
        BY DEF Range
      <4> QED BY <1>4, <2>2, <3>2
    <3> QED BY <1>1, <1>3, <3>1, <3>3, LeaveGroup
  <2> QED BY <2>3, <2>4
<1> QED BY <1>5, <1>6, <1>7 DEF Outcomes

-----------------------------------------------------------------------------

LEMMA SearchStarts ==
  ASSUME SearchInit
  PROVE  SearchInv
<1>1. goal \in Requests /\ stage = "head" /\ group = 1 /\ index = 1
  BY DEF SearchInit
<1>2. group \in 1..Len(Groups[goal])
  BY <1>1, SearchAssumption
<1>3. index \in 1..Len(Walked)
  BY <1>1, <1>2, GroupFacts DEF Walked
<1> QED BY <1>1, <1>2, <1>3 DEF SearchInv, Positioned, NothingBehind, FirstFit

\* The walk never leaves behind a plan that could still build.
THEOREM SearchInvariant == SearchSpec => []SearchInv
<1>1. SearchInit => SearchInv
  BY SearchStarts
<1>2. SearchInv /\ [SearchNext]_searchVars => SearchInv'
  <2> SUFFICES ASSUME SearchInv, [SearchNext]_searchVars PROVE SearchInv'
    OBVIOUS
  <2>1. CASE TryHead   BY <2>1, HeadStep
  <2>2. CASE TryFloor  BY <2>2, FloorStep
  <2>3. CASE TryRest   BY <2>3, RestStep
  <2>4. CASE UNCHANGED searchVars
    BY <2>4 DEF searchVars, SearchInv, Positioned, NothingBehind, FirstFit, RuledOut, Excluded, Walked
  <2> QED BY <2>1, <2>2, <2>3, <2>4 DEF SearchNext
<1> QED BY <1>1, <1>2, PTL DEF SearchSpec

\* compile_blocked's promise: the plan kept is the first that builds, and the
\* search gives up only when none does, whatever the shape and the compiler.
THEOREM SearchKeepsFirstFit == SearchSpec => []FirstFit
<1>1. SearchInv => FirstFit
  BY DEF SearchInv
<1> QED BY <1>1, SearchInvariant, PTL

-----------------------------------------------------------------------------
(* Sequences put together *)

\* Induction over the numbers, for a set of them.
LEMMA SetInduction ==
  ASSUME NEW S, 0 \in S, \A n \in Nat : n \in S => n + 1 \in S
  PROVE  Nat \subseteq S
<1> DEFINE R == {ss \in Nat \X Nat : ss[1] < ss[2]}
<1>1. IsWellFoundedOn(R, Nat)
  BY NatLessThanWellFounded DEF OpToRel
<1>2. SUFFICES ASSUME Nat \ S # {} PROVE FALSE
  OBVIOUS
<1>3. PICK x \in Nat \ S : \A y \in Nat \ S : ~ (<<y, x>> \in R)
  <2>1. Nat \ S \subseteq Nat
    OBVIOUS
  <2> HIDE DEF R
  <2> QED
    BY <1>1, <1>2, <2>1, WFMin
<1>4. \A y \in Nat \ S : ~ (y < x)
  BY <1>3
<1>5. x # 0 /\ x - 1 \in Nat
  OBVIOUS
<1>6. x - 1 \in S
  BY <1>4, <1>5
<1> QED
  BY <1>5, <1>6

\* A set of sequences that is closed under concatenation.
Closed2(S) == <<>> \in S /\ \A s, t \in S : s \o t \in S

\* The sums of the first i sequences exist.
LEMMA PartialSums ==
  ASSUME NEW S, Closed2(S), NEW q \in Seq(S)
  PROVE  \A n \in Nat : n <= Len(q) =>
           \E f : /\ f = [i \in 1..n |-> f[i]]
                  /\ \A i \in 1..n : f[i] = IF i = 1 THEN q[i] ELSE f[i - 1] \o q[i]
                  /\ \A i \in 1..n : f[i] \in S
<1> DEFINE Sum(n, f) == /\ f = [i \in 1..n |-> f[i]]
                        /\ \A i \in 1..n : f[i] = IF i = 1 THEN q[i] ELSE f[i - 1] \o q[i]
                        /\ \A i \in 1..n : f[i] \in S
           Good == {n \in Nat : n <= Len(q) => \E f : Sum(n, f)}
<1>0. Len(q) \in Nat /\ \A i \in 1..Len(q) : q[i] \in S
  BY LenProperties, ElementOfSeq
<1>1. 0 \in Good
  <2>1. Sum(0, [i \in 1..0 |-> <<>>])
    OBVIOUS
  <2> QED
    BY <2>1
<1>2. ASSUME NEW n \in Nat, n \in Good PROVE n + 1 \in Good
  <2> SUFFICES ASSUME n + 1 <= Len(q) PROVE \E f : Sum(n + 1, f)
    OBVIOUS
  <2>1. PICK f : Sum(n, f)
    BY <1>0, <1>2
  <2> DEFINE g == [i \in 1..(n + 1) |-> IF i \in 1..n THEN f[i] ELSE IF n = 0 THEN q[1] ELSE f[n] \o q[n + 1]]
  <2>2. \A i \in 1..n : g[i] = f[i]
    OBVIOUS
  <2>3. g[n + 1] = (IF n + 1 = 1 THEN q[n + 1] ELSE g[n] \o q[n + 1]) /\ g[n + 1] \in S
    <3>1. CASE n = 0
      BY <1>0, <3>1
    <3>2. CASE n # 0
      <4>1. f[n] \in S /\ q[n + 1] \in S
        BY <1>0, <2>1, <3>2
      <4>2. f[n] \o q[n + 1] \in S
        BY <4>1 DEF Closed2
      <4> QED
        BY <3>2, <4>2
    <3> QED
      BY <3>1, <3>2
  <2>4. g = [i \in 1..(n + 1) |-> g[i]]
    OBVIOUS
  <2> HIDE DEF g
  <2>5. ASSUME NEW i \in 1..(n + 1)
        PROVE  g[i] = (IF i = 1 THEN q[i] ELSE g[i - 1] \o q[i]) /\ g[i] \in S
    <3>1. CASE i = n + 1
      BY <2>3, <3>1
    <3>2. CASE i # n + 1
      <4>1. i \in 1..n /\ g[i] = f[i] /\ (i # 1 => i - 1 \in 1..n /\ g[i - 1] = f[i - 1])
        BY <2>2, <3>2
      <4> QED
        BY <2>1, <4>1
    <3> QED
      BY <3>1, <3>2
  <2>6. Sum(n + 1, g)
    BY <2>4, <2>5
  <2> QED
    BY <2>6
<1> HIDE DEF Good
<1>3. Nat \subseteq Good
  BY <1>1, <1>2, SetInduction
<1> QED
  BY <1>3 DEF Good

LEMMA Flattened ==
  ASSUME NEW S, Closed2(S), NEW q \in Seq(S)
  PROVE  FlattenSeq(q) \in S
<1>0. Len(q) \in Nat
  BY LenProperties
<1>1. CASE Len(q) = 0
  <2>1. q = <<>>
    BY <1>1, EmptySeq
  <2> QED
    BY <1>1, <2>1 DEF FlattenSeq, Closed2
<1>2. CASE Len(q) # 0
  <2> DEFINE body(g) == [i \in 1..Len(q) |-> IF i = 1 THEN q[i] ELSE g[i - 1] \o q[i]]
             flat    == CHOOSE g : g = body(g)
  <2>1. PICK f : /\ f = [i \in 1..Len(q) |-> f[i]]
                 /\ \A i \in 1..Len(q) : f[i] = IF i = 1 THEN q[i] ELSE f[i - 1] \o q[i]
                 /\ \A i \in 1..Len(q) : f[i] \in S
    <3>1. Len(q) <= Len(q)
      BY <1>0
    <3> HIDE DEF body
    <3> QED
      BY <1>0, <3>1, PartialSums
  <2>2. f = body(f)
    BY <2>1
  <2>3. flat = body(flat)
    <3> HIDE DEF body
    <3> QED
      BY <2>2
  <2>4. FlattenSeq(q) = flat[Len(q)]
    BY <1>2 DEF FlattenSeq
  <2> DEFINE Good == {n \in Nat : n + 1 <= Len(q) => flat[n + 1] \in S}
  <2>5. \A i \in 1..Len(q) : flat[i] = IF i = 1 THEN q[i] ELSE flat[i - 1] \o q[i]
    <3> HIDE DEF flat
    <3> QED
      BY <2>3
  <2> HIDE DEF flat
  <2>6. 0 \in Good
    BY <1>0, <1>2, <2>5, ElementOfSeq
  <2>7. ASSUME NEW n \in Nat, n \in Good PROVE n + 1 \in Good
    <3> SUFFICES ASSUME n + 2 <= Len(q) PROVE flat[n + 2] \in S
      OBVIOUS
    <3>1. n + 2 \in 1..Len(q) /\ flat[n + 1] \in S
      BY <1>0, <2>7
    <3>2. flat[n + 2] = flat[n + 1] \o q[n + 2]
      <4>1. n + 2 # 1 /\ (n + 2) - 1 = n + 1
        OBVIOUS
      <4>2. flat[n + 2] = IF n + 2 = 1 THEN q[n + 2] ELSE flat[(n + 2) - 1] \o q[n + 2]
        BY <2>5, <3>1
      <4> QED
        BY <4>1, <4>2
    <3>3. q[n + 2] \in S
      BY <3>1, ElementOfSeq
    <3> QED
      BY <3>1, <3>2, <3>3 DEF Closed2
  <2> HIDE DEF Good
  <2>8. Nat \subseteq Good
    BY <2>6, <2>7, SetInduction
  <2>9. Len(q) - 1 \in Good /\ Len(q) - 1 + 1 = Len(q)
    BY <1>0, <1>2, <2>8
  <2> QED
    BY <2>4, <2>9 DEF Good
<1> QED
  BY <1>1, <1>2

\* Repeat, Times and PerRank build what their parts are.
LEMMA Repeated ==
  ASSUME NEW S, Closed2(S), NEW n \in Nat, NEW s \in S
  PROVE  Repeat(n, s) \in S /\ Times(n, s) \in S
<1>1. [i \in 1..n |-> s] \in Seq(S)
  BY IsASeq
<1> QED
  BY <1>1, Flattened DEF Repeat, Times

-----------------------------------------------------------------------------
(* What the calls of SimplerZeCo unfold into *)

\* Passes on the runners that are there; the released ones also close the held
\* workers right before every AllScan worker they build.
Passes == {s \in Seq(ScriptSteps) : \A i \in DOMAIN s : s[i].do # "persistent"}

Cleared(s) == \A i \in DOMAIN s : s[i].do = "allscan" => i > 1 /\ s[i - 1].do = "release"

ReleasedPasses == {s \in Passes : Cleared(s)}

LEMMA Concatenated ==
  ASSUME NEW S, NEW s \in Seq(S), NEW t \in Seq(S)
  PROVE  /\ s \o t \in Seq(S)
         /\ \A i \in DOMAIN (s \o t) :
              \/ i \in DOMAIN s /\ (s \o t)[i] = s[i]
              \/ /\ i > Len(s) /\ i - Len(s) \in DOMAIN t
                 /\ (s \o t)[i] = t[i - Len(s)]
         /\ \A i \in DOMAIN s : i \in DOMAIN (s \o t) /\ (s \o t)[i] = s[i]
         /\ \A j \in DOMAIN t : Len(s) + j \in DOMAIN (s \o t) /\ (s \o t)[Len(s) + j] = t[j]
         /\ Len(s \o t) = Len(s) + Len(t)
         /\ Len(s) \in Nat /\ Len(t) \in Nat /\ DOMAIN s = 1..Len(s) /\ DOMAIN t = 1..Len(t)
<1>1. /\ Len(s) \in Nat /\ Len(t) \in Nat /\ DOMAIN s = 1..Len(s) /\ DOMAIN t = 1..Len(t)
  BY LenProperties
<1>2. /\ s \o t \in Seq(S) /\ Len(s \o t) = Len(s) + Len(t)
      /\ \A i \in 1..(Len(s) + Len(t)) :
           (s \o t)[i] = IF i <= Len(s) THEN s[i] ELSE t[i - Len(s)]
  BY ConcatProperties
<1>3. DOMAIN (s \o t) = 1..(Len(s) + Len(t))
  BY <1>2, LenProperties
<1>10. Len(s) \in Nat
  BY <1>1
<1>11. Len(t) \in Nat
  BY <1>1
<1>4. PICK m \in Nat : m = Len(s)
  BY <1>10
<1>41. PICK n \in Nat : n = Len(t)
  BY <1>11
<1>40. PICK u : u = s \o t
  OBVIOUS
<1>5. /\ u \in Seq(S) /\ Len(u) = m + n /\ DOMAIN u = 1..(m + n)
      /\ \A i \in 1..(m + n) : u[i] = IF i <= m THEN s[i] ELSE t[i - m]
  BY <1>2, <1>3, <1>4, <1>41, <1>40
<1>6. \A i \in DOMAIN u :
        \/ i \in 1..m /\ u[i] = s[i]
        \/ i > m /\ i - m \in 1..n /\ u[i] = t[i - m]
  <2> SUFFICES ASSUME NEW i \in 1..(m + n)
               PROVE  \/ i \in 1..m /\ u[i] = s[i]
                      \/ i > m /\ i - m \in 1..n /\ u[i] = t[i - m]
    BY <1>5
  <2>1. u[i] = IF i <= m THEN s[i] ELSE t[i - m]
    BY <1>5
  <2> QED
    BY <2>1
<1>7. \A i \in 1..m : i \in DOMAIN u /\ u[i] = s[i]
  <2> SUFFICES ASSUME NEW i \in 1..m PROVE i \in DOMAIN u /\ u[i] = s[i]
    OBVIOUS
  <2>1. i \in 1..(m + n) /\ i <= m
    OBVIOUS
  <2> QED
    BY <1>5, <2>1
<1>8. \A j \in 1..n : m + j \in DOMAIN u /\ u[m + j] = t[j]
  <2> SUFFICES ASSUME NEW j \in 1..n PROVE m + j \in DOMAIN u /\ u[m + j] = t[j]
    OBVIOUS
  <2>1. m + j \in 1..(m + n) /\ ~(m + j <= m) /\ (m + j) - m = j
    OBVIOUS
  <2>2. u[m + j] = IF m + j <= m THEN s[m + j] ELSE t[(m + j) - m]
    BY <1>5, <2>1
  <2> QED
    BY <1>5, <2>1, <2>2
<1> QED
  BY <1>1, <1>4, <1>41, <1>40, <1>5, <1>6, <1>7, <1>8

LEMMA Shifted ==
  ASSUME NEW i \in Nat, NEW m \in Nat, NEW k \in Nat, k = i - m, k > 1
  PROVE  i > 1 /\ i - 1 = m + (k - 1)
OBVIOUS

LEMMA ClearedConcat ==
  ASSUME NEW s \in Seq(ScriptSteps), NEW t \in Seq(ScriptSteps), Cleared(s), Cleared(t)
  PROVE  Cleared(s \o t)
<1>1. s \in Seq(ScriptSteps) /\ t \in Seq(ScriptSteps)
  OBVIOUS
<1>2. PICK u : u = s \o t
  OBVIOUS
<1>3. \A i \in DOMAIN u : u[i].do = "allscan" => i > 1 /\ u[i - 1].do = "release"
  <2> SUFFICES ASSUME NEW i \in DOMAIN u, u[i].do = "allscan"
               PROVE  i > 1 /\ u[i - 1].do = "release"
    OBVIOUS
  <2>1. PICK m \in Nat : m = Len(s)
    BY <1>1, LenProperties
  <2>2. /\ \/ i \in DOMAIN s /\ u[i] = s[i]
           \/ i > m /\ i - m \in DOMAIN t /\ u[i] = t[i - m]
        /\ \A k \in DOMAIN s : u[k] = s[k]
        /\ \A j \in DOMAIN t : u[m + j] = t[j]
        /\ DOMAIN s = 1..m /\ DOMAIN t = 1..Len(t) /\ Len(t) \in Nat
    BY <1>1, <1>2, <2>1, Concatenated
  <2>3. CASE i \in DOMAIN s /\ u[i] = s[i]
    <3>1. i > 1 /\ s[i - 1].do = "release"
      BY <2>3 DEF Cleared
    <3>2. i - 1 \in DOMAIN s
      BY <2>2, <2>3, <3>1
    <3> QED
      BY <2>2, <3>1, <3>2
  <2>4. CASE i > m /\ i - m \in DOMAIN t /\ u[i] = t[i - m]
    <3>1. PICK k \in 1..Len(t) : k = i - m
      BY <2>2, <2>4
    <3>2. k > 1 /\ t[k - 1].do = "release"
      BY <2>2, <2>4, <3>1 DEF Cleared
    <3>3. k - 1 \in DOMAIN t
      BY <2>2, <3>1, <3>2
    <3>4. i > 1 /\ i - 1 = m + (k - 1)
      <4>1. i \in Nat
        BY <1>1, <1>2, <2>1, Concatenated, LenProperties
      <4>2. k \in Nat /\ i > m
        BY <2>2, <2>4, <3>1
      <4> QED
        BY <3>1, <3>2, <4>1, <4>2, Shifted
    <3> QED
      BY <2>2, <3>2, <3>3, <3>4
  <2> QED
    BY <2>2, <2>3, <2>4
<1> QED
  BY <1>2, <1>3 DEF Cleared

LEMMA PassesClosed == Closed2(Passes) /\ Closed2(ReleasedPasses)
<1>1. <<>> \in Passes /\ <<>> \in ReleasedPasses
  BY EmptySeq DEF Passes, ReleasedPasses, Cleared
<1>2. ASSUME NEW s \in Passes, NEW t \in Passes PROVE s \o t \in Passes
  <2>1. s \in Seq(ScriptSteps) /\ t \in Seq(ScriptSteps)
    BY DEF Passes
  <2>2. s \o t \in Seq(ScriptSteps) /\ \A i \in DOMAIN (s \o t) : (s \o t)[i].do # "persistent"
    BY <2>1, Concatenated DEF Passes
  <2> QED
    BY <2>2 DEF Passes
<1>3. ASSUME NEW s \in ReleasedPasses, NEW t \in ReleasedPasses PROVE s \o t \in ReleasedPasses
  <2>1. s \in Passes /\ t \in Passes /\ s \in Seq(ScriptSteps) /\ t \in Seq(ScriptSteps)
    BY DEF ReleasedPasses, Passes
  <2>2. s \o t \in Passes
    BY <1>2, <2>1
  <2>3. Cleared(s \o t)
    BY <2>1, ClearedConcat DEF ReleasedPasses
  <2> QED
    BY <2>2, <2>3 DEF ReleasedPasses
<1> QED
  BY <1>1, <1>2, <1>3 DEF Closed2

LEMMA StepIs ==
  ASSUME NEW d \in {"run", "release", "allscan", "plain", "persistent", "compare", "timer", "amortized"},
         NEW p \in Devices, NEW k \in Kernels \cup Directions \cup {"none", "off"}, NEW m \in Nat,
         d = "run" => k \in Kernels, d = "timer" => k \in Directions \cup {"off"}
  PROVE  Step(d, p, k, m, m) \in ScriptSteps /\ Step(d, p, k, m, m).do = d
<1> DEFINE s == Step(d, p, k, m, m)
<1>1. s.do = d /\ s.dev = p /\ s.kernel = k /\ s.made = m /\ s.used = m
  BY DEF Step
<1>2. s \in [do : {"run", "release", "allscan", "plain", "persistent", "compare", "timer", "amortized"},
             dev : Devices, kernel : Kernels \cup Directions \cup {"none", "off"}, made : Nat, used : Nat]
  BY DEF Step
<1> HIDE DEF s
<1>3. s \in ScriptSteps
  BY <1>1, <1>2 DEF ScriptSteps
<1> QED
  BY <1>1, <1>3 DEF s

LEMMA StepsAre ==
  /\ \A p \in Devices, k \in Kernels : Run(p, k) \in ScriptSteps /\ Run(p, k).do = "run"
  /\ \A x \in {"release", "plain", "persistent", "compare"} : Do(x) \in ScriptSteps /\ Do(x).do = x
  /\ \A x \in Directions \cup {"off"} : Timer(x) \in ScriptSteps /\ Timer(x).do = "timer"
  /\ \A x \in Directions : Amortized(x) \in ScriptSteps /\ Amortized(x).do = "amortized"
  /\ \A m \in Nat : AllScanOn(m, m) \in ScriptSteps /\ AllScanOn(m, m).do = "allscan"
<1>1. 0 \in Devices /\ 0 \in Nat
  <2>1. PICK n \in RankCounts : n \in Nat \ {0}
    BY ZeCoAssumption
  <2>2. 0 \in 0..(n - 1)
    BY <2>1
  <2> QED
    BY <2>1, <2>2 DEF Devices
<1>2. \A p \in Devices, k \in Kernels : Run(p, k) \in ScriptSteps /\ Run(p, k).do = "run"
  BY <1>1, StepIs DEF Run
<1>3. \A x \in {"release", "plain", "persistent", "compare"} : Do(x) \in ScriptSteps /\ Do(x).do = x
  BY <1>1, StepIs DEF Do
<1>4. \A x \in Directions \cup {"off"} : Timer(x) \in ScriptSteps /\ Timer(x).do = "timer"
  BY <1>1, StepIs DEF Timer
<1>5. \A x \in Directions : Amortized(x) \in ScriptSteps /\ Amortized(x).do = "amortized"
  BY <1>1, StepIs DEF Amortized
<1>6. \A m \in Nat : AllScanOn(m, m) \in ScriptSteps /\ AllScanOn(m, m).do = "allscan"
  BY <1>1, StepIs DEF AllScanOn
<1> QED
  BY <1>2, <1>3, <1>4, <1>5, <1>6

\* One step that is neither an AllScan nor the swap of runners.
LEMMA SinglePass ==
  ASSUME NEW s \in ScriptSteps, s.do \notin {"persistent", "allscan"}
  PROVE  <<s>> \in ReleasedPasses
<1>1. <<s>> \in Seq(ScriptSteps) /\ DOMAIN <<s>> = {1} /\ <<s>>[1] = s
  OBVIOUS
<1> QED
  BY <1>1 DEF ReleasedPasses, Passes, Cleared

LEMMA PairPass ==
  ASSUME NEW s \in ScriptSteps, NEW t \in ScriptSteps,
         s.do \notin {"persistent", "allscan"},
         t.do # "persistent", t.do = "allscan" => s.do = "release"
  PROVE  <<s, t>> \in ReleasedPasses
<1>1. <<s, t>> \in Seq(ScriptSteps) /\ DOMAIN <<s, t>> = {1, 2} /\ <<s, t>>[1] = s /\ <<s, t>>[2] = t
  OBVIOUS
<1> QED
  BY <1>1 DEF ReleasedPasses, Passes, Cleared

LEMMA RankPasses ==
  ASSUME P \in RankCounts
  PROVE  /\ PerRank(Stage1) \in ReleasedPasses /\ PerRank(Stage2) \in ReleasedPasses
         /\ PerRank(GradO) \in ReleasedPasses /\ PerRank(GradH) \in ReleasedPasses
<1>1. \A p \in Devices : /\ Stage1(p) \in ReleasedPasses /\ Stage2(p) \in ReleasedPasses
                         /\ GradO(p) \in ReleasedPasses /\ GradH(p) \in ReleasedPasses
  <2> TAKE p \in Devices
  <2>1. \A k \in Kernels : Run(p, k) \in ScriptSteps /\ Run(p, k).do = "run"
    BY StepsAre
  <2>2. {"gate_cumsum", "chunk_h", "chunk_o", "grad_o", "grad_h"} \subseteq Kernels
    BY DEF Kernels
  <2>3. Stage1(p) \in ReleasedPasses /\ GradH(p) \in ReleasedPasses
    BY <2>1, <2>2, PairPass DEF Stage1, GradH
  <2>4. Stage2(p) \in ReleasedPasses /\ GradO(p) \in ReleasedPasses
    BY <2>1, <2>2, SinglePass DEF Stage2, GradO
  <2> QED
    BY <2>3, <2>4
<1>2. P \in Nat /\ \A i \in 1..P : i - 1 \in Devices
  <2>1. P \in Nat
    BY ZeCoAssumption
  <2>2. ASSUME NEW i \in 1..P PROVE i - 1 \in 0..(P - 1)
    BY <2>1
  <2> QED
    BY <2>1, <2>2 DEF Devices
<1>3. /\ [i \in 1..P |-> Stage1(i - 1)] \in Seq(ReleasedPasses)
      /\ [i \in 1..P |-> Stage2(i - 1)] \in Seq(ReleasedPasses)
      /\ [i \in 1..P |-> GradO(i - 1)] \in Seq(ReleasedPasses)
      /\ [i \in 1..P |-> GradH(i - 1)] \in Seq(ReleasedPasses)
  BY <1>1, <1>2, IsASeq
<1> QED
  BY <1>3, PassesClosed, Flattened DEF PerRank

LEMMA BoundaryPasses ==
  /\ Boundary \in ReleasedPasses
  /\ \A H \in Nat : MultiBoundary(H) \in Passes
<1>1. Boundary \in ReleasedPasses
  <2>1. <<Do("release"), AllScanOn(0, 0)>> \in ReleasedPasses
    BY StepsAre, PairPass
  <2> QED
    BY <2>1, PassesClosed DEF Boundary, Closed2
<1>2. ASSUME NEW H \in Nat PROVE MultiBoundary(H) \in Passes
  <2>1. AllScanOn(H, H) \in ScriptSteps /\ AllScanOn(H, H).do = "allscan"
    BY StepsAre
  <2>2. <<AllScanOn(H, H)>> \in Passes
    BY <2>1 DEF Passes
  <2> QED
    BY <2>2, PassesClosed DEF MultiBoundary, Closed2
<1> QED
  BY <1>1, <1>2

LEMMA SingleHeadPasses ==
  ASSUME P \in RankCounts
  PROVE  Forward \in ReleasedPasses /\ Backward \in ReleasedPasses
<1>1. \A s, t \in ReleasedPasses : s \o t \in ReleasedPasses
  BY PassesClosed DEF Closed2
<1>2. Forward \in ReleasedPasses
  BY <1>1, RankPasses, BoundaryPasses DEF Forward
<1>3. Backward \in ReleasedPasses
  BY <1>1, RankPasses, BoundaryPasses DEF Backward
<1> QED
  BY <1>2, <1>3

LEMMA MultiHeadPasses ==
  ASSUME P \in RankCounts, NEW H \in Nat
  PROVE  ForwardMultihead(H) \in Passes /\ BackwardMultihead(H) \in Passes
<1>1. \A s, t \in Passes : s \o t \in Passes
  BY PassesClosed DEF Closed2
<1>2. \A s \in Passes : Repeat(H, s) \in Passes
  BY PassesClosed, Repeated
<1>3. ReleasedPasses \subseteq Passes
  BY DEF ReleasedPasses
<1>4. ForwardMultihead(H) \in Passes
  BY <1>1, <1>2, <1>3, RankPasses, BoundaryPasses DEF ForwardMultihead
<1>5. BackwardMultihead(H) \in Passes
  BY <1>1, <1>2, <1>3, RankPasses, BoundaryPasses DEF BackwardMultihead
<1> QED
  BY <1>4, <1>5

\* A measurement: one swap to held workers, after a pass that begins with the
\* swap back to per-kernel workers, and every AllScan worker after a release.
Measured ==
  {s \in Seq(ScriptSteps) : s # <<>> /\ s[1].do = "plain" /\ Once(s) /\ Cleared(s)}

LEMMA MeasuredMore ==
  ASSUME NEW s \in Measured, NEW t \in ReleasedPasses
  PROVE  s \o t \in Measured
<1>1. s \in Seq(ScriptSteps) /\ t \in Seq(ScriptSteps) /\ Cleared(s) /\ Cleared(t) /\ Once(s)
  BY DEF Measured, ReleasedPasses, Passes
<1>2. PICK u : u = s \o t
  OBVIOUS
<1>3. u \in Seq(ScriptSteps) /\ Cleared(u)
  BY <1>1, <1>2, ClearedConcat, Concatenated
<1>4. 1 \in DOMAIN s /\ s[1].do = "plain"
  <2>1. Len(s) \in Nat \ {0} /\ DOMAIN s = 1..Len(s)
    BY <1>1, EmptySeq, LenProperties DEF Measured
  <2> QED
    BY <2>1 DEF Measured
<1>5. u # <<>> /\ u[1].do = "plain"
  <2>1. 1 \in DOMAIN u /\ u[1] = s[1]
    BY <1>1, <1>2, <1>4, Concatenated
  <2> QED
    BY <1>4, <2>1
<1>6. \A i \in DOMAIN u : u[i].do = "persistent" => i \in DOMAIN s /\ u[i] = s[i]
  BY <1>1, <1>2, Concatenated DEF ReleasedPasses, Passes
<1>7. Once(u)
  BY <1>1, <1>6 DEF Once
<1> QED
  BY <1>2, <1>3, <1>5, <1>7 DEF Measured

LEMMA MeasuredOpens ==
  ASSUME NEW s \in ReleasedPasses, s # <<>>, s[1].do = "plain",
         NEW x \in ScriptSteps, x.do = "persistent"
  PROVE  s \o <<x>> \in Measured
<1>1. s \in Seq(ScriptSteps) /\ Cleared(s)
  BY DEF ReleasedPasses, Passes
<1>2. PICK t : t = <<x>>
  OBVIOUS
<1>3. t \in Seq(ScriptSteps) /\ DOMAIN t = {1} /\ t[1] = x /\ Cleared(t)
  BY <1>2 DEF Cleared
<1>4. PICK u : u = s \o t
  OBVIOUS
<1>5. u \in Seq(ScriptSteps) /\ Cleared(u)
  BY <1>1, <1>3, <1>4, ClearedConcat, Concatenated
<1>6. 1 \in DOMAIN s
  <2>1. Len(s) \in Nat \ {0} /\ DOMAIN s = 1..Len(s)
    BY <1>1, EmptySeq, LenProperties
  <2> QED
    BY <2>1
<1>7. u # <<>> /\ u[1].do = "plain"
  <2>1. 1 \in DOMAIN u /\ u[1] = s[1]
    BY <1>1, <1>3, <1>4, <1>6, Concatenated
  <2> QED
    BY <2>1
<1>8. \A i \in DOMAIN u : u[i].do = "persistent" => i = Len(s) + 1
  <2> SUFFICES ASSUME NEW i \in DOMAIN u, u[i].do = "persistent" PROVE i = Len(s) + 1
    OBVIOUS
  <2>1. PICK m \in Nat : m = Len(s)
    BY <1>1, LenProperties
  <2>2. \/ i \in DOMAIN s /\ u[i] = s[i]
        \/ i > m /\ i - m \in DOMAIN t
    BY <1>1, <1>3, <1>4, <2>1, Concatenated
  <2>3. ~ (i \in DOMAIN s /\ u[i] = s[i])
    BY DEF ReleasedPasses, Passes
  <2>4. i \in Nat
    BY <1>5, LenProperties
  <2>5. i - m = 1
    BY <1>3, <2>2, <2>3
  <2> QED
    BY <2>1, <2>4, <2>5
<1>9. Once(u)
  BY <1>8 DEF Once
<1> QED
  BY <1>2, <1>4, <1>5, <1>7, <1>9 DEF Measured

LEMMA MeasurePasses ==
  ASSUME NEW dir \in Directions, NEW call \in ReleasedPasses
  PROVE  Measure(dir, call) \in Measured
<1>1. \A s, t \in ReleasedPasses : s \o t \in ReleasedPasses
  BY PassesClosed DEF Closed2
<1>2. /\ <<Do("plain")>> \in ReleasedPasses /\ <<Do("compare")>> \in ReleasedPasses
      /\ <<Timer(dir)>> \in ReleasedPasses /\ <<Amortized(dir)>> \in ReleasedPasses
  BY StepsAre, SinglePass
<1>3. <<Timer("off"), Do("release")>> \in ReleasedPasses
  BY StepsAre, PairPass
<1>4. Repeat(Samples, call) \in ReleasedPasses
  BY ZeCoAssumption, PassesClosed, Repeated
<1>5. TimeOnPersistent(dir, call) \in ReleasedPasses
  BY <1>1, <1>2, <1>3, <1>4 DEF TimeOnPersistent
<1>6. <<Do("plain")>> \o call \o <<Do("persistent")>> \in Measured
  <2>1. PICK s : s = <<Do("plain")>>
    OBVIOUS
  <2>2. s \in ReleasedPasses /\ s \in Seq(ScriptSteps) /\ DOMAIN s = {1} /\ s[1].do = "plain"
    BY <1>2, <2>1, StepsAre DEF ReleasedPasses, Passes
  <2>3. PICK u : u = s \o call
    OBVIOUS
  <2>4. u \in ReleasedPasses
    BY <1>1, <2>2, <2>3
  <2>5. call \in Seq(ScriptSteps)
    BY DEF ReleasedPasses, Passes
  <2>6. 1 \in DOMAIN u /\ u[1] = s[1]
    BY <2>2, <2>3, <2>5, Concatenated
  <2>7. u # <<>> /\ u[1].do = "plain"
    BY <2>2, <2>6
  <2>8. u \o <<Do("persistent")>> \in Measured
    BY <2>4, <2>7, StepsAre, MeasuredOpens
  <2> QED
    BY <2>1, <2>3, <2>8
<1>7. GatePersistent(call) \in Measured
  BY <1>2, <1>6, MeasuredMore DEF GatePersistent
<1> QED
  BY <1>2, <1>5, <1>7, MeasuredMore DEF Measure

\* What a public call unfolds into.
LEMMA ScriptIs ==
  ASSUME P \in RankCounts, NEW op \in Ops, NEW H \in HeadCounts
  PROVE  /\ Script(op, H) \in Seq(ScriptSteps)
         /\ op \in {"forward", "backward"} => Script(op, H) \in ReleasedPasses
         /\ op \in {"forward_multihead", "backward_multihead"} => Script(op, H) \in Passes
         /\ op \in {"measure", "measure_backward"} => Script(op, H) \in Measured
<1>1. H \in Nat
  BY ZeCoAssumption
<1>2. /\ Script("forward", H) \in ReleasedPasses
      /\ Script("backward", H) \in ReleasedPasses
  BY SingleHeadPasses DEF Script
<1>3. /\ Script("forward_multihead", H) \in Passes
      /\ Script("backward_multihead", H) \in Passes
  BY <1>1, MultiHeadPasses DEF Script
<1>4. /\ Script("measure", H) \in Measured
      /\ Script("measure_backward", H) \in Measured
  <2>1. /\ Measure("forward", Forward) \in Measured
        /\ Measure("backward", Backward) \in Measured
    BY SingleHeadPasses, MeasurePasses DEF Directions
  <2> QED
    BY <2>1 DEF Script
<1>5. ReleasedPasses \subseteq Seq(ScriptSteps) /\ Passes \subseteq Seq(ScriptSteps)
      /\ Measured \subseteq Seq(ScriptSteps)
  BY DEF ReleasedPasses, Passes, Measured
<1> QED
  BY <1>2, <1>3, <1>4, <1>5 DEF Ops

-----------------------------------------------------------------------------
(* SimplerZeCo *)

LEMMA ScriptParts ==
  ASSUME InvScript, script # <<>>
  PROVE  /\ Len(script) \in Nat \ {0} /\ DOMAIN script = 1..Len(script) /\ 1 \in DOMAIN script
         /\ Head(script) = script[1] /\ Head(script) \in ScriptSteps
         /\ Tail(script) \in Seq(ScriptSteps)
         /\ DOMAIN Tail(script) = 1..(Len(script) - 1)
         /\ \A i \in DOMAIN Tail(script) : i + 1 \in DOMAIN script /\ Tail(script)[i] = script[i + 1]
<1>1. script \in Seq(ScriptSteps)
  BY DEF InvScript
<1>2. Len(script) \in Nat \ {0}
  BY <1>1, EmptySeq
<1>3. DOMAIN script = 1..Len(script)
  BY <1>1, LenProperties
<1>4. /\ Head(script) \in ScriptSteps /\ Tail(script) \in Seq(ScriptSteps)
      /\ Len(Tail(script)) = Len(script) - 1
      /\ \A i \in 1..Len(Tail(script)) : Tail(script)[i] = script[i + 1]
  BY <1>1, HeadTailProperties
<1>5. DOMAIN Tail(script) = 1..(Len(script) - 1)
  BY <1>4, LenProperties
<1>6. Head(script) = script[1]
  OBVIOUS
<1> QED
  BY <1>2, <1>3, <1>4, <1>5, <1>6

\* What is left after an exception.
LEMMA RestIs ==
  ASSUME NEW s \in {<<>>, <<Do("release")>>}
  PROVE  /\ s \in Seq(ScriptSteps)
         /\ \A i \in DOMAIN s : s[i].do = "release"
         /\ s # <<>> => Head(s).do = "release"
         /\ Once(s) /\ Released(s)
<1>1. Do("release") \in ScriptSteps /\ Do("release").do = "release"
  BY StepsAre
<1>2. PICK x : x = Do("release")
  OBVIOUS
<1>3. x \in ScriptSteps /\ x.do = "release" /\ s \in {<<>>, <<x>>}
  BY <1>1, <1>2
<1>4. CASE s = <<>>
  <2>1. s \in Seq(ScriptSteps) /\ DOMAIN s = {}
    BY <1>4
  <2> QED
    BY <1>4, <2>1 DEF Once, Released
<1>5. CASE s = <<x>>
  <2>1. s \in Seq(ScriptSteps) /\ DOMAIN s = {1} /\ s[1] = x /\ Head(s) = x
    BY <1>3, <1>5
  <2>2. Once(s) /\ Released(s)
    BY <1>3, <2>1 DEF Once, Released
  <2> QED
    BY <1>3, <2>1, <2>2
<1> QED
  BY <1>3, <1>4, <1>5

\* A step of a call shortens its script, or leaves it for the finally block.
LEMMA ScriptKept ==
  ASSUME InvScript, script # <<>>, UNCHANGED <<P, built, session>>,
         \/ script' = script /\ runners' = runners
         \/ script' = Tail(script) /\
              (\/ runners' = runners /\ Head(script).do # "plain"
               \/ runners' = "plain"
               \/ Head(script).do = "persistent")
         \/ script' \in {<<>>, <<Do("release")>>}
  PROVE  InvScript'
<1>01. built
  BY DEF InvScript
<1>02. Once(script) /\ session \subseteq Ops
  BY DEF InvScript
<1>03. P \in RankCounts /\ session \in Sessions
  BY <1>01 DEF InvScript
<1>04. \A i \in DOMAIN script : script[i].do = "persistent" =>
         Measuring /\ (runners = "plain" \/ Head(script).do = "plain")
  BY DEF InvScript
<1>1. /\ built /\ Once(script) /\ session \subseteq Ops
      /\ P \in RankCounts /\ session \in Sessions
      /\ \A i \in DOMAIN script : script[i].do = "persistent" =>
           Measuring /\ (runners = "plain" \/ Head(script).do = "plain")
  BY <1>01, <1>02, <1>03, <1>04
<1>2. /\ Head(script) = script[1] /\ Tail(script) \in Seq(ScriptSteps) /\ 1 \in DOMAIN script
      /\ \A i \in DOMAIN Tail(script) :
           i + 1 \in DOMAIN script /\ i + 1 # 1 /\ Tail(script)[i] = script[i + 1]
      /\ DOMAIN Tail(script) \subseteq Nat
  <2>0. Len(script) \in Nat \ {0}
    BY ScriptParts
  <2>1. PICK n \in Nat \ {0} : n = Len(script)
    BY <2>0
  <2>2. DOMAIN Tail(script) = 1..(n - 1)
    BY <2>1, ScriptParts
  <2>3. \A i \in 1..(n - 1) : i + 1 # 1 /\ i \in Nat
    OBVIOUS
  <2>4. /\ Head(script) = script[1] /\ Tail(script) \in Seq(ScriptSteps) /\ 1 \in DOMAIN script
        /\ \A i \in DOMAIN Tail(script) : i + 1 \in DOMAIN script /\ Tail(script)[i] = script[i + 1]
    BY ScriptParts
  <2> QED
    BY <2>2, <2>3, <2>4
<1>3. built' /\ P' = P /\ session' = session /\ (Measuring' <=> Measuring)
  BY <1>1 DEF Measuring
<1>4. CASE script' = script /\ runners' = runners
  BY <1>1, <1>3, <1>4 DEF InvScript
<1>5. CASE script' = Tail(script) /\
             (\/ runners' = runners /\ Head(script).do # "plain"
              \/ runners' = "plain"
              \/ Head(script).do = "persistent")
  <2>1. Once(Tail(script))
    <3> SUFFICES ASSUME NEW i \in DOMAIN Tail(script), NEW j \in DOMAIN Tail(script),
                        Tail(script)[i].do = "persistent", Tail(script)[j].do = "persistent"
                 PROVE  i = j
      BY DEF Once
    <3>1. i + 1 = j + 1 /\ i \in Nat /\ j \in Nat
      BY <1>1, <1>2 DEF Once
    <3> QED
      BY <3>1
  <2>2. ASSUME NEW i \in DOMAIN Tail(script), Tail(script)[i].do = "persistent"
        PROVE  Measuring /\ runners' = "plain"
    <3>1. script[i + 1].do = "persistent" /\ i + 1 \in DOMAIN script /\ i + 1 # 1
      BY <1>2, <2>2
    <3>2. Head(script).do # "persistent"
      BY <1>1, <1>2, <3>1 DEF Once
    <3> QED
      BY <1>1, <1>5, <3>1, <3>2
  <2> QED
    BY <1>1, <1>2, <1>3, <1>5, <2>1, <2>2 DEF InvScript
<1>6. CASE script' \in {<<>>, <<Do("release")>>}
  <2>1. /\ script' \in Seq(ScriptSteps) /\ Once(script')
        /\ \A i \in DOMAIN script' : script'[i].do = "release"
    BY <1>6, RestIs
  <2> QED
    BY <1>1, <1>3, <2>1 DEF InvScript
<1> QED
  BY <1>4, <1>5, <1>6

LEMMA ReleaseKept ==
  ASSUME InvScript, InvRelease, script # <<>>, UNCHANGED session,
         \/ script' = script /\ (held' = held \/ ~At("allscan"))
         \/ script' = Tail(script) /\ (Head(script).do # "release" \/ held' = NoneHeld)
         \/ script' \in {<<>>, <<Do("release")>>},
         ring' > 0 => held' = NoneHeld
  PROVE  InvRelease'
<1>1. Measuring' <=> Measuring
  BY DEF Measuring
<1>2. ASSUME Measuring PROVE Released(script') /\ (At("allscan")' => held' = NoneHeld)
  <2>1. Released(script) /\ (At("allscan") => held = NoneHeld)
    BY <1>2 DEF InvRelease
  <2>2. CASE script' = script /\ (held' = held \/ ~At("allscan"))
    BY <2>1, <2>2 DEF At
  <2>3. CASE script' = Tail(script) /\ (Head(script).do # "release" \/ held' = NoneHeld)
    <3>0. Len(script) \in Nat \ {0}
      BY ScriptParts
    <3>1. PICK n \in Nat \ {0} : n = Len(script)
      BY <3>0
    <3>2. PICK u : u = Tail(script)
      OBVIOUS
    <3>3. /\ DOMAIN u = 1..(n - 1) /\ u \in Seq(ScriptSteps) /\ Head(script) = script[1]
          /\ DOMAIN script = 1..n
          /\ \A i \in 1..(n - 1) : i + 1 \in DOMAIN script /\ u[i] = script[i + 1]
      BY <3>1, <3>2, ScriptParts
    <3>4. ASSUME NEW i \in DOMAIN u, i > 1, u[i].do = "allscan" PROVE u[i - 1].do = "release"
      <4>1. i \in 1..(n - 1) /\ i - 1 \in 1..(n - 1) /\ (i - 1) + 1 = i /\ (i + 1) - 1 = i /\ i + 1 > 1
        BY <3>3, <3>4
      <4>2. script[i + 1].do = "allscan" /\ i + 1 \in DOMAIN script /\ u[i - 1] = script[i]
        BY <3>3, <3>4, <4>1
      <4>3. script[(i + 1) - 1].do = "release"
        BY <2>1, <4>1, <4>2 DEF Released
      <4> QED
        BY <4>1, <4>2, <4>3
    <3>5. ASSUME u # <<>>, Head(u).do = "allscan" PROVE held' = NoneHeld
      <4>1. Len(u) \in Nat \ {0} /\ DOMAIN u = 1..Len(u)
        BY <3>3, <3>5, EmptySeq, LenProperties
      <4>2. 1 \in 1..(n - 1)
        BY <3>3, <4>1
      <4>3. Head(u) = u[1] /\ u[1] = script[1 + 1] /\ 1 + 1 \in DOMAIN script
        BY <3>3, <4>2
      <4>4. script[2].do = "allscan" /\ 2 \in DOMAIN script
        BY <3>5, <4>3
      <4>5. script[1].do = "release"
        <5>1. 2 > 1 /\ 2 - 1 = 1
          OBVIOUS
        <5> QED
          BY <2>1, <4>4, <5>1 DEF Released
      <4> QED
        BY <2>3, <3>3, <4>5
    <3> QED
      BY <2>3, <3>2, <3>4, <3>5 DEF Released, At
  <2>4. CASE script' \in {<<>>, <<Do("release")>>}
    BY <2>4, RestIs DEF At
  <2> QED
    BY <2>2, <2>3, <2>4
<1> QED
  BY <1>1, <1>2 DEF InvRelease

LEMMA StepsGoOn ==
  ASSUME Done \/ Raise
  PROVE  script' = Tail(script) \/ script' \in {<<>>, <<Do("release")>>}
BY DEF Done, Raise

LEMMA ZeCoInit ==
  ASSUME Init
  PROVE  ZeCoInv
<1>1. InvScript
  BY DEF Init, InvScript, Once, Ops
<1>2. InvRunners
  BY DEF Init, InvRunners, NoneHeld
<1>3. InvSteps /\ OwnChecksNeverFire /\ InvRelease
  BY DEF Init, InvSteps, OwnChecksNeverFire, InvRelease, Measuring
<1> QED
  BY <1>1, <1>2, <1>3 DEF ZeCoInv

LEMMA ZeCoIdle ==
  ASSUME ZeCoInv, Idle
  PROVE  fresh = {} /\ ring = 0
BY DEF ZeCoInv, InvSteps, Idle, At

LEMMA BuildKeeps ==
  ASSUME ZeCoInv, Build
  PROVE  ZeCoInv'
<1>1. /\ ~built /\ script = <<>> /\ built' /\ P' \in RankCounts /\ session' \in Sessions
      /\ runners' = "plain" /\ staged' = {}
      /\ UNCHANGED <<held, orphans, fresh, ring, script, refused>>
  BY DEF Build, Idle
<1>2. fresh = {} /\ ring = 0 /\ held = NoneHeld /\ orphans = {}
  BY <1>1, ZeCoIdle DEF ZeCoInv, InvRunners, Idle
<1>3. InvScript'
  <2>1. session' \subseteq Ops
    BY <1>1, ZeCoAssumption DEF Ops
  <2> QED
    BY <1>1, <2>1 DEF ZeCoInv, InvScript, Once
<1>4. InvRunners'
  BY <1>1, <1>2 DEF ZeCoInv, InvRunners
<1>5. InvSteps' /\ InvRelease'
  BY <1>1, <1>2 DEF InvSteps, InvRelease, Released, At
<1>6. OwnChecksNeverFire'
  BY <1>1 DEF ZeCoInv, OwnChecksNeverFire
<1> QED
  BY <1>3, <1>4, <1>5, <1>6 DEF ZeCoInv

\* The loop that closes the runners: what a runner keeps that raises is its own.
LEMMA ClosesSome ==
  ASSUME ZeCoInv, CloseRaises
  PROVE  InvRunners /\ held # NoneHeld /\ held' \in [Devices -> {"none", "up", "broken"}]
<1>1. PICK d \in Devices : held[d] # "none" /\ held' \in HeldAfter(d)
  BY DEF CloseRaises
<1>2. InvRunners /\ held \in [Devices -> {"none", "up", "broken"}]
  BY DEF ZeCoInv, InvRunners
<1>3. held # NoneHeld
  BY <1>1 DEF NoneHeld
<1>4. held' \in [Devices -> {"none", "up", "broken"}]
  BY <1>1, <1>2 DEF HeldAfter
<1> QED
  BY <1>2, <1>3, <1>4

LEMMA CloseKeeps ==
  ASSUME ZeCoInv, Close
  PROVE  ZeCoInv' /\ (~built' \/ raised')
<1>1. script = <<>> /\ UNCHANGED <<P, orphans, fresh, ring, script, refused>>
  BY DEF Close, Idle
<1>2. fresh = {} /\ ring = 0 /\ orphans = {}
  BY <1>1, ZeCoIdle DEF ZeCoInv, InvRunners, Idle
<1>3. OwnChecksNeverFire' /\ InvSteps'
  BY <1>1, <1>2 DEF ZeCoInv, OwnChecksNeverFire, InvSteps, At
<1>4. InvRelease'
  BY <1>1, <1>2 DEF InvRelease, Released, At
<1>5. CASE AllClose /\ ~built' /\ session' = {} /\ runners' = "none"
  <2>1. InvScript'
    BY <1>1, <1>5 DEF ZeCoInv, InvScript, Once
  <2>2. InvRunners'
    BY <1>1, <1>2, <1>5 DEF AllClose, InvRunners, NoneHeld
  <2> QED
    BY <1>3, <1>4, <1>5, <2>1, <2>2 DEF ZeCoInv
<1>6. CASE CloseRaises /\ raised' = TRUE /\ UNCHANGED <<built, session, runners, staged>>
  <2>1. InvScript'
    BY <1>1, <1>6 DEF ZeCoInv, InvScript, Measuring
  <2>2. InvRunners'
    BY <1>1, <1>6, ClosesSome DEF InvRunners, Measuring
  <2> QED
    BY <1>3, <1>4, <1>6, <2>1, <2>2 DEF ZeCoInv
<1> QED
  BY <1>5, <1>6 DEF Close

LEMMA CallKeeps ==
  ASSUME ZeCoInv, NEW op \in Ops, NEW H \in HeadCounts, Call(op, H)
  PROVE  ZeCoInv'
<1>1. /\ built /\ script = <<>> /\ op \in session /\ script' = Script(op, H)
      /\ UNCHANGED <<P, built, session, runners, staged, held, orphans, fresh, ring, refused>>
  BY DEF Call, Idle
<1>2. fresh = {} /\ ring = 0
  BY <1>1, ZeCoIdle DEF Idle
<1> DEFINE measures == {"measure", "measure_backward"}
           multis   == {"forward_multihead", "backward_multihead"}
<1>3. /\ script' \in Seq(ScriptSteps)
      /\ op \in {"forward", "backward"} => script' \in ReleasedPasses
      /\ op \in multis => script' \in Passes
      /\ op \in measures => script' \in Measured
  <2>1. P \in RankCounts
    BY <1>1 DEF ZeCoInv, InvScript
  <2> QED
    BY <1>1, <2>1, ScriptIs
<1>4. op \in {"forward", "backward"} \cup multis \cup measures
  BY DEF Ops
<1>5. op \in {"forward", "backward"} \cup multis => script' \in Passes
  BY <1>3 DEF ReleasedPasses
<1>6. /\ Once(script')
      /\ \A i \in DOMAIN script' : script'[i].do = "persistent" => op \in measures /\ Head(script').do = "plain"
  <2>1. CASE op \in measures
    <3>1. script' # <<>> /\ script'[1].do = "plain" /\ Once(script')
      BY <1>3, <2>1 DEF Measured
    <3>2. Head(script') = script'[1]
      BY <1>3, <3>1
    <3> QED
      BY <2>1, <3>1, <3>2
  <2>2. CASE op \notin measures
    <3>1. \A i \in DOMAIN script' : script'[i].do # "persistent"
      BY <1>4, <1>5, <2>2 DEF Passes
    <3> QED
      BY <3>1 DEF Once
  <2> QED
    BY <2>1, <2>2
<1>7. op \in measures => Measuring
  BY <1>1 DEF Measuring
<1>8. (Measuring' <=> Measuring) /\ built'
  BY <1>1 DEF Measuring
<1>9. InvScript'
  <2>1. session \subseteq Ops /\ P \in RankCounts /\ session \in Sessions
    BY <1>1 DEF ZeCoInv, InvScript
  <2>2. \A i \in DOMAIN script' : script'[i].do = "persistent" =>
          Measuring' /\ (runners' = "plain" \/ Head(script').do = "plain")
    BY <1>6, <1>7, <1>8
  <2> QED
    BY <1>1, <1>3, <1>6, <1>8, <2>1, <2>2 DEF InvScript
<1>10. InvRunners'
  BY <1>1 DEF ZeCoInv, InvRunners, Measuring, NoneHeld
<1>11. InvSteps' /\ OwnChecksNeverFire'
  BY <1>1, <1>2 DEF ZeCoInv, InvSteps, OwnChecksNeverFire, At
<1>12. ASSUME Separated PROVE InvRelease'
  <2> SUFFICES ASSUME Measuring PROVE Released(script') /\ (At("allscan")' => held' = NoneHeld)
    BY <1>1, <1>2, <1>8 DEF InvRelease
  <2>1. op \notin multis
    <3>1. session \in Sessions
      BY <1>1 DEF ZeCoInv, InvScript
    <3>2. session \cap multis = {}
      BY <1>12, <3>1 DEF Separated, Measuring
    <3> QED
      BY <1>1, <3>2
  <2>2. Cleared(script')
    BY <1>3, <1>4, <2>1 DEF ReleasedPasses, Measured
  <2>3. ASSUME script' # <<>> PROVE 1 \in DOMAIN script' /\ Head(script') = script'[1]
    <3>1. Len(script') \in Nat \ {0} /\ DOMAIN script' = 1..Len(script')
      BY <1>3, <2>3, EmptySeq, LenProperties
    <3> QED
      BY <1>3, <2>3, <3>1
  <2>4. ~ (script' # <<>> /\ Head(script').do = "allscan")
    <3> SUFFICES ASSUME script' # <<>>, Head(script').do = "allscan" PROVE FALSE
      OBVIOUS
    <3>1. 1 \in DOMAIN script' /\ script'[1].do = "allscan"
      BY <2>3
    <3>2. 1 > 1
      BY <2>2, <3>1 DEF Cleared
    <3> QED
      BY <3>2
  <2> QED
    BY <2>2, <2>4 DEF Cleared, Released, At
<1> QED
  BY <1>9, <1>10, <1>11, <1>12 DEF ZeCoInv

\* In a kernel step nothing else is up; a release step finds nothing up but
\* held workers.
LEMMA StepFinds ==
  ASSUME ZeCoInv
  PROVE  /\ ring > 0 => At("allscan") /\ fresh = {}
         /\ ring \in Nat
         /\ ~At("run") => fresh = {}
         /\ ~At("allscan") => ring = 0
         /\ At("run") => ring = 0
BY DEF ZeCoInv, InvSteps, At

LEMMA StandUpKernelKeeps ==
  ASSUME ZeCoInv, StandUpKernel
  PROVE  ZeCoInv'
<1>1. /\ script # <<>> /\ Head(script).do = "run" /\ runners = "plain"
      /\ Head(script).dev \notin fresh /\ fresh' = fresh \cup {Head(script).dev}
      /\ UNCHANGED <<P, built, session, runners, staged, held, orphans, ring, script, refused>>
  BY DEF StandUpKernel, At
<1>2. InvScript'
  BY <1>1, ScriptKept DEF ZeCoInv
<1>3. InvRunners'
  BY <1>1 DEF ZeCoInv, InvRunners, Measuring, NoneHeld
<1>4. InvSteps'
  <2>1. fresh = {} /\ ring = 0
    BY <1>1, StepFinds DEF ZeCoInv, InvSteps, At
  <2> QED
    BY <1>1, <2>1 DEF InvSteps, At
<1>5. OwnChecksNeverFire' /\ (Separated => InvRelease')
  <2>1. ring' = 0
    BY <1>1, StepFinds DEF At
  <2> QED
    BY <1>1, <2>1, ReleaseKept DEF ZeCoInv, OwnChecksNeverFire
<1> QED
  BY <1>2, <1>3, <1>4, <1>5 DEF ZeCoInv

LEMMA RunKernelKeeps ==
  ASSUME ZeCoInv, RunKernel
  PROVE  ZeCoInv'
<1>1. /\ script # <<>> /\ Head(script).do = "run" /\ runners = "plain"
      /\ Head(script).dev \in fresh /\ fresh' = fresh \ {Head(script).dev}
      /\ UNCHANGED <<P, built, session, runners, staged, held, orphans, ring, refused>>
      /\ Done \/ Raise
  BY DEF RunKernel, At
<1>2. script' = Tail(script) \/ script' \in {<<>>, <<Do("release")>>}
  BY <1>1, StepsGoOn
<1>3. InvScript'
  BY <1>1, <1>2, ScriptKept DEF ZeCoInv
<1>4. InvRunners'
  BY <1>1 DEF ZeCoInv, InvRunners, Measuring, NoneHeld
<1>5. fresh' = {} /\ ring' = 0
  BY <1>1, StepFinds DEF ZeCoInv, InvSteps, At
<1>6. InvSteps' /\ OwnChecksNeverFire' /\ (Separated => InvRelease')
  BY <1>1, <1>2, <1>5, ReleaseKept DEF ZeCoInv, InvSteps, OwnChecksNeverFire
<1> QED
  BY <1>3, <1>4, <1>6 DEF ZeCoInv

LEMMA OpenHeldKeeps ==
  ASSUME ZeCoInv, OpenHeld
  PROVE  ZeCoInv'
<1> DEFINE d == Head(script).dev
<1>1. /\ script # <<>> /\ Head(script).do = "run" /\ runners = "persistent"
      /\ UNCHANGED <<P, built, session, runners, staged, orphans, fresh, ring, refused>>
  BY DEF OpenHeld, At
<1>2. /\ held' = [held EXCEPT ![d] = "up"] \/ held' = [held EXCEPT ![d] = "broken"]
      /\ script' = script \/ script' \in {<<>>, <<Do("release")>>}
  BY StepsGoOn DEF OpenHeld, Raise
<1>3. InvScript'
  BY <1>1, <1>2, ScriptKept DEF ZeCoInv
<1>4. InvRunners'
  BY <1>1, <1>2 DEF ZeCoInv, InvRunners, Measuring
<1>5. fresh' = {} /\ ring' = 0
  BY <1>1, StepFinds DEF ZeCoInv, InvSteps, At
<1>6. ~At("allscan")
  BY <1>1 DEF At
<1>7. InvSteps' /\ OwnChecksNeverFire' /\ (Separated => InvRelease')
  BY <1>1, <1>2, <1>5, <1>6, ReleaseKept DEF ZeCoInv, InvSteps, OwnChecksNeverFire
<1> QED
  BY <1>3, <1>4, <1>7 DEF ZeCoInv

\* No kernel of a pass is missing from _persistent_dispatches.
LEMMA DispatchHeldKeeps ==
  ASSUME ZeCoInv, DispatchHeld
  PROVE  ZeCoInv'
<1>1. /\ script # <<>> /\ Head(script).do = "run" /\ runners = "persistent"
      /\ refused' = (refused \/ ~(Head(script).kernel \in staged))
      /\ Done \/ Raise
      /\ UNCHANGED <<P, built, session, runners, staged, held, orphans, fresh, ring>>
  BY DEF DispatchHeld, At
<1>2. script' = Tail(script) \/ script' \in {<<>>, <<Do("release")>>}
  BY <1>1, StepsGoOn
<1>3. InvScript'
  BY <1>1, <1>2, ScriptKept DEF ZeCoInv
<1>4. InvRunners'
  BY <1>1 DEF ZeCoInv, InvRunners, Measuring, NoneHeld
<1>5. fresh' = {} /\ ring' = 0
  BY <1>1, StepFinds DEF ZeCoInv, InvSteps, At
<1>6. ~refused'
  <2>1. staged = PersistentDispatches
    BY <1>1 DEF ZeCoInv, InvRunners
  <2>2. Head(script) \in ScriptSteps
    BY <1>1, ScriptParts DEF ZeCoInv
  <2>3. Head(script).kernel \in Kernels
    BY <1>1, <2>2 DEF ScriptSteps
  <2>4. ~refused
    BY DEF ZeCoInv, OwnChecksNeverFire
  <2>5. Head(script).kernel \in staged
    BY <2>1, <2>3 DEF Kernels, PersistentDispatches
  <2> QED
    BY <1>1, <2>4, <2>5
<1>7. InvSteps' /\ (Separated => InvRelease')
  BY <1>1, <1>2, <1>5, ReleaseKept DEF ZeCoInv, InvSteps
<1> QED
  BY <1>3, <1>4, <1>6, <1>7 DEF ZeCoInv, OwnChecksNeverFire

LEMMA ReleaseKeeps ==
  ASSUME ZeCoInv, ReleaseDevices
  PROVE  ZeCoInv'
<1>1. /\ script # <<>> /\ Head(script).do = "release"
      /\ UNCHANGED <<P, built, session, runners, staged, orphans, fresh, ring, refused>>
  BY DEF ReleaseDevices, At
<1>2. \/ held' = NoneHeld /\ script' = Tail(script)
      \/ CloseRaises /\ script' \in {<<>>, <<Do("release")>>}
  BY DEF ReleaseDevices, AllClose, Done, Raise
<1>3. InvScript'
  BY <1>1, <1>2, ScriptKept DEF ZeCoInv
<1>4. InvRunners'
  <2>1. CASE held' = NoneHeld
    BY <1>1, <2>1 DEF ZeCoInv, InvRunners, Measuring, NoneHeld
  <2>2. CASE CloseRaises
    BY <1>1, <2>2, ClosesSome DEF InvRunners, Measuring
  <2> QED
    BY <1>2, <2>1, <2>2
<1>5. fresh' = {} /\ ring' = 0
  BY <1>1, StepFinds DEF At
<1>6. InvSteps' /\ OwnChecksNeverFire' /\ (Separated => InvRelease')
  BY <1>1, <1>2, <1>5, ReleaseKept DEF ZeCoInv, InvSteps, OwnChecksNeverFire
<1> QED
  BY <1>3, <1>4, <1>6 DEF ZeCoInv

LEMMA PlainKeeps ==
  ASSUME ZeCoInv, UsePlainRunners
  PROVE  ZeCoInv'
<1>1. /\ script # <<>> /\ Head(script).do = "plain"
      /\ UNCHANGED <<P, built, session, orphans, fresh, ring, refused>>
  BY DEF UsePlainRunners, At
<1>2. \/ held' = NoneHeld /\ runners' = "plain" /\ script' = Tail(script)
      \/ CloseRaises /\ script' \in {<<>>, <<Do("release")>>} /\ UNCHANGED <<runners, staged>>
  BY DEF UsePlainRunners, AllClose, Done, Raise
<1>3. InvScript'
  BY <1>1, <1>2, ScriptKept DEF ZeCoInv
<1>4. InvRunners'
  <2>1. built'
    BY <1>1 DEF ZeCoInv, InvScript
  <2>2. CASE held' = NoneHeld /\ runners' = "plain"
    BY <1>1, <2>1, <2>2 DEF ZeCoInv, InvRunners, NoneHeld
  <2>3. CASE CloseRaises /\ UNCHANGED <<runners, staged>>
    BY <1>1, <2>3, ClosesSome DEF InvRunners, Measuring
  <2> QED
    BY <1>2, <2>2, <2>3
<1>5. fresh' = {} /\ ring' = 0
  BY <1>1, StepFinds DEF At
<1>6. InvSteps' /\ OwnChecksNeverFire' /\ (Separated => InvRelease')
  BY <1>1, <1>2, <1>5, ReleaseKept DEF ZeCoInv, InvSteps, OwnChecksNeverFire
<1> QED
  BY <1>3, <1>4, <1>6 DEF ZeCoInv

\* Nothing is leaked: the runners replaced hold nothing.
LEMMA PersistentKeeps ==
  ASSUME ZeCoInv, UsePersistentRunners
  PROVE  ZeCoInv'
<1>1. /\ script # <<>> /\ Head(script).do = "persistent"
      /\ orphans' = orphans \cup Up /\ held' = NoneHeld
      /\ runners' = "persistent" /\ staged' = PersistentDispatches /\ script' = Tail(script)
      /\ UNCHANGED <<P, built, session, fresh, ring, refused>>
  BY DEF UsePersistentRunners, At, Done
<1>2. Measuring /\ runners = "plain"
  <2>1. 1 \in DOMAIN script /\ script[1] = Head(script)
    BY <1>1, ScriptParts DEF ZeCoInv
  <2> QED
    BY <1>1, <2>1 DEF ZeCoInv, InvScript
<1>3. InvScript'
  BY <1>1, ScriptKept DEF ZeCoInv
<1>4. InvRunners'
  <2>1. held = NoneHeld /\ orphans = {}
    BY <1>2 DEF ZeCoInv, InvRunners
  <2>2. orphans' = {}
    BY <1>1, <2>1 DEF Up, NoneHeld
  <2>3. built' /\ Measuring'
    BY <1>1, <1>2 DEF ZeCoInv, InvScript, Measuring
  <2>4. NoneHeld \in [Devices -> {"none", "up", "broken"}]
    BY DEF NoneHeld
  <2> QED
    BY <1>1, <2>2, <2>3, <2>4 DEF InvRunners
<1>5. fresh' = {} /\ ring' = 0
  BY <1>1, StepFinds DEF At
<1>6. InvSteps' /\ OwnChecksNeverFire' /\ (Separated => InvRelease')
  BY <1>1, <1>5, ReleaseKept DEF ZeCoInv, InvSteps, OwnChecksNeverFire
<1> QED
  BY <1>3, <1>4, <1>6 DEF ZeCoInv

\* The steps that only measure or compare.
LEMMA BookkeepingKeeps ==
  ASSUME ZeCoInv, CompareGate \/ SetTimer \/ SetAmortized
  PROVE  ZeCoInv'
<1>1. /\ script # <<>> /\ Head(script).do \in {"compare", "timer", "amortized"}
      /\ script' = Tail(script) \/ script' \in {<<>>, <<Do("release")>>}
      /\ UNCHANGED <<P, built, session, runners, staged, held, orphans, fresh, ring, refused>>
  BY StepsGoOn DEF CompareGate, SetTimer, SetAmortized, At, Done
<1>2. InvScript'
  BY <1>1, ScriptKept DEF ZeCoInv
<1>3. InvRunners'
  BY <1>1 DEF ZeCoInv, InvRunners, Measuring, NoneHeld
<1>4. fresh' = {} /\ ring' = 0
  BY <1>1, StepFinds DEF At
<1>5. InvSteps' /\ OwnChecksNeverFire' /\ (Separated => InvRelease')
  BY <1>1, <1>4, ReleaseKept DEF ZeCoInv, InvSteps, OwnChecksNeverFire
<1> QED
  BY <1>2, <1>3, <1>5 DEF ZeCoInv

LEMMA BuildAllScanKeeps ==
  ASSUME ZeCoInv, BuildAllScan
  PROVE  ZeCoInv'
<1>1. /\ script # <<>> /\ Head(script).do = "allscan" /\ ring = 0
      /\ \/ ring' = Head(script).made + 1 /\ script' = script
         \/ ring' = ring /\ script' \in {<<>>, <<Do("release")>>}
      /\ UNCHANGED <<P, built, session, runners, staged, held, orphans, fresh, refused>>
  BY StepsGoOn DEF BuildAllScan, At, Raise
<1>2. InvScript'
  BY <1>1, ScriptKept DEF ZeCoInv
<1>3. InvRunners'
  BY <1>1 DEF ZeCoInv, InvRunners, Measuring, NoneHeld
<1>4. fresh' = {}
  BY <1>1, StepFinds DEF At
<1>5. Head(script).made \in Nat
  BY <1>1, ScriptParts DEF ZeCoInv, ScriptSteps
<1>6. InvSteps' /\ OwnChecksNeverFire'
  BY <1>1, <1>4, <1>5 DEF ZeCoInv, InvSteps, OwnChecksNeverFire, At
<1>7. ASSUME Separated PROVE InvRelease'
  <2>1. held = NoneHeld
    <3>1. CASE Measuring
      BY <1>1, <1>7, <3>1 DEF ZeCoInv, InvRelease, At
    <3>2. CASE ~Measuring
      BY <3>2 DEF ZeCoInv, InvRunners
    <3> QED
      BY <3>1, <3>2
  <2> QED
    BY <1>1, <1>7, <2>1, ReleaseKept DEF ZeCoInv
<1> QED
  BY <1>2, <1>3, <1>6, <1>7 DEF ZeCoInv

\* The worker has the per-head buffers of the run.
LEMMA RunAllScanKeeps ==
  ASSUME ZeCoInv, RunAllScan
  PROVE  ZeCoInv'
<1>1. /\ script # <<>> /\ Head(script).do = "allscan" /\ ring > 0 /\ ring' = 0
      /\ refused' = (refused \/ ~(Head(script).used \in {0, ring - 1}))
      /\ Done \/ Raise
      /\ UNCHANGED <<P, built, session, runners, staged, held, orphans, fresh>>
  BY DEF RunAllScan, At
<1>2. script' = Tail(script) \/ script' \in {<<>>, <<Do("release")>>}
  BY <1>1, StepsGoOn
<1>3. InvScript'
  BY <1>1, <1>2, ScriptKept DEF ZeCoInv
<1>4. InvRunners'
  BY <1>1 DEF ZeCoInv, InvRunners, Measuring, NoneHeld
<1>5. fresh' = {}
  BY <1>1, StepFinds DEF At
<1>6. ~refused'
  <2>1. Head(script) \in ScriptSteps
    BY <1>1, ScriptParts DEF ZeCoInv
  <2>2. Head(script).made \in Nat /\ Head(script).used \in {0, Head(script).made}
    BY <1>1, <2>1 DEF ScriptSteps
  <2>3. ring = Head(script).made + 1
    BY <1>1 DEF ZeCoInv, InvSteps
  <2>4. ring - 1 = Head(script).made
    BY <2>2, <2>3
  <2>5. Head(script).used \in {0, ring - 1}
    BY <2>2, <2>4
  <2>6. ~refused
    BY DEF ZeCoInv, OwnChecksNeverFire
  <2> QED
    BY <1>1, <2>5, <2>6
<1>7. InvSteps' /\ (Separated => InvRelease')
  BY <1>1, <1>2, <1>5, ReleaseKept DEF ZeCoInv, InvSteps
<1> QED
  BY <1>3, <1>4, <1>6, <1>7 DEF ZeCoInv, OwnChecksNeverFire

LEMMA SimplerKeeps ==
  ASSUME ZeCoInv, SimplerStep
  PROVE  ZeCoInv' /\ UNCHANGED built /\ script # <<>> /\ (raised => raised')
<1>2. raised => raised'
  BY DEF SimplerStep, StandUpKernel, RunKernel, OpenHeld, DispatchHeld, ReleaseDevices,
         UsePlainRunners, UsePersistentRunners, CompareGate, SetTimer, SetAmortized,
         BuildAllScan, RunAllScan, Done, Raise
<1>1. UNCHANGED built /\ script # <<>>
  BY DEF SimplerStep, StandUpKernel, RunKernel, OpenHeld, DispatchHeld, ReleaseDevices,
         UsePlainRunners, UsePersistentRunners, CompareGate, SetTimer, SetAmortized,
         BuildAllScan, RunAllScan, At
<1> QED
  BY <1>1, <1>2, StandUpKernelKeeps, RunKernelKeeps, OpenHeldKeeps, DispatchHeldKeeps, ReleaseKeeps,
     PlainKeeps, PersistentKeeps, BookkeepingKeeps, BuildAllScanKeeps, RunAllScanKeeps
  DEF SimplerStep

\* Nothing is up on the devices of a backend that is not built.
LEMMA NoneHosted ==
  ASSUME ZeCoInv, ~built
  PROVE  \A d \in Devices : Hosted(d) = {}
<1>1. script = <<>> /\ held = NoneHeld /\ orphans = {}
  BY DEF ZeCoInv, InvScript, InvRunners
<1>2. fresh = {} /\ ring = 0
  BY <1>1, ZeCoIdle DEF Idle
<1> QED
  BY <1>1, <1>2 DEF Hosted, NoneHeld

\* With the held workers released in time, a device hosts one worker.
LEMMA OneHosted ==
  ASSUME ZeCoInv, Separated, NEW d \in Devices
  PROVE  Cardinality(Hosted(d)) \in {0, 1}
<1>1. \E x : Hosted(d) \subseteq {x}
  <2>1. orphans = {}
    BY DEF ZeCoInv, InvRunners
  <2>2. CASE ring > 0
    <3>1. fresh = {} /\ held = NoneHeld
      BY <2>2, StepFinds DEF ZeCoInv, InvRelease
    <3> QED
      BY <2>1, <3>1 DEF Hosted, NoneHeld
  <2>3. CASE ~(ring > 0) /\ fresh # {}
    <3>1. held = NoneHeld
      BY <2>3 DEF ZeCoInv, InvSteps, InvRunners
    <3> QED
      BY <2>1, <2>3, <3>1 DEF Hosted, NoneHeld
  <2>4. CASE ~(ring > 0) /\ fresh = {}
    BY <2>1, <2>4 DEF Hosted
  <2> QED
    BY <2>2, <2>3, <2>4
<1>2. PICK x : Hosted(d) \subseteq {x}
  BY <1>1
<1>3. Hosted(d) = {} \/ Hosted(d) = {x}
  BY <1>2
<1>4. Cardinality({}) = 0 /\ Cardinality({x}) = 1
  BY FS_EmptySet, FS_Singleton
<1> QED
  BY <1>3, <1>4

-----------------------------------------------------------------------------
(* PreparedWorkers *)

LEMMA DoIs ==
  /\ \A x : Do1(x).do = x /\ Do1(x).dir = "none"
  /\ \A x, y : Do2(x, y).do = x /\ Do2(x, y).dir = y
BY DEF Do1, Do2

\* The steps of a chain, and that only the first can be a close.
LEMMA ChainParts ==
  ASSUME NEW s, Chained(s), s # <<>>
  PROVE  /\ Len(s) \in Nat \ {0} /\ DOMAIN s = 1..Len(s)
         /\ Head(s) = s[1] /\ Head(s) \in JobSteps
         /\ Tail(s) \in Seq(JobSteps) /\ Len(Tail(s)) = Len(s) - 1
         /\ \A i \in 1..(Len(s) - 1) : Tail(s)[i] = s[i + 1] /\ Tail(s)[i].do # "close"
         /\ Tail(s) # <<>> => /\ Head(Tail(s)) \in JobSteps
                              /\ Follows(Head(s), Head(Tail(s)))
                              /\ Tail(s)[Len(Tail(s))] = s[Len(s)]
         /\ Tail(s) = <<>> =>
              Head(s).do \in {"built", "closed", "dispatch", "return", "forward", "backward"}
<1>1. s \in Seq(JobSteps) /\ \A i \in 1..(Len(s) - 1) : Follows(s[i], s[i + 1])
  BY DEF Chained
<1>2. Len(s) \in Nat \ {0} /\ DOMAIN s = 1..Len(s)
  BY <1>1, EmptySeq, LenProperties
<1>3. Len(s) \in Nat \ {0}
  BY <1>2
<1>4. PICK n \in Nat \ {0} : n = Len(s)
  BY <1>3
<1>5. PICK t : t = Tail(s)
  OBVIOUS
<1>6. t \in Seq(JobSteps) /\ Len(t) = n - 1 /\ (\A i \in 1..(n - 1) : t[i] = s[i + 1]) /\ Head(s) \in JobSteps
  BY <1>1, <1>4, <1>5, HeadTailProperties
<1>7. ASSUME NEW i \in 1..(n - 1) PROVE t[i].do # "close"
  <2>1. s[i] \in JobSteps /\ Follows(s[i], s[i + 1])
    <3>1. i \in 1..Len(s) /\ i \in 1..(Len(s) - 1)
      BY <1>4
    <3> QED
      BY <1>1, <3>1, ElementOfSeq
  <2>2. s[i + 1].do # "close"
    BY <2>1, DoIs DEF Follows, AfterClose, JobSteps, BuildOnly, CallOnly
  <2> QED
    BY <1>6, <2>2
<1>8. Head(s) = s[1]
  OBVIOUS
<1>9. ASSUME t # <<>>
      PROVE  Head(t) \in JobSteps /\ Follows(Head(s), Head(t)) /\ t[Len(t)] = s[Len(s)]
  <2>1. Len(t) \in Nat \ {0}
    BY <1>6, <1>9, EmptySeq
  <2>2. 1 \in 1..(n - 1) /\ n - 1 \in 1..(n - 1) /\ (n - 1) + 1 = n
    BY <1>6, <2>1
  <2>3. Head(t) = t[1] /\ Head(t) \in JobSteps
    BY <1>6, <1>9, HeadTailProperties
  <2>4. t[1] = s[1 + 1] /\ Follows(s[1], s[1 + 1])
    BY <1>1, <1>4, <1>6, <2>2
  <2>5. t[Len(t)] = s[n]
    BY <1>6, <2>2
  <2> QED
    BY <1>4, <1>8, <2>3, <2>4, <2>5
<1>10. ASSUME t = <<>>
       PROVE  Head(s).do \in {"built", "closed", "dispatch", "return", "forward", "backward"}
  <2>1. n = 1
    BY <1>6, <1>10
  <2> QED
    BY <1>4, <1>8, <2>1 DEF Chained
<1> QED
  BY <1>2, <1>4, <1>5, <1>6, <1>7, <1>8, <1>9, <1>10

\* The chain goes on when its first step is done.
LEMMA ChainProceeds ==
  ASSUME Chained(job), job # <<>>, job' = Tail(job),
         UNCHANGED class, self'.ready = self.ready
  PROVE  /\ Chained(job)'
         /\ job' # <<>> => Head(job') \in JobSteps /\ Follows(Head(job), Head(job'))
         /\ job' # <<>> => job'[Len(job')] = job[Len(job)]
         /\ job' = <<>> =>
              Head(job).do \in {"built", "closed", "dispatch", "return", "forward", "backward"}
<1>0. JobSteps' = JobSteps
  BY DEF JobSteps, DirsOf, WorkerDirs
<1>1. PICK s : s = job
  OBVIOUS
<1>2. PICK t : t = Tail(s)
  OBVIOUS
<1>3. Chained(s) /\ s # <<>> /\ job' = t
  BY <1>1, <1>2
<1>4. Len(s) \in Nat \ {0}
  BY <1>3, ChainParts
<1>5. PICK n \in Nat \ {0} : n = Len(s)
  BY <1>4
<1>6. /\ t \in Seq(JobSteps) /\ Len(t) = n - 1
      /\ \A i \in 1..(n - 1) : t[i] = s[i + 1] /\ t[i].do # "close"
      /\ t # <<>> => /\ Head(t) \in JobSteps /\ Follows(Head(s), Head(t))
                     /\ t[Len(t)] = s[Len(s)]
      /\ t = <<>> => Head(s).do \in {"built", "closed", "dispatch", "return", "forward", "backward"}
  BY <1>2, <1>3, <1>5, ChainParts
<1>7. ASSUME NEW i \in 1..(Len(t) - 1) PROVE Follows(t[i], t[i + 1])'
  <2>1. i \in 1..(n - 1) /\ i + 1 \in 1..(n - 1)
    BY <1>6
  <2>2. t[i] = s[i + 1] /\ t[i + 1] = s[(i + 1) + 1] /\ t[i].do # "close"
    BY <1>6, <2>1
  <2>3. Follows(s[i + 1], s[(i + 1) + 1])
    BY <1>3, <1>5, <2>1 DEF Chained
  <2>4. PICK a, b : a = t[i] /\ b = t[i + 1]
    OBVIOUS
  <2>5. Follows(a, b) /\ a.do # "close"
    BY <2>2, <2>3, <2>4
  <2>6. Follows(a, b)'
    BY <2>5 DEF Follows
  <2> QED
    BY <2>4, <2>6
<1>8. t # <<>> => t[Len(t)].do \in {"built", "closed", "dispatch", "return", "forward", "backward"}
  BY <1>3, <1>6 DEF Chained
<1>9. Chained(t)'
  BY <1>0, <1>6, <1>7, <1>8 DEF Chained
<1> QED
  BY <1>1, <1>3, <1>6, <1>9 DEF Chained

LEMMA ChainEnds ==
  ASSUME job' = <<>>
  PROVE  Chained(job)' /\ InvHead'
BY DEF Chained, InvHead

\* A step that raises leaves the object as it is.
LEMMA Raised ==
  ASSUME WorkersInv, job # <<>>, Head(job).do \notin {"percall", "return"},
         job' = <<>>, UNCHANGED <<class, self>>, live' \subseteq live
  PROVE  WorkersInv'
<1>1. Chained(job)' /\ InvHead'
  BY ChainEnds
<1>2. InvObject'
  BY DEF WorkersInv, InvObject
<1>3. self.lent = {}
  BY DEF WorkersInv, InvLive, Next1
<1>4. InvLive'
  BY <1>3 DEF WorkersInv, InvLive, Reachable
<1>5. InvReady'
  BY DEF WorkersInv, InvReady, Fresh, Fits, WorkerDirs, DirsOf
<1> QED
  BY <1>1, <1>2, <1>4, <1>5 DEF WorkersInv

LEMMA QuietWorkers ==
  ASSUME WorkersInv, UNCHANGED <<class, self, live, job>>
  PROVE  WorkersInv'
<1>1. InvObject' /\ InvLive'
  BY DEF WorkersInv, InvObject, InvLive, Reachable, Next1
<1>2. JobSteps' = JobSteps
  BY DEF JobSteps, DirsOf, WorkerDirs
<1>3. \A a, b : Follows(a, b) => Follows(a, b)'
  BY DEF Follows, AfterClose, Compiled
<1>4. Chained(job)'
  BY <1>2, <1>3 DEF WorkersInv, Chained
<1>5. InvReady' /\ InvHead'
  BY DEF WorkersInv, InvReady, InvHead, Finds, Fresh, Fits, WorkerDirs, DirsOf, NothingUp
<1> QED
  BY <1>1, <1>4, <1>5 DEF WorkersInv

\* What the head of the job may be.
LEMMA HeadFacts ==
  ASSUME WorkersInv, job # <<>>
  PROVE  /\ Head(job) \in JobSteps /\ Finds(Head(job))
         /\ Head(job).do \notin {"percall", "return"} => self.lent = {}
         /\ self \in Objects /\ class \in Classes
         /\ Reachable /\ (\A v, w \in self.rt \cup self.lent : v = w)
<1>1. Head(job) \in JobSteps
  BY ChainParts DEF WorkersInv
<1> QED
  BY <1>1 DEF WorkersInv, InvHead, InvLive, InvObject, Next1

LEMMA CloseRtKeeps ==
  ASSUME WorkersInv, CloseRt
  PROVE  WorkersInv'
<1>1. job # <<>> /\ Head(job).do = "close" /\ UNCHANGED class
  BY DEF CloseRt, Next1
<1>2. self.lent = {} /\ self \in Objects /\ Reachable /\ class \in Classes
  BY <1>1, HeadFacts
<1>3. \/ job' = Tail(job) /\ self.rt = {} /\ UNCHANGED <<self, live>>
      \/ job' = Tail(job) /\ live' = live \ self.rt /\ self' = [self EXCEPT !.rt = {}]
      \/ job' = <<>> /\ live' \subseteq live /\ UNCHANGED self
  BY DEF CloseRt, Proceed, RaiseAs
<1>4. CASE job' = <<>> /\ live' \subseteq live /\ UNCHANGED self
  BY <1>1, <1>4, Raised
<1>5. CASE /\ job' = Tail(job)
           /\ \/ self.rt = {} /\ UNCHANGED <<self, live>>
              \/ live' = live \ self.rt /\ self' = [self EXCEPT !.rt = {}]
  <2>1. /\ self' \in Objects /\ self'.rt = {} /\ self'.lent = {} /\ live' = {}
        /\ self'.shape = self.shape /\ self'.compiled = self.compiled
        /\ self'.bcompiled = self.bcompiled /\ self'.bufs = self.bufs /\ self'.ready = self.ready
    BY <1>2, <1>5 DEF Objects, Reachable
  <2>2. InvObject' /\ InvLive'
    BY <1>1, <2>1 DEF WorkersInv, InvObject, InvLive, Reachable
  <2>3. /\ Chained(job)'
        /\ job' # <<>> => Head(job') \in JobSteps /\ Follows(Head(job), Head(job'))
    BY <1>1, <1>5, <2>1, ChainProceeds DEF WorkersInv
  <2>4. InvReady'
    BY <1>1, <2>1 DEF WorkersInv, InvReady, Fresh
  <2>5. ASSUME job' # <<>> PROVE Finds(Head(job))'
    <3>1. PICK n : n = Head(job')
      OBVIOUS
    <3>2. AfterClose(n) /\ n \in JobSteps
      BY <1>1, <2>3, <2>5, <3>1 DEF Follows
    <3>3. n.do \in {"closed", "seek", "compile", "prepare"}
      BY <3>2 DEF AfterClose
    <3>4. n.do = "prepare" => self.ready /\ Compiled(n.dir)
      BY <3>2, <3>3 DEF AfterClose
    <3>5. self.ready => Fresh /\ self.bufs = self.shape
      BY DEF WorkersInv, InvReady
    <3>6. NothingUp'
      BY <2>1 DEF NothingUp
    <3>7. n.do = "prepare" => Fresh' /\ self'.bufs = self'.shape
      BY <2>1, <3>4, <3>5 DEF Fresh
    <3>8. n.do = "prepare" /\ n.dir = "backward" => self'.bcompiled = self'.shape
      BY <2>1, <3>4, <3>5 DEF Fresh, Compiled
    <3>9. Finds(n)'
      BY <3>3, <3>6, <3>7, <3>8 DEF Finds
    <3> QED
      BY <3>1, <3>9
  <2>6. InvHead'
    BY <2>5 DEF InvHead
  <2> QED
    BY <2>2, <2>3, <2>4, <2>6 DEF WorkersInv
<1> QED
  BY <1>3, <1>4, <1>5

\* The next step finds what the step before it left, if that changed nothing
\* but the job.
LEMMA SeekPlanKeeps ==
  ASSUME WorkersInv, SeekPlan
  PROVE  WorkersInv'
<1>1. job # <<>> /\ Head(job).do = "seek" /\ job' = Tail(job) /\ UNCHANGED <<class, self, live>>
  BY DEF SeekPlan, Next1, Proceed
<1>2. Head(job) \in JobSteps /\ Finds(Head(job)) /\ self.lent = {}
  BY <1>1, HeadFacts
<1>3. /\ Chained(job)'
      /\ job' # <<>> => Head(job') \in JobSteps /\ Follows(Head(job), Head(job'))
  BY <1>1, ChainProceeds DEF WorkersInv
<1>4. InvObject' /\ InvLive' /\ InvReady'
  BY <1>1, <1>2 DEF WorkersInv, InvObject, InvLive, Reachable, InvReady, Fresh, Fits, WorkerDirs, DirsOf
<1>5. ASSUME job' # <<>> PROVE Finds(Head(job))'
  <2>1. PICK n : n = Head(job')
    OBVIOUS
  <2>2. n.do = "search"
    BY <1>1, <1>3, <1>5, <2>1, DoIs DEF Follows
  <2>3. NothingUp'
    BY <1>1, <1>2 DEF Finds, NothingUp
  <2>4. Finds(n)'
    BY <2>2, <2>3 DEF Finds
  <2> QED
    BY <2>1, <2>4
<1> QED
  BY <1>3, <1>4, <1>5 DEF WorkersInv, InvHead

LEMMA KeepProgramKeeps ==
  ASSUME WorkersInv, KeepProgram
  PROVE  WorkersInv'
<1>1. /\ job # <<>> /\ Head(job).do = "search" /\ job' = Tail(job) /\ UNCHANGED <<class, live>>
      /\ self' = IF Head(job).dir = "forward"
                 THEN [self EXCEPT !.compiled = self.shape, !.bcompiled = {}]
                 ELSE [self EXCEPT !.bcompiled = self.shape]
  BY DEF KeepProgram, Next1, Proceed, Dir
<1>2. /\ Head(job) \in JobSteps /\ Finds(Head(job)) /\ self.lent = {}
      /\ self \in Objects /\ class \in Classes /\ Reachable
  BY <1>1, HeadFacts
<1>3. /\ class = "PyPtoZeCo" /\ NothingUp
      /\ Head(job).dir = IF self.ready THEN "backward" ELSE "forward"
  BY <1>1, <1>2 DEF JobSteps, Finds
<1>4. /\ self' \in Objects /\ self'.rt = {} /\ self'.lent = {} /\ live' = {}
      /\ self'.shape = self.shape /\ self'.bufs = self.bufs /\ self'.ready = self.ready
      /\ IF self.ready THEN self'.compiled = self.compiled /\ self'.bcompiled = self.shape
         ELSE self'.compiled = self.shape /\ self'.bcompiled = {}
  <2>1. CASE self.ready
    BY <1>1, <1>2, <1>3, <2>1 DEF Objects, NothingUp
  <2>2. CASE ~self.ready
    BY <1>1, <1>2, <1>3, <2>2 DEF Objects, NothingUp
  <2> QED
    BY <2>1, <2>2
<1>5. InvObject' /\ InvLive'
  BY <1>1, <1>2, <1>3, <1>4 DEF InvObject, InvLive, Reachable
<1>6. /\ Chained(job)'
      /\ job' # <<>> => Head(job') \in JobSteps /\ Follows(Head(job), Head(job'))
  BY <1>1, <1>4, ChainProceeds DEF WorkersInv
<1>7. Fresh' /\ (self.ready => self'.bufs = self'.shape)
  BY <1>4 DEF WorkersInv, InvReady, Fresh
<1>8. InvReady'
  BY <1>4, <1>7 DEF InvReady
<1>9. ASSUME job' # <<>> PROVE Finds(Head(job))'
  <2>1. PICK n : n = Head(job')
    OBVIOUS
  <2>2. n = IF self.ready THEN Do2("prepare", "backward") ELSE Do1("alloc")
    BY <1>1, <1>6, <1>9, <2>1 DEF Follows
  <2>3. CASE self.ready
    <3>1. n.do = "prepare" /\ n.dir = "backward"
      BY <2>2, <2>3, DoIs
    <3>2. NothingUp' /\ self'.bcompiled = self'.shape /\ self'.bufs = self'.shape
      BY <1>4, <1>7, <2>3 DEF NothingUp
    <3> QED
      BY <1>7, <2>1, <3>1, <3>2 DEF Finds
  <2>4. CASE ~self.ready
    <3>1. n.do = "alloc"
      BY <2>2, <2>4, DoIs
    <3>2. live' = {} /\ self'.rt = {} /\ class' # "SimplerAllscan"
      BY <1>1, <1>3, <1>4
    <3> QED
      BY <1>7, <2>1, <3>1, <3>2 DEF Finds
  <2> QED
    BY <2>3, <2>4
<1> QED
  BY <1>5, <1>6, <1>8, <1>9 DEF WorkersInv, InvHead

LEMMA SearchFailsKeeps ==
  ASSUME WorkersInv, SearchFails
  PROVE  WorkersInv'
<1>1. /\ job # <<>> /\ Head(job).do = "search" /\ job' = <<>>
      /\ UNCHANGED <<class, self, live>>
  BY DEF SearchFails, Next1, RaiseAs
<1> QED
  BY <1>1, Raised

\* ir.compile takes the shape of the object.
LEMMA CompileKeeps ==
  ASSUME WorkersInv, Compile
  PROVE  WorkersInv'
<1>1. job # <<>> /\ Head(job).do = "compile" /\ UNCHANGED <<class, live>>
  BY DEF Compile, Next1
<1>2. \/ job' = Tail(job) /\ self' = [self EXCEPT !.compiled = self.shape]
      \/ job' = <<>> /\ UNCHANGED self
  BY DEF Compile, Proceed, RaiseAs
<1>3. /\ Head(job) \in JobSteps /\ Finds(Head(job)) /\ self.lent = {}
      /\ self \in Objects /\ class \in Classes /\ Reachable
  BY <1>1, HeadFacts
<1>4. CASE job' = <<>> /\ UNCHANGED self
  BY <1>1, <1>4, Raised
<1>5. CASE job' = Tail(job) /\ self' = [self EXCEPT !.compiled = self.shape]
  <2>1. class # "PyPtoZeCo" /\ NothingUp /\ ~self.ready
    BY <1>1, <1>3 DEF JobSteps, Finds, BuildOnly
  <2>2. /\ self' \in Objects /\ self'.rt = {} /\ self'.lent = {} /\ live' = {}
        /\ self'.shape = self.shape /\ self'.compiled = self.shape
        /\ self'.bcompiled = self.bcompiled /\ self'.ready = self.ready
    BY <1>1, <1>3, <1>5, <2>1 DEF Objects, NothingUp
  <2>3. self.bcompiled = {}
    BY <2>1 DEF WorkersInv, InvObject
  <2>4. InvObject' /\ InvLive' /\ InvReady'
    BY <1>1, <1>3, <2>1, <2>2, <2>3 DEF InvObject, InvLive, Reachable, InvReady
  <2>5. /\ Chained(job)'
        /\ job' # <<>> => Head(job') \in JobSteps /\ Follows(Head(job), Head(job'))
    BY <1>1, <1>5, <2>2, ChainProceeds DEF WorkersInv
  <2>6. Fresh' /\ NothingUp'
    BY <2>2, <2>3 DEF Fresh, NothingUp
  <2>7. ASSUME job' # <<>> PROVE Finds(Head(job))'
    <3>1. PICK n : n = Head(job')
      OBVIOUS
    <3>2. n = IF class = "SimplerAllscan" THEN Do2("construct", "both") ELSE Do1("alloc")
      BY <1>1, <2>5, <2>7, <3>1 DEF Follows
    <3>3. CASE class = "SimplerAllscan"
      <4>1. n.do = "construct"
        BY <3>2, <3>3, DoIs
      <4> QED
        BY <2>6, <3>1, <4>1 DEF Finds
    <3>4. CASE class # "SimplerAllscan"
      <4>1. n.do = "alloc"
        BY <3>2, <3>4, DoIs
      <4>2. live' = {} /\ self'.rt = {} /\ class' # "SimplerAllscan"
        BY <1>1, <2>2, <3>4
      <4> QED
        BY <2>6, <3>1, <4>1, <4>2 DEF Finds
    <3> QED
      BY <3>3, <3>4
  <2> QED
    BY <2>4, <2>5, <2>7 DEF WorkersInv, InvHead
<1> QED
  BY <1>2, <1>4, <1>5

LEMMA AllocKeeps ==
  ASSUME WorkersInv, AllocBuffers
  PROVE  WorkersInv'
<1>1. /\ job # <<>> /\ Head(job).do = "alloc" /\ job' = Tail(job) /\ UNCHANGED <<class, live>>
      /\ self' = [self EXCEPT !.bufs = self.shape]
  BY DEF AllocBuffers, Next1, Proceed
<1>2. /\ Head(job) \in JobSteps /\ Finds(Head(job)) /\ self.lent = {}
      /\ self \in Objects /\ class \in Classes /\ Reachable
      /\ \A v, w \in self.rt \cup self.lent : v = w
  BY <1>1, HeadFacts
<1>3. /\ Fresh /\ live = {} /\ ~self.ready
      /\ \A w \in self.rt : w.shape = self.shape /\ w.dir = "both"
      /\ self.rt = {} <=> class # "SimplerAllscan"
  BY <1>1, <1>2 DEF JobSteps, Finds, BuildOnly
<1>4. /\ self' \in Objects /\ self'.rt = self.rt /\ self'.lent = {} /\ live' = {}
      /\ self'.shape = self.shape /\ self'.compiled = self.compiled /\ self'.bufs = self.shape
      /\ self'.bcompiled = self.bcompiled /\ self'.ready = self.ready
  BY <1>1, <1>2, <1>3 DEF Objects
<1>5. InvObject' /\ InvLive' /\ InvReady'
  BY <1>1, <1>2, <1>3, <1>4 DEF WorkersInv, InvObject, InvLive, Reachable, InvReady
<1>6. /\ Chained(job)'
      /\ job' # <<>> => Head(job') \in JobSteps /\ Follows(Head(job), Head(job'))
  BY <1>1, <1>4, ChainProceeds DEF WorkersInv
<1>7. Fresh'
  BY <1>3, <1>4 DEF Fresh
<1>8. ASSUME job' # <<>> PROVE Finds(Head(job))'
  <2>1. PICK n : n = Head(job')
    OBVIOUS
  <2>2. n = IF class = "SimplerAllscan" THEN Do1("init")
            ELSE Do2("prepare", IF class = "PyPtoAllscanBackward" THEN "backward" ELSE "forward")
    BY <1>1, <1>6, <1>8, <2>1 DEF Follows
  <2>3. CASE class = "SimplerAllscan"
    <3>1. n.do = "init"
      BY <2>2, <2>3, DoIs
    <3>2. /\ \A w \in self'.rt : w.shape = self'.shape /\ w.dir = "both"
          /\ self'.rt = {} <=> class' # "SimplerAllscan"
      BY <1>1, <1>3, <1>4
    <3> QED
      BY <1>4, <1>7, <2>1, <3>1, <3>2 DEF Finds
  <2>4. CASE class # "SimplerAllscan"
    <3>1. n.do = "prepare" /\ (class = "PyPtoZeCo" => n.dir = "forward")
      BY <2>2, <2>4, DoIs
    <3>2. NothingUp'
      BY <1>3, <1>4, <2>4 DEF NothingUp
    <3> QED
      BY <1>1, <1>4, <1>7, <2>1, <3>1, <3>2 DEF Finds
  <2> QED
    BY <2>3, <2>4
<1> QED
  BY <1>5, <1>6, <1>8 DEF WorkersInv, InvHead

\* The one worker there is refers to its program and to the buffers that existed
\* when it forked.
LEMMA PrepareKeeps ==
  ASSUME WorkersInv, Prepare
  PROVE  WorkersInv'
<1> DEFINE dir     == Head(job).dir
           program1 == IF dir = "backward" /\ class = "PyPtoZeCo" THEN self.bcompiled ELSE self.compiled
<1>1. job # <<>> /\ Head(job).do = "prepare" /\ UNCHANGED class
  BY DEF Prepare, Next1
<1>2. \/ /\ job' = Tail(job) /\ live' = live \cup {Worker(dir, program1)}
         /\ self' = [self EXCEPT !.rt = {Worker(dir, program1)}, !.backward = (dir = "backward")]
      \/ job' = <<>> /\ UNCHANGED <<self, live>>
  BY DEF Prepare, Proceed, RaiseAs, Dir
<1>3. /\ Head(job) \in JobSteps /\ Finds(Head(job)) /\ self.lent = {}
      /\ self \in Objects /\ class \in Classes /\ Reachable
  BY <1>1, HeadFacts
<1>4. CASE job' = <<>> /\ UNCHANGED <<self, live>>
  BY <1>1, <1>4, Raised
<1>5. CASE /\ job' = Tail(job) /\ live' = live \cup {Worker(dir, program1)}
           /\ self' = [self EXCEPT !.rt = {Worker(dir, program1)}, !.backward = (dir = "backward")]
  <2>1. NothingUp /\ Fresh /\ self.bufs = self.shape /\ dir \in WorkerDirs
    BY <1>1, <1>3 DEF JobSteps, Finds
  <2>2. program1 = self.shape
    BY <1>1, <1>3, <2>1 DEF Finds, Fresh
  <2>3. PICK w : w = Worker(dir, program1)
    OBVIOUS
  <2>4. w.dir = dir /\ w.shape = self.shape /\ w.bufs = self.shape /\ w \in Workers
    <3>1. dir \in {"forward", "backward", "both"}
      BY <1>3, <2>1 DEF WorkerDirs, DirsOf, Classes
    <3>2. self.shape \in SUBSET Configs
      BY <1>3 DEF Objects
    <3> QED
      BY <2>1, <2>2, <2>3, <3>1, <3>2 DEF Worker, Workers
  <2>5. /\ self'.rt = {w} /\ live' = {w} /\ self'.lent = {} /\ self' \in Objects
        /\ (self'.backward <=> dir = "backward")
        /\ self'.shape = self.shape /\ self'.compiled = self.compiled /\ self'.bufs = self.bufs
        /\ self'.bcompiled = self.bcompiled /\ (self'.ready <=> self.ready)
    <3> HIDE DEF program1, dir
    <3>1. live = {} /\ live' = live \cup {w} /\ self' = [self EXCEPT !.rt = {w}, !.backward = (dir = "backward")]
      BY <1>5, <2>1, <2>3 DEF NothingUp
    <3>2. PICK r : r = [self EXCEPT !.rt = {w}]
      OBVIOUS
    <3>3. /\ r \in Objects /\ r.rt = {w} /\ r.lent = {}
          /\ r.shape = self.shape /\ r.compiled = self.compiled /\ r.bufs = self.bufs
          /\ r.bcompiled = self.bcompiled /\ (r.ready <=> self.ready)
      BY <1>3, <2>4, <3>2 DEF Objects
    <3>4. self' = [r EXCEPT !.backward = (dir = "backward")]
      BY <1>3, <3>1, <3>2, Zenon DEF Objects
    <3>5. (dir = "backward") \in BOOLEAN
      OBVIOUS
    <3>6. self' \in Objects /\ (self'.backward <=> dir = "backward")
      BY <3>3, <3>4, <3>5, Zenon DEF Objects
    <3>7. /\ self'.rt = {w} /\ self'.lent = {}
          /\ self'.shape = self.shape /\ self'.compiled = self.compiled /\ self'.bufs = self.bufs
          /\ self'.bcompiled = self.bcompiled /\ (self'.ready <=> self.ready)
      BY <3>3, <3>4 DEF Objects
    <3> QED
      BY <3>1, <3>6, <3>7
  <2>6. InvObject' /\ InvLive'
    BY <1>1, <1>3, <2>5 DEF WorkersInv, InvObject, InvLive, Reachable
  <2>7. Fresh' /\ self'.bufs = self'.shape /\ \A v \in self'.rt : Fits(v)'
    BY <1>1, <2>1, <2>4, <2>5 DEF Fresh, Fits, WorkerDirs, DirsOf
  <2>8. InvReady'
    BY <2>7 DEF InvReady
  <2>9. /\ Chained(job)'
        /\ job' # <<>> => Head(job') \in JobSteps /\ Follows(Head(job), Head(job'))
    BY <1>1, <1>5, <2>5, ChainProceeds DEF WorkersInv
  <2>10. ASSUME job' # <<>> PROVE Finds(Head(job))'
    <3>1. PICK n : n = Head(job')
      OBVIOUS
    <3>2. n = IF self.ready THEN Do2("dispatch", dir) ELSE Do1("built")
      BY <1>1, <2>9, <2>10, <3>1 DEF Follows
    <3>3. CASE self.ready
      <4>1. n.do = "dispatch" /\ n.dir = dir
        BY <3>2, <3>3, DoIs
      <4> QED
        BY <2>4, <2>5, <3>1, <4>1 DEF Finds
    <3>4. CASE ~self.ready
      <4>1. n.do = "built"
        BY <3>2, <3>4, DoIs
      <4> QED
        BY <2>7, <3>1, <4>1 DEF Finds
    <3> QED
      BY <3>3, <3>4
  <2> QED
    BY <2>6, <2>8, <2>9, <2>10 DEF WorkersInv, InvHead
<1> QED
  BY <1>2, <1>4, <1>5

\* The Worker object refers to no process yet.
LEMMA ConstructKeeps ==
  ASSUME WorkersInv, Construct
  PROVE  WorkersInv'
<1>1. /\ job # <<>> /\ Head(job).do = "construct" /\ job' = Tail(job) /\ UNCHANGED <<class, live>>
      /\ self' = [self EXCEPT !.rt = {Worker(Head(job).dir, self.compiled)}]
  BY DEF Construct, Next1, Proceed, Dir
<1>2. /\ Head(job) \in JobSteps /\ Finds(Head(job)) /\ self.lent = {}
      /\ self \in Objects /\ class \in Classes /\ Reachable
  BY <1>1, HeadFacts
<1>3. NothingUp /\ Fresh /\ ~self.ready /\ class = "SimplerAllscan" /\ Head(job).dir = "both"
  BY <1>1, <1>2 DEF JobSteps, Finds, BuildOnly, WorkerDirs
<1>4. PICK w : w = Worker("both", self.compiled)
  OBVIOUS
<1>5. w.dir = "both" /\ w.shape = self.shape /\ w \in Workers
  BY <1>2, <1>3, <1>4 DEF Worker, Workers, Objects, Fresh
<1>6. /\ self' \in Objects /\ self'.rt = {w} /\ self'.lent = {} /\ live' = {}
      /\ self'.shape = self.shape /\ self'.compiled = self.compiled
      /\ self'.bcompiled = self.bcompiled /\ self'.ready = self.ready
  BY <1>1, <1>2, <1>3, <1>4, <1>5 DEF Objects, NothingUp
<1>7. InvObject' /\ InvLive' /\ InvReady'
  BY <1>1, <1>2, <1>3, <1>6 DEF WorkersInv, InvObject, InvLive, Reachable, InvReady
<1>8. /\ Chained(job)'
      /\ job' # <<>> => Head(job') \in JobSteps /\ Follows(Head(job), Head(job'))
  BY <1>1, <1>6, ChainProceeds DEF WorkersInv
<1>9. ASSUME job' # <<>> PROVE Finds(Head(job))'
  <2>1. PICK n : n = Head(job')
    OBVIOUS
  <2>2. n.do = "alloc"
    BY <1>1, <1>8, <1>9, <2>1, DoIs DEF Follows
  <2>3. Fresh'
    BY <1>3, <1>6 DEF Fresh
  <2>4. /\ live' = {} /\ self'.rt # {} /\ class' = "SimplerAllscan"
        /\ \A v \in self'.rt : v.shape = self'.shape /\ v.dir = "both"
    BY <1>1, <1>3, <1>5, <1>6
  <2> QED
    BY <2>1, <2>2, <2>3, <2>4 DEF Finds
<1> QED
  BY <1>7, <1>8, <1>9 DEF WorkersInv, InvHead

\* worker.init() forks with the buffers that exist by then.
LEMMA InitWorkerKeeps ==
  ASSUME WorkersInv, InitWorker
  PROVE  WorkersInv'
<1>1. job # <<>> /\ Head(job).do = "init" /\ UNCHANGED class
  BY DEF InitWorker, Next1
<1>2. /\ Head(job) \in JobSteps /\ Finds(Head(job)) /\ self.lent = {}
      /\ self \in Objects /\ class \in Classes
      /\ \A v, w \in self.rt \cup self.lent : v = w
  BY <1>1, HeadFacts
<1>3. /\ Fresh /\ live = {} /\ ~self.ready /\ class = "SimplerAllscan" /\ self.bufs = self.shape
      /\ \A w \in self.rt : w.shape = self.shape /\ w.dir = "both"
      /\ self.rt # {}
  BY <1>1, <1>2 DEF JobSteps, Finds, BuildOnly
<1>4. PICK w \in self.rt : self.rt = {w}
  BY <1>2, <1>3
<1>5. PICK v : v = [w EXCEPT !.bufs = self.bufs]
  OBVIOUS
<1>6. v.dir = "both" /\ v.shape = self.shape /\ v.bufs = self.shape /\ v \in Workers
  BY <1>2, <1>3, <1>4, <1>5 DEF Workers, Objects
<1>7. \/ job' = Tail(job) /\ live' = {v} /\ self' = [self EXCEPT !.rt = {v}]
      \/ job' = <<>> /\ UNCHANGED <<self, live>>
  BY <1>3, <1>4, <1>5 DEF InitWorker, Proceed, RaiseAs
<1>8. CASE job' = <<>> /\ UNCHANGED <<self, live>>
  BY <1>1, <1>8, Raised
<1>9. CASE job' = Tail(job) /\ live' = {v} /\ self' = [self EXCEPT !.rt = {v}]
  <2>1. /\ self' \in Objects /\ self'.rt = {v} /\ self'.lent = {}
        /\ self'.shape = self.shape /\ self'.compiled = self.compiled /\ self'.bufs = self.bufs
        /\ self'.bcompiled = self.bcompiled /\ self'.ready = self.ready
    BY <1>2, <1>6, <1>9 DEF Objects
  <2>2. InvObject' /\ InvLive' /\ InvReady'
    BY <1>1, <1>3, <1>9, <2>1 DEF WorkersInv, InvObject, InvLive, Reachable, InvReady
  <2>3. /\ Chained(job)'
        /\ job' # <<>> => Head(job') \in JobSteps /\ Follows(Head(job), Head(job'))
    BY <1>1, <1>9, <2>1, ChainProceeds DEF WorkersInv
  <2>4. ASSUME job' # <<>> PROVE Finds(Head(job))'
    <3>1. PICK n : n = Head(job')
      OBVIOUS
    <3>2. n.do = "built"
      BY <1>1, <2>3, <2>4, <3>1, DoIs DEF Follows
    <3>3. Fresh' /\ self'.bufs = self'.shape /\ \A u \in self'.rt : Fits(u)'
      BY <1>1, <1>3, <1>6, <2>1 DEF Fresh, Fits, WorkerDirs
    <3> QED
      BY <3>1, <3>2, <3>3 DEF Finds
  <2> QED
    BY <2>2, <2>3, <2>4 DEF WorkersInv, InvHead
<1> QED
  BY <1>7, <1>8, <1>9

\* The last step of a build, and of a close, is the last of the job.
LEMMA BuiltKeeps ==
  ASSUME WorkersInv, Built
  PROVE  WorkersInv'
<1>1. /\ job # <<>> /\ Head(job).do = "built" /\ job' = Tail(job) /\ UNCHANGED <<class, live>>
      /\ self' = [self EXCEPT !.ready = TRUE]
  BY DEF Built, Next1, Proceed
<1>2. /\ Finds(Head(job)) /\ self.lent = {} /\ self \in Objects
  BY <1>1, HeadFacts
<1>3. Fresh /\ self.bufs = self.shape /\ \A w \in self.rt : Fits(w)
  BY <1>1, <1>2 DEF Finds
<1>4. job' = <<>>
  <2>1. PICK t : t = Tail(job)
    OBVIOUS
  <2>2. t # <<>> => Follows(Head(job), Head(t))
    BY <1>1, <2>1, ChainParts DEF WorkersInv
  <2> QED
    BY <1>1, <2>1, <2>2 DEF Follows
<1>5. self' \in Objects
  BY <1>1, <1>2 DEF Objects
<1>6. /\ self'.rt = self.rt /\ self'.lent = self.lent /\ self'.shape = self.shape
      /\ self'.compiled = self.compiled /\ self'.bufs = self.bufs
      /\ self'.bcompiled = self.bcompiled
  BY <1>1, <1>2 DEF Objects
<1>7. self'.backward = self.backward
  BY <1>1, <1>2 DEF Objects
<1>8. InvObject' /\ InvLive'
  BY <1>1, <1>2, <1>5, <1>6 DEF WorkersInv, InvObject, InvLive, Reachable
<1>9. InvReady'
  BY <1>1, <1>3, <1>6, <1>7 DEF InvReady, Fresh, Fits, WorkerDirs, DirsOf
<1> QED
  BY <1>4, <1>8, <1>9, ChainEnds DEF WorkersInv

LEMMA ClosedKeeps ==
  ASSUME WorkersInv, Closed
  PROVE  WorkersInv' /\ NothingUp' /\ job' = <<>>
<1>1. /\ job # <<>> /\ Head(job).do = "closed" /\ job' = Tail(job) /\ UNCHANGED <<class, live>>
      /\ self' = [self EXCEPT !.ready = FALSE]
  BY DEF Closed, Next1, Proceed
<1>2. /\ Finds(Head(job)) /\ self.lent = {} /\ self \in Objects
  BY <1>1, HeadFacts
<1>3. NothingUp
  BY <1>1, <1>2 DEF Finds
<1>4. job' = <<>>
  <2>1. PICK t : t = Tail(job)
    OBVIOUS
  <2>2. t # <<>> => Follows(Head(job), Head(t))
    BY <1>1, <2>1, ChainParts DEF WorkersInv
  <2> QED
    BY <1>1, <2>1, <2>2 DEF Follows
<1>5. self' \in Objects
  BY <1>1, <1>2 DEF Objects
<1>6. /\ self'.rt = {} /\ self'.lent = {} /\ self'.bcompiled = self.bcompiled
      /\ ~self'.ready /\ live' = {}
  BY <1>1, <1>2, <1>3 DEF Objects, NothingUp
<1>7. InvObject' /\ InvLive' /\ InvReady' /\ NothingUp'
  BY <1>1, <1>5, <1>6 DEF WorkersInv, InvObject, InvLive, Reachable, InvReady, NothingUp
<1> QED
  BY <1>4, <1>7, ChainEnds DEF WorkersInv

\* What may follow a dispatch: the next sample or the next head.
LEMMA AfterCall ==
  ASSUME WorkersInv, job # <<>>, Head(job).do \in {"dispatch", "return"}, job' = Tail(job),
         UNCHANGED class, self'.ready = self.ready, self'.rt = self.rt
  PROVE  Chained(job)' /\ InvHead'
<1>1. /\ Chained(job)'
      /\ job' # <<>> => Head(job') \in JobSteps /\ Follows(Head(job), Head(job'))
  BY ChainProceeds DEF WorkersInv
<1>2. Head(job) \in JobSteps /\ class \in Classes
  BY HeadFacts
<1>3. self.ready
  BY <1>2 DEF JobSteps, CallOnly
<1>4. \A w \in self.rt : w.dir \in WorkerDirs
  BY <1>3 DEF WorkersInv, InvReady, Fits
<1>5. ASSUME job' # <<>> PROVE Finds(Head(job))'
  <2>1. PICK n : n = Head(job')
    OBVIOUS
  <2>2. n.do \in {"forward", "backward"} \/ (n.do = "dispatch" /\ class # "PyPtoZeCo")
    BY <1>1, <1>5, <2>1 DEF Follows
  <2>3. n.do = "dispatch" => n.dir \in DirsOf
    BY <1>1, <1>5, <2>1 DEF JobSteps
  <2>4. n.do = "dispatch" => \A w \in self.rt : w.dir \in {n.dir, "both"}
    BY <1>2, <1>4, <2>2, <2>3 DEF WorkerDirs, DirsOf, Classes
  <2> QED
    BY <2>1, <2>2, <2>4 DEF Finds
<1> QED
  BY <1>1, <1>5 DEF InvHead

LEMMA DispatchKeeps ==
  ASSUME WorkersInv, Dispatch
  PROVE  WorkersInv'
<1>1. job # <<>> /\ Head(job).do = "dispatch" /\ UNCHANGED <<class, self, live>>
  BY DEF Dispatch, Next1
<1>2. job' = Tail(job) \/ job' = <<>>
  BY DEF Dispatch, Proceed, RaiseAs
<1>3. CASE job' = <<>>
  BY <1>1, <1>3, Raised
<1>4. CASE job' = Tail(job)
  <2>1. Chained(job)' /\ InvHead'
    BY <1>1, <1>4, AfterCall
  <2>2. self.lent = {}
    BY <1>1, HeadFacts
  <2>3. InvObject' /\ InvLive' /\ InvReady'
    BY <1>1, <2>2 DEF WorkersInv, InvObject, InvLive, Reachable, InvReady, Fresh, Fits, WorkerDirs, DirsOf
  <2> QED
    BY <2>1, <2>3 DEF WorkersInv
<1> QED
  BY <1>2, <1>3, <1>4

\* run_fused_forward makes a worker of its own while no other is up.
LEMMA BorrowKeeps ==
  ASSUME WorkersInv, Borrow
  PROVE  WorkersInv'
<1>1. job # <<>> /\ Head(job).do = "borrow" /\ UNCHANGED class
  BY DEF Borrow, Next1
<1>2. /\ Head(job) \in JobSteps /\ Finds(Head(job)) /\ self.lent = {}
      /\ self \in Objects /\ class \in Classes
  BY <1>1, HeadFacts
<1>3. NothingUp /\ self.ready /\ class = "PyPtoZeCo"
  BY <1>1, <1>2 DEF JobSteps, Finds, CallOnly
<1>4. Fresh /\ self.bufs = self.shape
  BY <1>3 DEF WorkersInv, InvReady
<1>5. PICK w : w = [Worker("forward", self.compiled) EXCEPT !.bufs = self.shape]
  OBVIOUS
<1>6. w.shape = self.shape /\ w \in Workers
  BY <1>2, <1>4, <1>5 DEF Worker, Workers, Objects, Fresh
<1>7. \/ job' = Tail(job) /\ live' = live \cup {w} /\ self' = [self EXCEPT !.lent = {w}]
      \/ job' = <<>> /\ UNCHANGED <<self, live>>
  BY <1>5 DEF Borrow, Proceed, RaiseAs
<1>8. CASE job' = <<>> /\ UNCHANGED <<self, live>>
  BY <1>1, <1>8, Raised
<1>9. CASE job' = Tail(job) /\ live' = live \cup {w} /\ self' = [self EXCEPT !.lent = {w}]
  <2>1. /\ self' \in Objects /\ self'.rt = {} /\ self'.lent = {w} /\ live' = {w}
        /\ self'.shape = self.shape /\ self'.compiled = self.compiled /\ self'.bufs = self.bufs
        /\ self'.bcompiled = self.bcompiled /\ self'.ready = self.ready
    BY <1>2, <1>3, <1>6, <1>9 DEF Objects, NothingUp
  <2>2. /\ Chained(job)'
        /\ job' # <<>> => Head(job') \in JobSteps /\ Follows(Head(job), Head(job'))
        /\ job' # <<>>
    BY <1>1, <1>9, <2>1, ChainProceeds DEF WorkersInv
  <2>3. PICK n : n = Head(job')
    OBVIOUS
  <2>4. n.do = "percall"
    BY <1>1, <2>2, <2>3, DoIs DEF Follows
  <2>5. InvObject'
    BY <1>1, <1>2, <2>1 DEF WorkersInv, InvObject
  <2>6. InvLive'
    <3>1. Next1("percall")'
      BY <2>2, <2>3, <2>4 DEF Next1
    <3> QED
      BY <2>1, <3>1 DEF InvLive, Reachable
  <2>7. InvReady'
    BY <1>4, <2>1 DEF InvReady, Fresh
  <2>8. Finds(Head(job))'
    BY <1>6, <2>1, <2>3, <2>4 DEF Finds
  <2> QED
    BY <2>2, <2>5, <2>6, <2>7, <2>8 DEF WorkersInv, InvHead
<1> QED
  BY <1>7, <1>8, <1>9

\* The finally block gives the worker back however the dispatch ended.
LEMMA PerCallKeeps ==
  ASSUME WorkersInv, PerCall
  PROVE  WorkersInv'
<1>1. job # <<>> /\ Head(job).do = "percall" /\ UNCHANGED <<class, self, live>>
  BY DEF PerCall, Next1
<1>2. /\ Head(job) \in JobSteps /\ Finds(Head(job))
      /\ self \in Objects /\ class \in Classes
  BY <1>1, HeadFacts
<1>3. self.ready /\ \A w \in self.lent : w.shape = self.shape
  BY <1>1, <1>2 DEF JobSteps, Finds, CallOnly
<1>4. job' = Tail(job) \/ job' = <<Do1("return")>>
  BY DEF PerCall, Proceed
<1>5. Chained(job)' /\ job' # <<>> /\ Head(job').do = "return"
  <2>1. CASE job' = Tail(job)
    <3>1. /\ Chained(job)'
          /\ job' # <<>> => Head(job') \in JobSteps /\ Follows(Head(job), Head(job'))
          /\ job' # <<>>
      BY <1>1, <2>1, ChainProceeds DEF WorkersInv
    <3>2. PICK n : n = Head(job')
      OBVIOUS
    <3>3. n.do = "return"
      BY <1>1, <3>1, <3>2, DoIs DEF Follows
    <3> QED
      BY <3>1, <3>2, <3>3
  <2>2. CASE job' = <<Do1("return")>>
    <3>1. PICK n : n = Do1("return")
      OBVIOUS
    <3>2. n.do = "return" /\ n.dir = "none" /\ n = [do |-> "return", dir |-> "none"]
      BY <3>1 DEF Do1
    <3>3. n \in JobSteps
      BY <1>3, <3>2 DEF JobSteps, CallOnly, BuildOnly
    <3>4. JobSteps' = JobSteps
      BY <1>1 DEF JobSteps, DirsOf, WorkerDirs
    <3>5. job' = <<n>> /\ job' # <<>> /\ Len(job') = 1 /\ job'[1] = n /\ Head(job') = n
      BY <2>2, <3>1
    <3>6. job' \in Seq(JobSteps')
      BY <3>3, <3>4, <3>5
    <3> QED
      BY <3>2, <3>5, <3>6 DEF Chained
  <2> QED
    BY <1>4, <2>1, <2>2
<1>6. PICK n : n = Head(job')
  OBVIOUS
<1>7. Next1("return")' /\ Finds(Head(job))'
  BY <1>1, <1>3, <1>5, <1>6 DEF Next1, Finds
<1>8. InvObject' /\ InvLive' /\ InvReady'
  BY <1>1, <1>7 DEF WorkersInv, InvObject, InvLive, Reachable, InvReady, Fresh, Fits, WorkerDirs, DirsOf
<1> QED
  BY <1>5, <1>7, <1>8 DEF WorkersInv, InvHead

LEMMA GiveBackKeeps ==
  ASSUME WorkersInv, GiveBack
  PROVE  WorkersInv'
<1>1. /\ job # <<>> /\ Head(job).do = "return" /\ job' \in {Tail(job), <<>>} /\ UNCHANGED class
      /\ live' = live \ self.lent /\ self' = [self EXCEPT !.lent = {}]
  BY DEF GiveBack, Next1, Proceed, RaiseAs
<1>2. Head(job) \in JobSteps /\ self \in Objects /\ Reachable /\ \A v, w \in self.rt \cup self.lent : v = w
  BY <1>1, HeadFacts
<1>3. self' \in Objects
  BY <1>1, <1>2 DEF Objects
<1>4. /\ self'.rt = self.rt /\ self'.lent = {} /\ self'.shape = self.shape
      /\ self'.compiled = self.compiled /\ self'.bufs = self.bufs
      /\ self'.bcompiled = self.bcompiled
  BY <1>1, <1>2 DEF Objects
<1>5. self'.backward = self.backward /\ self'.ready = self.ready
  BY <1>1, <1>2 DEF Objects
<1>6. InvObject'
  BY <1>1, <1>3, <1>4 DEF WorkersInv, InvObject
<1>7. InvLive'
  BY <1>1, <1>2, <1>4 DEF InvLive, Reachable
<1>8. InvReady'
  BY <1>1, <1>4, <1>5 DEF WorkersInv, InvReady, Fresh, Fits, WorkerDirs, DirsOf
<1>9. CASE job' = Tail(job)
  <2>1. Chained(job)' /\ InvHead'
    BY <1>1, <1>4, <1>5, <1>9, AfterCall
  <2> QED
    BY <1>6, <1>7, <1>8, <2>1 DEF WorkersInv
<1>10. CASE job' = <<>>
  <2>1. Chained(job)' /\ InvHead'
    BY <1>10, ChainEnds
  <2> QED
    BY <1>6, <1>7, <1>8, <2>1 DEF WorkersInv
<1> QED
  BY <1>1, <1>9, <1>10

\* Chains one after the other.
LEMMA ChainConcat ==
  ASSUME NEW s, NEW t, Chained(s), Chained(t), s # <<>>,
         t # <<>> => Follows(s[Len(s)], t[1])
  PROVE  /\ Chained(s \o t) /\ s \o t # <<>> /\ Head(s \o t) = s[1]
<1>1. s \in Seq(JobSteps) /\ t \in Seq(JobSteps)
  BY DEF Chained
<1>2. Len(s) \in Nat \ {0}
  BY <1>1, EmptySeq, LenProperties
<1>3. Len(t) \in Nat
  BY <1>1, LenProperties
<1>4. PICK m \in Nat \ {0} : m = Len(s)
  BY <1>2
<1>5. PICK n \in Nat : n = Len(t)
  BY <1>3
<1>6. PICK u : u = s \o t
  OBVIOUS
<1>7. /\ u \in Seq(JobSteps) /\ Len(u) = m + n
      /\ \A i \in 1..(m + n) : u[i] = IF i <= m THEN s[i] ELSE t[i - m]
  BY <1>1, <1>4, <1>5, <1>6, ConcatProperties
<1>8. /\ \A i \in 1..m : u[i] = s[i]
      /\ \A j \in 1..n : u[m + j] = t[j]
  <2>1. ASSUME NEW i \in 1..m PROVE u[i] = s[i]
    <3>1. i \in 1..(m + n) /\ i <= m
      OBVIOUS
    <3> QED
      BY <1>7, <3>1
  <2>2. ASSUME NEW j \in 1..n PROVE u[m + j] = t[j]
    <3>1. m + j \in 1..(m + n) /\ ~(m + j <= m) /\ (m + j) - m = j
      OBVIOUS
    <3> QED
      BY <1>7, <3>1
  <2> QED
    BY <2>1, <2>2
<1>9. t # <<>> => n # 0
  BY <1>1, <1>5, EmptySeq
<1>10. t = <<>> => n = 0
  BY <1>5
<1>11. ASSUME NEW i \in 1..(m + n - 1) PROVE Follows(u[i], u[i + 1])
  <2>1. CASE i < m
    <3>1. i \in 1..m /\ i + 1 \in 1..m /\ i \in 1..(m - 1)
      BY <2>1
    <3> QED
      BY <1>4, <1>8, <3>1 DEF Chained
  <2>2. CASE i = m
    <3>1. 1 \in 1..n /\ m \in 1..m /\ n # 0
      BY <2>2
    <3>2. u[m] = s[m] /\ u[m + 1] = t[1] /\ t # <<>>
      BY <1>8, <1>10, <3>1
    <3> QED
      BY <1>4, <2>2, <3>2
  <2>3. CASE i > m
    <3>1. i - m \in 1..n /\ (i - m) + 1 \in 1..n /\ m + (i - m) = i /\ m + ((i - m) + 1) = i + 1
          /\ i - m \in 1..(n - 1)
      BY <2>3
    <3>2. PICK j : j = i - m
      OBVIOUS
    <3>3. u[m + j] = t[j] /\ u[m + (j + 1)] = t[j + 1]
      BY <1>8, <3>1, <3>2
    <3>4. Follows(t[j], t[j + 1])
      BY <1>5, <3>1, <3>2 DEF Chained
    <3> QED
      BY <3>1, <3>2, <3>3, <3>4
  <2> QED
    BY <2>1, <2>2, <2>3
<1>12. u[Len(u)].do \in {"built", "closed", "dispatch", "return", "forward", "backward"}
  <2>1. CASE t = <<>>
    <3>1. m \in 1..m /\ m + n = m
      BY <1>10, <2>1
    <3>2. u[Len(u)] = s[m]
      BY <1>7, <1>8, <3>1
    <3> QED
      BY <1>4, <3>2 DEF Chained
  <2>2. CASE t # <<>>
    <3>1. n \in 1..n
      BY <1>9, <2>2
    <3>2. u[Len(u)] = t[n]
      BY <1>7, <1>8, <3>1
    <3> QED
      BY <1>5, <2>2, <3>2 DEF Chained
  <2> QED
    BY <2>1, <2>2
<1>13. u # <<>> /\ Head(u) = s[1]
  <2>1. 1 \in 1..m /\ m + n # 0
    OBVIOUS
  <2>2. u # <<>> /\ u[1] = s[1]
    BY <1>7, <1>8, <2>1
  <2> QED
    BY <1>7, <2>2, HeadTailProperties
<1>14. Chained(u)
  BY <1>7, <1>11, <1>12 DEF Chained
<1> QED
  BY <1>6, <1>13, <1>14

LEMMA ChainOne ==
  ASSUME NEW a \in JobSteps,
         a.do \in {"built", "closed", "dispatch", "return", "forward", "backward"}
  PROVE  Chained(<<a>>)
<1>1. <<a>> \in Seq(JobSteps) /\ Len(<<a>>) = 1 /\ <<a>>[1] = a
  OBVIOUS
<1> QED
  BY <1>1 DEF Chained

LEMMA ChainTail ==
  ASSUME NEW s, Chained(s), s # <<>>
  PROVE  Chained(Tail(s))
<1>1. Len(s) \in Nat \ {0}
  BY ChainParts
<1>2. PICK n \in Nat \ {0} : n = Len(s)
  BY <1>1
<1>3. PICK t : t = Tail(s)
  OBVIOUS
<1>4. /\ t \in Seq(JobSteps) /\ Len(t) = n - 1
      /\ \A i \in 1..(n - 1) : t[i] = s[i + 1]
      /\ t # <<>> => t[Len(t)] = s[Len(s)]
  BY <1>2, <1>3, ChainParts
<1>5. ASSUME NEW i \in 1..(Len(t) - 1) PROVE Follows(t[i], t[i + 1])
  <2>1. i \in 1..(n - 1) /\ i + 1 \in 1..(n - 1)
    BY <1>4
  <2>2. t[i] = s[i + 1] /\ t[i + 1] = s[(i + 1) + 1]
    BY <1>4, <2>1
  <2>3. Follows(s[i + 1], s[(i + 1) + 1])
    BY <1>2, <2>1 DEF Chained
  <2> QED
    BY <2>2, <2>3
<1>6. t # <<>> => t[Len(t)].do \in {"built", "closed", "dispatch", "return", "forward", "backward"}
  BY <1>4 DEF Chained
<1> QED
  BY <1>3, <1>4, <1>5, <1>6 DEF Chained

\* Samples and heads: the same step again and again.
LEMMA ChainTimes ==
  ASSUME NEW a \in JobSteps, Follows(a, a), NEW n \in Nat,
         a.do \in {"built", "closed", "dispatch", "return", "forward", "backward"}
  PROVE  /\ Chained(Times(n, <<a>>))
         /\ Times(n, <<a>>) # <<>> =>
              Head(Times(n, <<a>>)) = a /\ Times(n, <<a>>)[Len(Times(n, <<a>>))] = a
<1>1. Times(n, <<a>>) \in Seq({a})
  <2>1. Closed2(Seq({a}))
    <3>1. \A s, t \in Seq({a}) : s \o t \in Seq({a})
      BY ConcatProperties
    <3>2. <<>> \in Seq({a})
      OBVIOUS
    <3> QED
      BY <3>1, <3>2 DEF Closed2
  <2>2. <<a>> \in Seq({a})
    OBVIOUS
  <2> QED
    BY <2>1, <2>2, Repeated
<1>2. PICK s : s = Times(n, <<a>>)
  OBVIOUS
<1>3. s \in Seq({a}) /\ Len(s) \in Nat
  BY <1>1, <1>2, LenProperties
<1>4. Len(s) \in Nat
  BY <1>3
<1>5. PICK m \in Nat : m = Len(s)
  BY <1>4
<1>6. \A i \in 1..m : s[i] = a
  BY <1>3, <1>5, ElementOfSeq
<1>7. \A i \in 1..(m - 1) : i \in 1..m /\ i + 1 \in 1..m
  OBVIOUS
<1>8. s \in Seq(JobSteps)
  BY <1>3
<1>9. s # <<>> => m # 0
  BY <1>3, <1>5, EmptySeq
<1>10. s # <<>> => s[Len(s)] = a /\ Head(s) = a
  <2>1. m # 0 => m \in 1..m /\ 1 \in 1..m
    OBVIOUS
  <2>2. s # <<>> => Head(s) = s[1]
    BY <1>3, HeadTailProperties
  <2> QED
    BY <1>5, <1>6, <1>9, <2>1, <2>2
<1>11. \A i \in 1..(Len(s) - 1) : Follows(s[i], s[i + 1])
  BY <1>5, <1>6, <1>7
<1> QED
  BY <1>2, <1>8, <1>10, <1>11 DEF Chained

LEMMA ChainSame ==
  ASSUME NEW s, Chained(s), UNCHANGED <<class, self>>
  PROVE  Chained(s)'
<1>1. JobSteps' = JobSteps
  BY DEF JobSteps, DirsOf, WorkerDirs
<1>2. \A a, b : Follows(a, b) => Follows(a, b)'
  BY DEF Follows, AfterClose, Compiled
<1> QED
  BY <1>1, <1>2 DEF Chained

\* The single dispatch of an AllScan call.
LEMMA RingUnfolds ==
  ASSUME WorkersInv, self.ready, class # "PyPtoZeCo", NEW op \in DirsOf
  PROVE  LET s == Do2("dispatch", op) IN
         /\ s \in JobSteps /\ Chained(<<s>>) /\ Finds(s) /\ Follows(s, s)
<1>1. PICK s : s = Do2("dispatch", op)
  OBVIOUS
<1>2. s.do = "dispatch" /\ s.dir = op /\ s = [do |-> "dispatch", dir |-> op]
  BY <1>1 DEF Do2
<1>3. op \in {"forward", "backward"}
  BY DEF DirsOf
<1>4. s \in JobSteps
  BY <1>2, <1>3 DEF JobSteps, BuildOnly, CallOnly
<1>5. Chained(<<s>>)
  BY <1>2, <1>4, ChainOne
<1>6. \A w \in self.rt : w.dir \in WorkerDirs
  BY DEF WorkersInv, InvReady, Fits
<1>7. \A w \in self.rt : w.dir \in {op, "both"}
  BY <1>6 DEF WorkersInv, InvObject, WorkerDirs, DirsOf, Classes
<1>8. Finds(s) /\ Follows(s, s)
  BY <1>2, <1>7 DEF Finds, Follows
<1> QED
  BY <1>1, <1>4, <1>5, <1>8

LEMMA Appended ==
  ASSUME NEW S, NEW q \in Seq(S), NEW a \in S, NEW n \in Nat, Len(q) = n, NEW s, s = Append(q, a)
  PROVE  s \in Seq(S) /\ s # <<>> /\ Len(s) = n + 1 /\ (\A i \in 1..n : s[i] = q[i]) /\ s[n + 1] = a
BY AppendProperties

\* PyPtoZeCo's dispatch, after the swap to the worker of its direction.
LEMMA SwapUnfolds ==
  ASSUME WorkersInv, self.ready, class = "PyPtoZeCo", self.rt # {},
         NEW dir \in {"forward", "backward"}
  PROVE  LET s == Append(Select(dir), Do2("dispatch", dir)) IN
         Chained(s) /\ s # <<>> /\ s[Len(s)].do = "dispatch" /\ Finds(s[1])
<1> DEFINE good(s) == Chained(s) /\ s # <<>> /\ s[Len(s)].do = "dispatch" /\ Finds(s[1])
<1>1. PICK a : a = Do2("dispatch", dir)
  OBVIOUS
<1>2. PICK b : b = Do2("prepare", dir)
  OBVIOUS
<1>3. PICK c : c = Do1("close")
  OBVIOUS
<1>4. /\ a.do = "dispatch" /\ a.dir = dir /\ a = [do |-> "dispatch", dir |-> dir]
      /\ b.do = "prepare" /\ b.dir = dir /\ b = [do |-> "prepare", dir |-> dir]
      /\ c.do = "close" /\ c.dir = "none" /\ c = [do |-> "close", dir |-> "none"]
  BY <1>1, <1>2, <1>3 DEF Do1, Do2
<1>5. a \in JobSteps /\ b \in JobSteps /\ c \in JobSteps
  BY <1>4 DEF JobSteps, BuildOnly, CallOnly, WorkerDirs, DirsOf
<1>6. Follows(b, a)
  BY <1>1, <1>4 DEF Follows
<1>7. Finds(c)
  BY <1>4 DEF Finds
<1>8. PICK s : s = Append(Select(dir), a)
  OBVIOUS
<1>9. CASE Selected(dir)
  <2>1. s = <<a>>
    BY <1>8, <1>9 DEF Select
  <2>2. \A w \in self.rt : w.dir \in {dir, "both"}
    <3>1. \A w \in self.rt : w.dir \in {"forward", "backward"} /\ (w.dir = "backward" <=> self.backward)
      BY DEF WorkersInv, InvReady, Fits, WorkerDirs, DirsOf
    <3>2. self.backward = (dir = "backward")
      BY <1>9 DEF Selected
    <3> QED
      BY <3>1, <3>2
  <2>3. Finds(a)
    BY <1>4, <2>2 DEF Finds
  <2>4. s # <<>> /\ s[1] = a /\ Len(s) = 1
    BY <2>1
  <2>5. Chained(s)
    BY <1>4, <1>5, <2>1, ChainOne
  <2> QED
    BY <1>1, <1>4, <1>8, <2>3, <2>4, <2>5
<1>10. CASE ~Selected(dir) /\ Compiled(dir)
  <2>1. PICK q : q = Select(dir)
    OBVIOUS
  <2>2. q = <<c, b>>
    BY <1>2, <1>3, <1>10, <2>1 DEF Select
  <2>3. q \in Seq(JobSteps) /\ Len(q) = 2 /\ q[1] = c /\ q[2] = b
    BY <1>5, <2>2
  <2>4. s \in Seq(JobSteps) /\ s # <<>> /\ Len(s) = 3 /\ s[1] = c /\ s[2] = b /\ s[3] = a
    <3>1. /\ s \in Seq(JobSteps) /\ s # <<>> /\ Len(s) = 2 + 1
          /\ \A i \in 1..2 : s[i] = q[i]
          /\ s[2 + 1] = a
      <4>1. q \in Seq(JobSteps) /\ Len(q) = 2 /\ 2 \in Nat /\ s = Append(q, a)
        BY <1>8, <2>1, <2>3
      <4> QED
        BY <1>5, <4>1, Appended
    <3>2. 1 \in 1..2 /\ 2 \in 1..2 /\ 2 + 1 = 3
      OBVIOUS
    <3> QED
      BY <2>3, <3>1, <3>2
  <2>5. Follows(c, b)
    BY <1>4, <1>10 DEF Follows, AfterClose
  <2>6. \A i \in 1..2 : Follows(s[i], s[i + 1])
    <3> SUFFICES ASSUME NEW i \in 1..2 PROVE Follows(s[i], s[i + 1])
      OBVIOUS
    <3>1. i = 1 \/ i = 2
      OBVIOUS
    <3> QED
      BY <1>6, <2>4, <2>5, <3>1
  <2>8. Chained(s)
    BY <1>4, <2>4, <2>6 DEF Chained
  <2> QED
    BY <1>1, <1>4, <1>7, <1>8, <2>4, <2>8
<1>11. CASE ~Selected(dir) /\ ~Compiled(dir)
  <2>1. PICK d : d = Do2("seek", dir)
    OBVIOUS
  <2>2. PICK e : e = Do2("search", dir)
    OBVIOUS
  <2>3. dir = "backward"
    BY <1>11 DEF Compiled
  <2>4. /\ d.do = "seek" /\ d.dir = dir /\ d = [do |-> "seek", dir |-> dir]
        /\ e.do = "search" /\ e.dir = dir /\ e = [do |-> "search", dir |-> dir]
    BY <2>1, <2>2 DEF Do2
  <2>5. d \in JobSteps /\ e \in JobSteps
    BY <2>3, <2>4 DEF JobSteps, BuildOnly, CallOnly
  <2>6. PICK q : q = Select(dir)
    OBVIOUS
  <2>7. q = <<c, d, e, b>>
    BY <1>2, <1>3, <1>11, <2>1, <2>2, <2>6 DEF Select
  <2>8. q \in Seq(JobSteps) /\ Len(q) = 4 /\ q[1] = c /\ q[2] = d /\ q[3] = e /\ q[4] = b
    BY <1>5, <2>5, <2>7
  <2>9. /\ s \in Seq(JobSteps) /\ s # <<>> /\ Len(s) = 5
        /\ s[1] = c /\ s[2] = d /\ s[3] = e /\ s[4] = b /\ s[5] = a
    <3>1. /\ s \in Seq(JobSteps) /\ s # <<>> /\ Len(s) = 4 + 1
          /\ \A i \in 1..4 : s[i] = q[i]
          /\ s[4 + 1] = a
      <4>1. q \in Seq(JobSteps) /\ Len(q) = 4 /\ 4 \in Nat /\ s = Append(q, a)
        BY <1>8, <2>6, <2>8
      <4> QED
        BY <1>5, <4>1, Appended
    <3>2. 1 \in 1..4 /\ 2 \in 1..4 /\ 3 \in 1..4 /\ 4 \in 1..4 /\ 4 + 1 = 5
      OBVIOUS
    <3> QED
      BY <2>8, <3>1, <3>2
  <2>10. Follows(e, b)
    BY <1>2, <2>3, <2>4 DEF Follows
  <2>11. Follows(d, e)
    BY <2>2, <2>4 DEF Follows
  <2>12. Follows(c, d)
    BY <1>4, <2>4 DEF Follows, AfterClose
  <2>13. \A i \in 1..4 : Follows(s[i], s[i + 1])
    <3> SUFFICES ASSUME NEW i \in 1..4 PROVE Follows(s[i], s[i + 1])
      OBVIOUS
    <3>1. i = 1 \/ i = 2 \/ i = 3 \/ i = 4
      OBVIOUS
    <3> QED
      BY <1>6, <2>9, <2>10, <2>11, <2>12, <3>1
  <2>15. Chained(s)
    BY <1>4, <2>9, <2>13 DEF Chained
  <2> QED
    BY <1>1, <1>4, <1>7, <1>8, <2>9, <2>15
<1> QED
  BY <1>9, <1>10, <1>11

LEMMA FusedUnfolds ==
  ASSUME WorkersInv, self.ready, class = "PyPtoZeCo", self.rt = {}, self.lent = {}
  PROVE  \E s : /\ s = RunFusedForward /\ Chained(s) /\ s # <<>> /\ Finds(s[1])
                /\ s[Len(s)].do = "return"
<1>1. PICK a : a = Do1("borrow")
  OBVIOUS
<1>2. PICK b : b = Do1("percall")
  OBVIOUS
<1>3. PICK c : c = Do1("return")
  OBVIOUS
<1>4. /\ a.do = "borrow" /\ a.dir = "none" /\ a = [do |-> "borrow", dir |-> "none"]
      /\ b.do = "percall" /\ b.dir = "none" /\ b = [do |-> "percall", dir |-> "none"]
      /\ c.do = "return" /\ c.dir = "none" /\ c = [do |-> "return", dir |-> "none"]
  BY <1>1, <1>2, <1>3 DEF Do1
<1>5. a \in JobSteps /\ b \in JobSteps /\ c \in JobSteps
  BY <1>4 DEF JobSteps, BuildOnly, CallOnly
<1>6. Follows(a, b) /\ Follows(b, c)
  BY <1>2, <1>3, <1>4 DEF Follows
<1>7. PICK s : s = <<a, b, c>>
  OBVIOUS
<1>8. s \in Seq(JobSteps) /\ Len(s) = 3 /\ s[1] = a /\ s[2] = b /\ s[3] = c
  BY <1>5, <1>7
<1>9. \A i \in 1..2 : Follows(s[i], s[i + 1])
  <2> SUFFICES ASSUME NEW i \in 1..2 PROVE Follows(s[i], s[i + 1])
    OBVIOUS
  <2>1. i = 1 \/ i = 2
    OBVIOUS
  <2> QED
    BY <1>6, <1>8, <2>1
<1>10. s # <<>>
  BY <1>8
<1>11. Chained(s)
  BY <1>4, <1>8, <1>9 DEF Chained
<1>12. live = {}
  BY DEF WorkersInv, InvLive, Reachable
<1>13. Finds(a)
  BY <1>4, <1>12 DEF Finds, NothingUp
<1>14. s = RunFusedForward
  BY <1>1, <1>2, <1>3, <1>7 DEF RunFusedForward
<1> QED
  BY <1>4, <1>8, <1>10, <1>11, <1>13, <1>14

\* What a forward or a backward of the object unfolds into.
LEMMA UnfoldedIs ==
  ASSUME WorkersInv, self.ready, self.lent = {}, NEW op \in DirsOf,
         ~(class = "PyPtoZeCo" /\ op = "backward" /\ self.rt = {})
  PROVE  \E s : /\ s = Unfolded(op) /\ Chained(s) /\ s # <<>> /\ Finds(s[1])
                /\ s[Len(s)].do \in {"dispatch", "return"}
<1>1. op \in {"forward", "backward"}
  BY DEF DirsOf
<1>2. CASE class # "PyPtoZeCo"
  <2>1. PICK s : s = Do2("dispatch", op)
    OBVIOUS
  <2>2. Chained(<<s>>) /\ Finds(s) /\ s.do = "dispatch"
    BY <1>2, <2>1, RingUnfolds, DoIs
  <2>3. <<s>> # <<>> /\ <<s>>[1] = s /\ Len(<<s>>) = 1
    OBVIOUS
  <2>4. Unfolded(op) = <<s>>
    BY <1>1, <1>2, <2>1 DEF Unfolded, OfZeCo, RunRing, RunRingBackward
  <2> QED
    BY <2>2, <2>3, <2>4
<1>3. CASE class = "PyPtoZeCo" /\ self.rt # {}
  <2>1. Unfolded(op) = Append(Select(op), Do2("dispatch", op))
    BY <1>1, <1>3 DEF Unfolded, OfZeCo, Forward1, Backward1
  <2> QED
    BY <1>1, <1>3, <2>1, SwapUnfolds
<1>4. CASE class = "PyPtoZeCo" /\ self.rt = {}
  <2>1. op = "forward"
    BY <1>1, <1>4
  <2>2. Unfolded(op) = RunFusedForward
    BY <1>4, <2>1 DEF Unfolded, OfZeCo, Forward1
  <2> QED
    BY <1>4, <2>2, FusedUnfolds
<1> QED
  BY <1>2, <1>3, <1>4

LEMMA UnfoldKeeps ==
  ASSUME WorkersInv, Unfold
  PROVE  WorkersInv'
<1>1. /\ job # <<>> /\ Head(job).do \in {"forward", "backward"} /\ UNCHANGED <<class, self, live>>
      /\ IF class = "PyPtoZeCo" /\ Head(job).do = "backward" /\ self.rt = {}
         THEN job' = <<>>
         ELSE job' = Unfolded(Head(job).do) \o Tail(job)
  BY DEF Unfold, Next1, RaiseAs
<1>2. Head(job) \in JobSteps /\ self.lent = {}
  BY <1>1, HeadFacts
<1>3. self.ready /\ Head(job).do \in DirsOf
  BY <1>1, <1>2 DEF JobSteps, CallOnly
<1>4. CASE job' = <<>>
  BY <1>1, <1>4, Raised
<1>5. CASE ~(class = "PyPtoZeCo" /\ Head(job).do = "backward" /\ self.rt = {})
  <2>1. PICK op \in DirsOf : op = Head(job).do
    BY <1>3
  <2>2. PICK s : /\ s = Unfolded(op) /\ Chained(s) /\ s # <<>> /\ Finds(s[1])
                 /\ s[Len(s)].do \in {"dispatch", "return"}
    BY <1>2, <1>3, <1>5, <2>1, UnfoldedIs
  <2>3. PICK t : t = Tail(job)
    OBVIOUS
  <2>4. Chained(t)
    BY <1>1, <2>3, ChainTail DEF WorkersInv
  <2>5. t # <<>> => Follows(Head(job), Head(t))
    BY <1>1, <2>3, ChainParts DEF WorkersInv
  <2>6. t # <<>> => Follows(s[Len(s)], t[1])
    <3>1. ASSUME t # <<>>
          PROVE  t[1].do \in {"forward", "backward"} \/ (t[1].do = "dispatch" /\ class # "PyPtoZeCo")
      BY <1>1, <2>5, <3>1 DEF Follows
    <3> QED
      BY <2>2, <3>1 DEF Follows
  <2>7. Chained(s \o t) /\ s \o t # <<>> /\ Head(s \o t) = s[1]
    BY <2>2, <2>4, <2>6, ChainConcat
  <2>8. PICK u : u = s \o t
    OBVIOUS
  <2>9. job' = u /\ Chained(u)' /\ u # <<>> /\ Head(u) = s[1]
    BY <1>1, <1>5, <2>1, <2>2, <2>3, <2>7, <2>8, ChainSame
  <2>10. Chained(job)'
    BY <2>9 DEF Chained
  <2>11. InvHead'
    <3>1. PICK n : n = s[1]
      OBVIOUS
    <3>2. Finds(n)'
      BY <1>1, <2>2, <3>1 DEF Finds, NothingUp, Fresh, Fits, WorkerDirs, DirsOf
    <3> QED
      BY <2>9, <3>1, <3>2 DEF InvHead
  <2>12. InvObject' /\ InvLive' /\ InvReady'
    BY <1>1, <1>2 DEF WorkersInv, InvObject, InvLive, Reachable, InvReady, Fresh, Fits, WorkerDirs, DirsOf
  <2> QED
    BY <2>10, <2>11, <2>12 DEF WorkersInv
<1> QED
  BY <1>1, <1>4, <1>5

\* The steps of a build follow each other whichever class is built.
LEMMA BuildChains ==
  ASSUME class' \in Classes, ~self'.ready
  PROVE  \E s : /\ s = BuildSteps' /\ Chained(s)' /\ s # <<>>
                /\ Head(s).do = "close" /\ s[Len(s)].do = "built"
<1>1. PICK a : a = Do1("close")
  OBVIOUS
<1>2. PICK e : e = Do1("alloc")
  OBVIOUS
<1>3. PICK h : h = Do1("built")
  OBVIOUS
<1>4. /\ a.do = "close" /\ a.dir = "none" /\ a = [do |-> "close", dir |-> "none"]
      /\ e.do = "alloc" /\ e.dir = "none" /\ e = [do |-> "alloc", dir |-> "none"]
      /\ h.do = "built" /\ h.dir = "none" /\ h = [do |-> "built", dir |-> "none"]
  BY <1>1, <1>2, <1>3 DEF Do1
<1>5. a \in JobSteps' /\ e \in JobSteps' /\ h \in JobSteps'
  BY <1>4 DEF JobSteps, BuildOnly, CallOnly
<1>6. CASE class' = "PyPtoZeCo"
  <2>1. PICK b : b = Do2("seek", "forward")
    OBVIOUS
  <2>2. PICK c : c = Do2("search", "forward")
    OBVIOUS
  <2>3. PICK p : p = Do2("prepare", "forward")
    OBVIOUS
  <2>4. /\ b.do = "seek" /\ b.dir = "forward" /\ b = [do |-> "seek", dir |-> "forward"]
        /\ c.do = "search" /\ c.dir = "forward" /\ c = [do |-> "search", dir |-> "forward"]
        /\ p.do = "prepare" /\ p.dir = "forward" /\ p = [do |-> "prepare", dir |-> "forward"]
    BY <2>1, <2>2, <2>3 DEF Do2
  <2>5. b \in JobSteps' /\ c \in JobSteps' /\ p \in JobSteps'
    BY <1>6, <2>4 DEF JobSteps, BuildOnly, CallOnly, WorkerDirs, DirsOf
  <2>6. Follows(a, b)'
    BY <1>4, <2>4 DEF Follows, AfterClose
  <2>7. Follows(b, c)'
    BY <2>2, <2>4 DEF Follows
  <2>8. Follows(c, e)'
    BY <1>2, <2>4 DEF Follows
  <2>9. Follows(e, p)'
    BY <1>4, <1>6, <2>3 DEF Follows
  <2>10. Follows(p, h)'
    BY <1>3, <2>4 DEF Follows
  <2>11. PICK s : s = <<a, b, c, e, p, h>>
    OBVIOUS
  <2>12. /\ s \in Seq(JobSteps') /\ Len(s) = 6 /\ s[1] = a /\ s[2] = b /\ s[3] = c
         /\ s[4] = e /\ s[5] = p /\ s[6] = h
    BY <1>5, <2>5, <2>11
  <2>13. s # <<>> /\ Head(s) = a
    BY <2>11
  <2>14. \A i \in 1..5 : Follows(s[i], s[i + 1])'
    <3> SUFFICES ASSUME NEW i \in 1..5 PROVE Follows(s[i], s[i + 1])'
      OBVIOUS
    <3>1. i = 1 \/ i = 2 \/ i = 3 \/ i = 4 \/ i = 5
      OBVIOUS
    <3> QED
      BY <2>6, <2>7, <2>8, <2>9, <2>10, <2>12, <3>1
  <2>15. Chained(s)'
    BY <1>4, <2>12, <2>14 DEF Chained
  <2>16. s = BuildSteps'
    BY <1>1, <1>2, <1>3, <1>6, <2>1, <2>2, <2>3, <2>11 DEF BuildSteps, PyPtoZeCoBuild
  <2> QED
    BY <1>4, <2>12, <2>13, <2>15, <2>16
<1>7. CASE class' \in {"PyPtoAllscan", "PyPtoAllscanBackward"}
  <2>1. PICK dir : dir = IF class' = "PyPtoAllscanBackward" THEN "backward" ELSE "forward"
    OBVIOUS
  <2>2. PICK b : b = Do2("compile", dir)
    OBVIOUS
  <2>3. PICK p : p = Do2("prepare", dir)
    OBVIOUS
  <2>4. /\ b.do = "compile" /\ b.dir = dir /\ b = [do |-> "compile", dir |-> dir]
        /\ p.do = "prepare" /\ p.dir = dir /\ p = [do |-> "prepare", dir |-> dir]
    BY <2>2, <2>3 DEF Do2
  <2>5. b \in JobSteps' /\ p \in JobSteps'
    BY <1>7, <2>1, <2>4 DEF JobSteps, BuildOnly, CallOnly, WorkerDirs, DirsOf
  <2>6. Follows(a, b)'
    BY <1>4, <2>4 DEF Follows, AfterClose
  <2>7. Follows(b, e)'
    BY <1>2, <1>7, <2>4 DEF Follows
  <2>8. Follows(e, p)'
    BY <1>4, <1>7, <2>1, <2>3 DEF Follows
  <2>9. Follows(p, h)'
    BY <1>3, <2>4 DEF Follows
  <2>10. PICK s : s = <<a, b, e, p, h>>
    OBVIOUS
  <2>11. /\ s \in Seq(JobSteps') /\ Len(s) = 5 /\ s[1] = a /\ s[2] = b /\ s[3] = e
         /\ s[4] = p /\ s[5] = h
    BY <1>5, <2>5, <2>10
  <2>12. s # <<>> /\ Head(s) = a
    BY <2>10
  <2>13. \A i \in 1..4 : Follows(s[i], s[i + 1])'
    <3> SUFFICES ASSUME NEW i \in 1..4 PROVE Follows(s[i], s[i + 1])'
      OBVIOUS
    <3>1. i = 1 \/ i = 2 \/ i = 3 \/ i = 4
      OBVIOUS
    <3> QED
      BY <2>6, <2>7, <2>8, <2>9, <2>11, <3>1
  <2>14. Chained(s)'
    BY <1>4, <2>11, <2>13 DEF Chained
  <2>15. s = BuildSteps'
    BY <1>1, <1>2, <1>3, <1>7, <2>1, <2>2, <2>3, <2>10
       DEF BuildSteps, PyPtoAllscanBuild, PyPtoAllscanBackwardBuild
  <2> QED
    BY <1>4, <2>11, <2>12, <2>14, <2>15
<1>8. CASE class' = "SimplerAllscan"
  <2>1. PICK b : b = Do2("compile", "both")
    OBVIOUS
  <2>2. PICK c : c = Do2("construct", "both")
    OBVIOUS
  <2>3. PICK p : p = Do1("init")
    OBVIOUS
  <2>4. /\ b.do = "compile" /\ b.dir = "both" /\ b = [do |-> "compile", dir |-> "both"]
        /\ c.do = "construct" /\ c.dir = "both" /\ c = [do |-> "construct", dir |-> "both"]
        /\ p.do = "init" /\ p.dir = "none" /\ p = [do |-> "init", dir |-> "none"]
    BY <2>1, <2>2, <2>3 DEF Do1, Do2
  <2>5. b \in JobSteps' /\ c \in JobSteps' /\ p \in JobSteps'
    BY <1>8, <2>4 DEF JobSteps, BuildOnly, CallOnly, WorkerDirs, DirsOf
  <2>6. Follows(a, b)'
    BY <1>4, <2>4 DEF Follows, AfterClose
  <2>7. Follows(b, c)'
    BY <1>8, <2>2, <2>4 DEF Follows
  <2>8. Follows(c, e)'
    BY <1>2, <2>4 DEF Follows
  <2>9. Follows(e, p)'
    BY <1>4, <1>8, <2>3 DEF Follows
  <2>10. Follows(p, h)'
    BY <1>3, <2>4 DEF Follows
  <2>11. PICK s : s = <<a, b, c, e, p, h>>
    OBVIOUS
  <2>12. /\ s \in Seq(JobSteps') /\ Len(s) = 6 /\ s[1] = a /\ s[2] = b /\ s[3] = c
         /\ s[4] = e /\ s[5] = p /\ s[6] = h
    BY <1>5, <2>5, <2>11
  <2>13. s # <<>> /\ Head(s) = a
    BY <2>11
  <2>14. \A i \in 1..5 : Follows(s[i], s[i + 1])'
    <3> SUFFICES ASSUME NEW i \in 1..5 PROVE Follows(s[i], s[i + 1])'
      OBVIOUS
    <3>1. i = 1 \/ i = 2 \/ i = 3 \/ i = 4 \/ i = 5
      OBVIOUS
    <3> QED
      BY <2>6, <2>7, <2>8, <2>9, <2>10, <2>12, <3>1
  <2>15. Chained(s)'
    BY <1>4, <2>12, <2>14 DEF Chained
  <2>16. s = BuildSteps'
    BY <1>1, <1>2, <1>3, <1>8, <2>1, <2>2, <2>3, <2>11 DEF BuildSteps, SimplerAllscanBuild
  <2> QED
    BY <1>4, <2>12, <2>13, <2>15, <2>16
<1> QED
  BY <1>6, <1>7, <1>8 DEF Classes

\* Building again starts with the object as it is, whatever happened to it.
LEMMA StartBuildKeeps ==
  ASSUME WorkersInv, NEW c \in Configs, StartBuild(c)
  PROVE  WorkersInv' /\ job' # <<>> /\ job'[Len(job')].do = "built"
<1>1. /\ job = <<>> /\ job' = BuildSteps /\ UNCHANGED <<class, live>>
      /\ self' = [self EXCEPT !.shape = {c}, !.ready = FALSE]
  BY DEF StartBuild, Waiting
<1>2. self \in Objects /\ class \in Classes /\ self.lent = {} /\ Reachable
  BY <1>1 DEF WorkersInv, InvObject, InvLive, Next1
<1>3. PICK r : r = [self EXCEPT !.shape = {c}]
  OBVIOUS
<1>4. r \in Objects /\ r.rt = self.rt /\ r.lent = {} /\ r.bcompiled = self.bcompiled
  BY <1>2, <1>3 DEF Objects
<1>5. self' = [r EXCEPT !.ready = FALSE]
  BY <1>1, <1>2, <1>3 DEF Objects
<1>6. self' \in Objects /\ ~self'.ready
  BY <1>4, <1>5 DEF Objects
<1>7. self'.rt = self.rt /\ self'.lent = {} /\ self'.bcompiled = self.bcompiled
  BY <1>4, <1>5 DEF Objects
<1>8. InvObject' /\ InvLive' /\ InvReady'
  BY <1>1, <1>2, <1>6, <1>7 DEF WorkersInv, InvObject, InvLive, Reachable, InvReady
<1>9. PICK s : /\ s = BuildSteps' /\ Chained(s)' /\ s # <<>>
               /\ Head(s).do = "close" /\ s[Len(s)].do = "built"
  BY <1>1, <1>2, <1>6, BuildChains
<1>10. job' = s
  BY <1>1, <1>9 DEF BuildSteps
<1>11. Chained(job)'
  BY <1>9, <1>10 DEF Chained
<1>12. InvHead'
  BY <1>9, <1>10 DEF InvHead, Finds
<1> QED
  BY <1>8, <1>9, <1>10, <1>11, <1>12 DEF WorkersInv

\* The operations that need a direction of the backend.
ForwardOps  == {"forward", "forward_multihead", "measure"}
BackwardOps == {"backward", "backward_multihead", "measure_backward"}

\* A forward, or a backward, as a step of a call.
LEMMA PublicStep ==
  ASSUME WorkersInv, self.ready, NEW op \in DirsOf
  PROVE  /\ Do1(op) \in JobSteps /\ Chained(<<Do1(op)>>) /\ Finds(Do1(op))
         /\ \A n \in Nat : \E s : /\ s = Times(n, <<Do1(op)>>) /\ Chained(s)
                                  /\ s # <<>> => Head(s) = Do1(op) /\ s[Len(s)] = Do1(op)
         /\ \A b \in DirsOf : Follows(Do1(op), Do1(b))
<1>1. PICK s : s = Do1(op)
  OBVIOUS
<1>2. op \in {"forward", "backward"}
  BY DEF DirsOf
<1>3. s.do = op /\ s.dir = "none" /\ s = [do |-> op, dir |-> "none"]
  BY <1>1 DEF Do1
<1>4. s \in JobSteps
  BY <1>2, <1>3 DEF JobSteps, BuildOnly, CallOnly
<1>5. \A b \in DirsOf : Follows(s, Do1(b))
  <2> SUFFICES ASSUME NEW b \in DirsOf PROVE Follows(s, Do1(b))
    OBVIOUS
  <2>1. Do1(b).do = b /\ b \in {"forward", "backward"}
    BY DoIs DEF DirsOf
  <2> QED
    BY <1>2, <1>3, <2>1 DEF Follows
<1>6. Follows(s, s)
  BY <1>1, <1>5
<1>7. s.do \in {"built", "closed", "dispatch", "return", "forward", "backward"}
  BY <1>2, <1>3
<1>8. Chained(<<s>>)
  BY <1>4, <1>7, ChainOne
<1>9. \A n \in Nat : \E q : /\ q = Times(n, <<s>>) /\ Chained(q)
                            /\ q # <<>> => Head(q) = s /\ q[Len(q)] = s
  BY <1>4, <1>6, <1>7, ChainTimes
<1>10. Finds(s)
  BY <1>2, <1>3 DEF Finds
<1> QED
  BY <1>1, <1>4, <1>5, <1>8, <1>9, <1>10

\* A call unfolds into a chain of steps that can start.
LEMMA CallChains ==
  ASSUME WorkersInv, NEW op,
         \/ op = "close"
         \/ /\ self.ready
            /\ \/ op \in ForwardOps /\ "forward" \in DirsOf
               \/ op \in BackwardOps /\ "backward" \in DirsOf
               \/ op = "train" /\ class = "PyPtoZeCo"
  PROVE  \E s : /\ s = CallSteps(op) /\ Chained(s) /\ (s # <<>> => Finds(Head(s)))
                /\ s # <<>> /\ op # "close" => s[Len(s)].do # "closed"
<1>1. Heads \in Nat /\ Timed \in Nat /\ Timed + 1 \in Nat
  BY ConfigAssumption
<1>2. CASE op = "close"
  <2>1. PICK a : a = Do1("close")
    OBVIOUS
  <2>2. PICK b : b = Do1("closed")
    OBVIOUS
  <2>3. /\ a.do = "close" /\ a.dir = "none" /\ a = [do |-> "close", dir |-> "none"]
        /\ b.do = "closed" /\ b.dir = "none" /\ b = [do |-> "closed", dir |-> "none"]
    BY <2>1, <2>2 DEF Do1
  <2>4. a \in JobSteps /\ b \in JobSteps
    BY <2>3 DEF JobSteps, BuildOnly, CallOnly
  <2>5. Follows(a, b) /\ Finds(a)
    BY <2>3 DEF Follows, AfterClose, Finds
  <2>6. PICK s : s = <<a, b>>
    OBVIOUS
  <2>7. s \in Seq(JobSteps) /\ Len(s) = 2 /\ s[1] = a /\ s[2] = b /\ Head(s) = a
    BY <2>4, <2>6
  <2>8. \A i \in 1..1 : Follows(s[i], s[i + 1])
    <3>1. \A i \in 1..1 : i = 1 /\ i + 1 = 2
      OBVIOUS
    <3> QED
      BY <2>5, <2>7, <3>1
  <2>9. Chained(s)
    BY <2>3, <2>7, <2>8 DEF Chained
  <2>10. s = CallSteps(op)
    BY <1>2, <2>1, <2>2, <2>6 DEF CallSteps
  <2> QED
    BY <1>2, <2>5, <2>7, <2>9, <2>10
<1>3. ASSUME self.ready, NEW x \in DirsOf, NEW n \in Nat, CallSteps(op) = Times(n, <<Do1(x)>>)
      PROVE  \E s : /\ s = CallSteps(op) /\ Chained(s) /\ (s # <<>> => Finds(Head(s)))
                    /\ s # <<>> /\ op # "close" => s[Len(s)].do # "closed"
  <2>1. PICK s : /\ s = Times(n, <<Do1(x)>>) /\ Chained(s)
                 /\ s # <<>> => Head(s) = Do1(x) /\ s[Len(s)] = Do1(x)
    <3>1. \A m \in Nat : \E s : /\ s = Times(m, <<Do1(x)>>) /\ Chained(s)
                                /\ s # <<>> => Head(s) = Do1(x) /\ s[Len(s)] = Do1(x)
      BY <1>3, PublicStep
    <3> QED
      BY <3>1
  <2>2. Finds(Do1(x)) /\ Do1(x).do # "closed"
    BY <1>3, PublicStep, DoIs DEF DirsOf
  <2> QED
    BY <1>3, <2>1, <2>2
<1>4. ASSUME self.ready, NEW x \in DirsOf, CallSteps(op) = <<Do1(x)>>
      PROVE  \E s : /\ s = CallSteps(op) /\ Chained(s) /\ (s # <<>> => Finds(Head(s)))
                    /\ s # <<>> /\ op # "close" => s[Len(s)].do # "closed"
  <2>1. PICK a : a = Do1(x)
    OBVIOUS
  <2>2. Chained(<<a>>) /\ Finds(a)
    BY <1>4, <2>1, PublicStep
  <2>3. Head(<<a>>) = a /\ Len(<<a>>) = 1 /\ <<a>>[1] = a
    OBVIOUS
  <2>4. a.do # "closed"
    BY <2>1, DoIs DEF DirsOf
  <2> QED
    BY <1>4, <2>1, <2>2, <2>3, <2>4
<1>5. ASSUME self.ready, class # "PyPtoZeCo", NEW x \in DirsOf, NEW n \in Nat,
             CallSteps(op) = Times(n, <<Do2("dispatch", x)>>)
      PROVE  \E s : /\ s = CallSteps(op) /\ Chained(s) /\ (s # <<>> => Finds(Head(s)))
                    /\ s # <<>> /\ op # "close" => s[Len(s)].do # "closed"
  <2>1. PICK a : a = Do2("dispatch", x)
    OBVIOUS
  <2>2. a \in JobSteps /\ Finds(a) /\ Follows(a, a) /\ a.do = "dispatch"
    BY <1>5, <2>1, RingUnfolds, DoIs
  <2>3. /\ Chained(Times(n, <<a>>))
        /\ Times(n, <<a>>) # <<>> =>
             Head(Times(n, <<a>>)) = a /\ Times(n, <<a>>)[Len(Times(n, <<a>>))] = a
    BY <2>2, ChainTimes
  <2> QED
    BY <1>5, <2>1, <2>2, <2>3
<1>6. CASE self.ready /\ op \in ForwardOps /\ "forward" \in DirsOf
  <2>1. CASE op = "forward"
    BY <1>4, <1>6, <2>1 DEF CallSteps
  <2>2. CASE op = "forward_multihead"
    BY <1>1, <1>3, <1>6, <2>2 DEF CallSteps, MultiHead
  <2>3. CASE op = "measure" /\ class = "PyPtoZeCo"
    <3>1. PICK n \in Nat : CallSteps(op) = Times(n, <<Do1("forward")>>)
      BY <1>1, <2>3 DEF CallSteps, Measure1, OfZeCo
    <3> QED
      BY <1>3, <1>6, <3>1
  <2>4. CASE op = "measure" /\ class # "PyPtoZeCo"
    <3>1. CallSteps(op) = Times(Timed, <<Do2("dispatch", "forward")>>)
      BY <2>4 DEF CallSteps, Measure2, RunRing, OfZeCo
    <3> QED
      BY <1>1, <1>5, <1>6, <2>4, <3>1
  <2> QED
    BY <1>6, <2>1, <2>2, <2>3, <2>4 DEF ForwardOps
<1>7. CASE self.ready /\ op \in BackwardOps /\ "backward" \in DirsOf
  <2>1. CASE op = "backward"
    BY <1>4, <1>7, <2>1 DEF CallSteps
  <2>2. CASE op = "backward_multihead"
    BY <1>1, <1>3, <1>7, <2>2 DEF CallSteps, MultiHead
  <2>3. CASE op = "measure_backward" /\ class = "PyPtoZeCo"
    <3>1. CallSteps(op) = Times(Timed + 1, <<Do1("backward")>>)
      BY <2>3 DEF CallSteps, MeasureBackward1, OfZeCo
    <3> QED
      BY <1>1, <1>3, <1>7, <3>1
  <2>4. CASE op = "measure_backward" /\ class # "PyPtoZeCo"
    <3>1. CallSteps(op) = Times(Timed, <<Do2("dispatch", "backward")>>)
      BY <2>4 DEF CallSteps, MeasureBackward2, RunRingBackward, OfZeCo
    <3> QED
      BY <1>1, <1>5, <1>7, <2>4, <3>1
  <2> QED
    BY <1>7, <2>1, <2>2, <2>3, <2>4 DEF BackwardOps
<1>8. CASE self.ready /\ op = "train" /\ class = "PyPtoZeCo"
  <2>1. "forward" \in DirsOf /\ "backward" \in DirsOf
    BY <1>8 DEF DirsOf
  <2>2. PICK a : a = Do1("forward")
    OBVIOUS
  <2>3. PICK b : b = Do1("backward")
    OBVIOUS
  <2>4. a \in JobSteps /\ b \in JobSteps /\ Finds(a) /\ Follows(a, b) /\ b.do = "backward"
    BY <1>8, <2>1, <2>2, <2>3, PublicStep, DoIs
  <2>5. PICK s : s = <<a, b>>
    OBVIOUS
  <2>6. s \in Seq(JobSteps) /\ Len(s) = 2 /\ s[1] = a /\ s[2] = b /\ Head(s) = a
    BY <2>4, <2>5
  <2>7. \A i \in 1..1 : Follows(s[i], s[i + 1])
    <3>1. \A i \in 1..1 : i = 1 /\ i + 1 = 2
      OBVIOUS
    <3> QED
      BY <2>4, <2>6, <3>1
  <2>8. Chained(s)
    BY <2>4, <2>6, <2>7 DEF Chained
  <2>9. s = CallSteps(op)
    BY <1>8, <2>2, <2>3, <2>5 DEF CallSteps, TrainStep
  <2> QED
    BY <2>4, <2>6, <2>8, <2>9
<1> QED
  BY <1>2, <1>6, <1>7, <1>8

LEMMA StartCallKeeps ==
  ASSUME WorkersInv, NEW op, StartCall(op),
         \/ op = "close"
         \/ /\ self.ready
            /\ \/ op \in ForwardOps /\ "forward" \in DirsOf
               \/ op \in BackwardOps /\ "backward" \in DirsOf
               \/ op = "train" /\ class = "PyPtoZeCo"
  PROVE  WorkersInv' /\ (job' # <<>> /\ op # "close" => job'[Len(job')].do # "closed")
<1>1. job = <<>> /\ job' = CallSteps(op) /\ UNCHANGED <<class, self, live>>
  BY DEF StartCall, Waiting
<1>2. PICK s : /\ s = CallSteps(op) /\ Chained(s) /\ (s # <<>> => Finds(Head(s)))
               /\ s # <<>> /\ op # "close" => s[Len(s)].do # "closed"
  BY CallChains
<1>3. job' = s /\ Chained(s)'
  BY <1>1, <1>2, ChainSame
<1>4. Chained(job)'
  BY <1>3 DEF Chained
<1>5. InvHead'
  <2>1. PICK n : n = Head(s)
    OBVIOUS
  <2>2. s # <<>> => Finds(n)'
    BY <1>1, <1>2, <2>1 DEF Finds, NothingUp, Fresh, Fits, WorkerDirs, DirsOf
  <2> QED
    BY <1>3, <2>1, <2>2 DEF InvHead
<1>6. InvObject' /\ InvLive' /\ InvReady'
  BY <1>1 DEF WorkersInv, InvObject, InvLive, Reachable, Next1, InvReady, Fresh, Fits, WorkerDirs, DirsOf
<1> QED
  BY <1>2, <1>3, <1>4, <1>5, <1>6 DEF WorkersInv

LEMMA SearchKeeps ==
  ASSUME WorkersInv, SearchStep
  PROVE  WorkersInv'
<1>1. UNCHANGED <<class, self, live, job>>
  BY DEF SearchStep, workerVars
<1> QED
  BY <1>1, QuietWorkers

\* Every step of every call keeps the invariant of the prepared workers.
LEMMA WorkerStepKeeps ==
  ASSUME WorkersInv, WorkerStep
  PROVE  WorkersInv'
BY CloseRtKeeps, SeekPlanKeeps, SearchKeeps, KeepProgramKeeps, SearchFailsKeeps, CompileKeeps,
   AllocKeeps, PrepareKeeps, ConstructKeeps, InitWorkerKeeps, BuiltKeeps, ClosedKeeps, UnfoldKeeps,
   DispatchKeeps, BorrowKeeps, PerCallKeeps, GiveBackKeeps
   DEF WorkerStep

LEMMA WorkersStart ==
  ASSUME WorkersInit
  PROVE  WorkersInv
<1>1. class \in Classes /\ self = NewObject /\ live = {} /\ job = <<>>
  BY DEF WorkersInit
<1>2. /\ self \in Objects /\ self.rt = {} /\ self.lent = {} /\ self.bcompiled = {} /\ ~self.ready
  BY <1>1 DEF NewObject, Objects
<1> QED
  BY <1>1, <1>2 DEF WorkersInv, InvObject, Chained, InvLive, Reachable, InvReady, InvHead

-----------------------------------------------------------------------------
(* The rows of the sweeps *)

RowSet ==
  {r \in [impl : Classes \cup {"SimplerZeCo"}, dir : {"forward", "backward"}, config : Configs] :
     \/ program = "gla" /\ r.impl \in {"PyPtoZeCo", "SimplerZeCo"}
     \/ program = "allscan" /\ r.impl \in {"PyPtoAllscan", "SimplerAllscan"}
     \/ program = "allscan_backward" /\ r.impl \in {"SimplerAllscan", "PyPtoAllscanBackward"}}

Forwards(r) == program = "allscan" \/ (program = "gla" /\ r.dir = "forward")

LEMMA BlockIs ==
  ASSUME NEW impl \in Classes \cup {"SimplerZeCo"}, NEW dir \in {"forward", "backward"},
         \/ program = "gla" /\ impl \in {"PyPtoZeCo", "SimplerZeCo"}
         \/ program = "allscan" /\ impl \in {"PyPtoAllscan", "SimplerAllscan"}
         \/ program = "allscan_backward" /\ impl \in {"SimplerAllscan", "PyPtoAllscanBackward"}
  PROVE  Block(impl, dir) \in Seq(RowSet)
<1>1. ConfigList \in Seq(Configs)
  BY SweepAssumption
<1>2. Len(ConfigList) \in Nat /\ DOMAIN ConfigList = 1..Len(ConfigList)
  BY <1>1, LenProperties
<1>3. \A i \in 1..Len(ConfigList) : ConfigList[i] \in Configs
  BY <1>1, ElementOfSeq
<1>4. \A i \in 1..Len(ConfigList) : Row(impl, dir, ConfigList[i]) \in RowSet
  BY <1>3 DEF Row, RowSet
<1>5. [i \in 1..Len(ConfigList) |-> Row(impl, dir, ConfigList[i])] \in Seq(RowSet)
  BY <1>2, <1>4, IsASeq
<1> QED
  BY <1>2, <1>5 DEF Block

LEMMA RowsAre ==
  ASSUME program \in Programs
  PROVE  /\ Rows \in Seq(RowSet) /\ Len(Rows) \in Nat /\ DOMAIN Rows = 1..Len(Rows)
         /\ \A i \in DOMAIN Rows : Rows[i] \in RowSet
<1>1. Rows \in Seq(RowSet)
  <2>1. CASE program = "gla"
    <3>1. PICK a, b, c, d : /\ a = Block("PyPtoZeCo", "forward") /\ b = Block("PyPtoZeCo", "backward")
                            /\ c = Block("SimplerZeCo", "forward") /\ d = Block("SimplerZeCo", "backward")
      OBVIOUS
    <3>2. a \in Seq(RowSet) /\ b \in Seq(RowSet) /\ c \in Seq(RowSet) /\ d \in Seq(RowSet)
      BY <2>1, <3>1, BlockIs DEF Classes
    <3>3. a \o b \o c \o d \in Seq(RowSet)
      <4>1. a \o b \in Seq(RowSet)
        BY <3>2, ConcatProperties
      <4>2. (a \o b) \o c \in Seq(RowSet)
        BY <3>2, <4>1, ConcatProperties
      <4> QED
        BY <3>2, <4>2, ConcatProperties
    <3> QED
      BY <2>1, <3>1, <3>3 DEF Rows, GlaRows
  <2>2. CASE program = "allscan"
    <3>1. /\ Block("PyPtoAllscan", "forward") \in Seq(RowSet)
          /\ Block("SimplerAllscan", "forward") \in Seq(RowSet)
      BY <2>2, BlockIs DEF Classes
    <3>2. AllscanRows \in Seq(RowSet)
      BY <3>1, ConcatProperties DEF AllscanRows
    <3> QED
      BY <2>2, <3>2 DEF Rows
  <2>3. CASE program = "allscan_backward"
    <3>1. /\ Block("SimplerAllscan", "backward") \in Seq(RowSet)
          /\ Block("PyPtoAllscanBackward", "backward") \in Seq(RowSet)
      BY <2>3, BlockIs DEF Classes
    <3>2. AllscanBackwardRows \in Seq(RowSet)
      BY <3>1, ConcatProperties DEF AllscanBackwardRows
    <3> QED
      BY <2>3, <3>2 DEF Rows
  <2>4. CASE program \in {"simpler_client", "pypto_client"}
    BY <2>4 DEF Rows
  <2> QED
    BY <2>1, <2>2, <2>3, <2>4, SweepAssumption
<1>2. PICK s : s = Rows
  OBVIOUS
<1>3. Len(s) \in Nat /\ DOMAIN s = 1..Len(s) /\ \A i \in 1..Len(s) : s[i] \in RowSet
  BY <1>1, <1>2, LenProperties, ElementOfSeq
<1> QED
  BY <1>1, <1>2, <1>3

\* A row builds first; what it calls then is of its direction.
LEMMA RowCallsAre ==
  ASSUME NEW r \in RowSet
  PROVE  \E s : /\ s = RowCalls(r) /\ Len(s) \in Nat \ {0} /\ s[1] = "build"
                /\ \A i \in 1..Len(s) : i # 1 =>
                     s[i] \in IF Forwards(r) THEN {"forward", "measure"}
                              ELSE {"backward", "measure_backward"}
<1>1. PICK S : S = IF Forwards(r) THEN {"forward", "measure"} ELSE {"backward", "measure_backward"}
  OBVIOUS
<1>2. PICK x, y : /\ x = (IF Forwards(r) THEN "forward" ELSE "backward")
                  /\ y = (IF Forwards(r) THEN "measure" ELSE "measure_backward")
  OBVIOUS
<1>3. x \in S /\ y \in S
  BY <1>1, <1>2
<1>4. PICK n \in Nat : RowCalls(r) = <<"build">> \o (Times(n, <<x>>) \o <<y>>)
  <2>1. 1 + Warmups \in Nat /\ 2 + Warmups \in Nat
    BY SweepAssumption
  <2>2. CASE program = "gla"
    <3>1. r.dir \in {"forward", "backward"}
      BY DEF RowSet
    <3>2. x = r.dir /\ y = (IF r.dir = "forward" THEN "measure" ELSE "measure_backward")
      BY <1>2, <2>2, <3>1 DEF Forwards
    <3>3. RowCalls(r) = <<"build">> \o (Times(2 + Warmups, <<x>>) \o <<y>>)
      BY <2>2, <3>2 DEF RowCalls, GlaCalls
    <3> QED
      BY <2>1, <3>3
  <2>3. CASE program = "allscan"
    <3>1. x = "forward" /\ y = "measure"
      BY <1>2, <2>3 DEF Forwards
    <3>2. RowCalls(r) = <<"build">> \o (Times(1 + Warmups, <<x>>) \o <<y>>)
      BY <2>3, <3>1 DEF RowCalls, AllscanCalls
    <3> QED
      BY <2>1, <3>2
  <2>4. CASE program = "allscan_backward"
    <3>1. x = "backward" /\ y = "measure_backward"
      BY <1>2, <2>4 DEF Forwards
    <3>2. RowCalls(r) = <<"build">> \o (Times(1 + Warmups, <<x>>) \o <<y>>)
      BY <2>4, <3>1 DEF RowCalls, AllscanBackwardCalls
    <3> QED
      BY <2>1, <3>2
  <2> QED
    BY <2>2, <2>3, <2>4 DEF RowSet
<1>5. Times(n, <<x>>) \in Seq(S)
  <2>1. Closed2(Seq(S))
    <3>1. \A s, t \in Seq(S) : s \o t \in Seq(S)
      BY ConcatProperties
    <3> QED
      BY <3>1 DEF Closed2
  <2>2. <<x>> \in Seq(S)
    BY <1>3
  <2> QED
    BY <2>1, <2>2, Repeated
<1>6. PICK t : t = Times(n, <<x>>) \o <<y>>
  OBVIOUS
<1>7. t \in Seq(S)
  BY <1>3, <1>5, <1>6, ConcatProperties
<1>8. Len(t) \in Nat
  BY <1>7, LenProperties
<1>9. PICK m \in Nat : m = Len(t)
  BY <1>8
<1>10. PICK s : s = RowCalls(r)
  OBVIOUS
<1>11. s = <<"build">> \o t
  BY <1>4, <1>6, <1>10
<1>12. PICK T : T = S \cup {"build"}
  OBVIOUS
<1>13. <<"build">> \in Seq(T) /\ t \in Seq(T) /\ Len(<<"build">>) = 1 /\ <<"build">>[1] = "build"
  BY <1>7, <1>12
<1>14. /\ Len(s) = 1 + m
       /\ \A i \in 1..(1 + m) : s[i] = IF i <= 1 THEN <<"build">>[i] ELSE t[i - 1]
  BY <1>9, <1>11, <1>13, ConcatProperties
<1>15. \A i \in 1..m : t[i] \in S
  BY <1>7, <1>9, ElementOfSeq
<1>16. s[1] = "build"
  BY <1>13, <1>14
<1>17. ASSUME NEW i \in 1..(1 + m), i # 1 PROVE s[i] \in S
  <2>1. ~(i <= 1) /\ i - 1 \in 1..m
    BY <1>17
  <2> QED
    BY <1>14, <1>15, <2>1
<1>18. Len(s) \in Nat \ {0}
  BY <1>14
<1> QED
  BY <1>1, <1>10, <1>14, <1>16, <1>17, <1>18

-----------------------------------------------------------------------------
(* Sweeps *)

LEMMA QuietZeCo ==
  ASSUME ZeCoInv, UNCHANGED simplerVars
  PROVE  ZeCoInv' /\ UNCHANGED <<built, raised>>
<1>1. /\ UNCHANGED <<P, built, session, runners, staged, held>>
      /\ UNCHANGED <<orphans, fresh, ring, script, raised, refused>>
  BY DEF simplerVars, vars
<1>2. InvScript'
  BY <1>1 DEF ZeCoInv, InvScript, Measuring
<1>3. InvRunners'
  BY <1>1 DEF ZeCoInv, InvRunners, Measuring
<1>4. InvSteps' /\ OwnChecksNeverFire'
  BY <1>1 DEF ZeCoInv, InvSteps, OwnChecksNeverFire, At
<1>5. Separated => InvRelease'
  BY <1>1 DEF ZeCoInv, InvRelease, Measuring, At
<1> QED
  BY <1>1, <1>2, <1>3, <1>4, <1>5 DEF ZeCoInv

\* What every step of a call leaves alone.
LEMMA WorkerFrame ==
  ASSUME WorkerStep
  PROVE  job # <<>> /\ UNCHANGED class
BY DEF WorkerStep, CloseRt, SeekPlan, SearchStep, KeepProgram, SearchFails, Compile, AllocBuffers,
       Prepare, Construct, InitWorker, Built, Closed, Unfold, Dispatch, Borrow, PerCall, GiveBack,
       Next1, workerVars

LEMMA LastOf ==
  ASSUME NEW S, NEW s \in Seq(S), NEW t \in Seq(S), s # <<>>
  PROVE  /\ s \o t # <<>>
         /\ (s \o t)[Len(s \o t)] = IF t = <<>> THEN s[Len(s)] ELSE t[Len(t)]
<1>1. Len(s) \in Nat \ {0}
  BY EmptySeq, LenProperties
<1>2. Len(t) \in Nat
  BY LenProperties
<1>3. PICK m \in Nat \ {0} : m = Len(s)
  BY <1>1
<1>4. PICK n \in Nat : n = Len(t)
  BY <1>2
<1>5. PICK u : u = s \o t
  OBVIOUS
<1>6. /\ u \in Seq(S) /\ Len(u) = m + n
      /\ \A i \in 1..(m + n) : u[i] = IF i <= m THEN s[i] ELSE t[i - m]
  BY <1>3, <1>4, <1>5, ConcatProperties
<1>7. m + n \in 1..(m + n) /\ m + n # 0
  OBVIOUS
<1>8. u # <<>>
  BY <1>6, <1>7
<1>9. CASE t = <<>>
  <2>1. n = 0 /\ m + n = m /\ m + n <= m
    BY <1>4, <1>9
  <2> QED
    BY <1>3, <1>5, <1>6, <1>7, <1>8, <1>9, <2>1
<1>10. CASE t # <<>>
  <2>1. n # 0
    BY <1>4, <1>10, EmptySeq
  <2>2. ~(m + n <= m) /\ (m + n) - m = n
    BY <2>1
  <2> QED
    BY <1>4, <1>5, <1>6, <1>7, <1>8, <1>10, <2>2
<1> QED
  BY <1>9, <1>10

\* How a call goes on: its last step stays the last, and it ends with that one
\* or with an exception.
LEMMA WorkerProgress ==
  ASSUME WorkersInv, WorkerStep
  PROVE  /\ job' # <<>> => \/ job'[Len(job')] = job[Len(job)]
                           \/ self.ready /\ job'[Len(job')].do \in {"dispatch", "return"}
         /\ job' = <<>> => \/ fault' # "none"
                           \/ Head(job) = job[Len(job)]
         /\ IF Head(job).do = "built" THEN self'.ready
            ELSE Head(job).do # "closed" => self'.ready = self.ready
<1>0. /\ job # <<>> /\ Head(job) \in JobSteps
      /\ Tail(job) # <<>> => Tail(job)[Len(Tail(job))] = job[Len(job)]
      /\ Tail(job) = <<>> => Head(job) = job[Len(job)]
  <2>1. job # <<>>
    BY WorkerFrame
  <2>2. PICK s : s = job
    OBVIOUS
  <2>3. PICK t : t = Tail(s)
    OBVIOUS
  <2>4. /\ Head(s) = s[1] /\ Len(s) \in Nat /\ Len(t) = Len(s) - 1 /\ t \in Seq(JobSteps)
        /\ Head(s) \in JobSteps /\ t # <<>> => t[Len(t)] = s[Len(s)]
    BY <2>1, <2>2, <2>3, ChainParts DEF WorkersInv
  <2>5. t = <<>> => Len(t) = 0
    OBVIOUS
  <2>6. t = <<>> => Len(s) = 1
    BY <2>4, <2>5
  <2> QED
    BY <2>1, <2>2, <2>3, <2>4, <2>6
<1>1. IF Head(job).do = "built" THEN self'.ready
      ELSE Head(job).do # "closed" => self'.ready = self.ready
  <2>1. self \in Objects
    BY DEF WorkersInv, InvObject
  <2>2. CASE UNCHANGED self /\ Head(job).do \notin {"built", "closed"}
    BY <2>2
  <2>3. ASSUME CloseRt \/ KeepProgram \/ Compile \/ AllocBuffers \/ Construct \/ InitWorker \/ Borrow \/ GiveBack
        PROVE  self'.ready = self.ready /\ Head(job).do # "built"
    BY <2>1, <2>3 DEF CloseRt, KeepProgram, Compile, AllocBuffers, Construct, InitWorker, Borrow,
                      GiveBack, Next1, Objects
  <2>4. ASSUME Prepare PROVE self'.ready = self.ready /\ Head(job).do # "built"
    <3>1. PICK r, x : r = [self EXCEPT !.rt = {x}] /\ (self' = [r EXCEPT !.backward = (Dir = "backward")] \/ self' = self)
      BY <2>1, <2>4 DEF Prepare, Objects
    <3>2. Head(job).do = "prepare"
      BY <2>4 DEF Prepare, Next1
    <3> QED
      BY <2>1, <3>1, <3>2 DEF Objects
  <2>5. ASSUME Built PROVE self'.ready /\ Head(job).do = "built"
    BY <2>1, <2>5 DEF Built, Next1, Objects
  <2>6. ASSUME SeekPlan \/ SearchStep \/ SearchFails \/ Unfold \/ Dispatch \/ PerCall
        PROVE  self'.ready = self.ready /\ Head(job).do # "built"
    BY <2>6 DEF SeekPlan, SearchStep, SearchFails, Unfold, Dispatch, PerCall, Next1, workerVars
  <2>7. ASSUME Closed PROVE Head(job).do = "closed"
    BY <2>7 DEF Closed, Next1
  <2> QED
    BY <2>3, <2>4, <2>5, <2>6, <2>7 DEF WorkerStep
<1>2. \/ job' = Tail(job)
      \/ job' = <<>> /\ fault' # "none"
      \/ job' = job
      \/ Unfold
      \/ PerCall /\ job' = <<Do1("return")>>
  BY DEF WorkerStep, CloseRt, SeekPlan, SearchStep, KeepProgram, SearchFails, Compile, AllocBuffers,
         Prepare, Construct, InitWorker, Built, Closed, Dispatch, Borrow, PerCall, GiveBack,
         Proceed, RaiseAs, DeviceFaults, workerVars
<1> DEFINE kept == /\ job' # <<>> => \/ job'[Len(job')] = job[Len(job)]
                                     \/ self.ready /\ job'[Len(job')].do \in {"dispatch", "return"}
                   /\ job' = <<>> => fault' # "none" \/ Head(job) = job[Len(job)]
<1>3. CASE job' = Tail(job)
  <2>1. kept
    BY <1>0, <1>3
  <2> QED
    BY <1>1, <2>1
<1>4. CASE job' = <<>> /\ fault' # "none"
  <2>1. kept
    BY <1>4
  <2> QED
    BY <1>1, <2>1
<1>5. CASE job' = job
  <2>1. kept
    BY <1>0, <1>5
  <2> QED
    BY <1>1, <2>1
<1>6. CASE PerCall /\ job' = <<Do1("return")>>
  <2>1. Head(job).do = "percall"
    BY <1>6 DEF PerCall, Next1
  <2>2. self.ready
    BY <1>0, <2>1 DEF JobSteps, CallOnly
  <2>3. PICK n : n = Do1("return")
    OBVIOUS
  <2>4. n.do = "return"
    BY <2>3, DoIs
  <2>5. job' # <<>> /\ job'[Len(job')] = n
    BY <1>6, <2>3
  <2>6. kept
    BY <2>2, <2>4, <2>5
  <2> QED
    BY <1>1, <2>6
<1>7. CASE Unfold /\ job' # <<>>
  <2>1. /\ Head(job).do \in {"forward", "backward"}
        /\ ~(class = "PyPtoZeCo" /\ Head(job).do = "backward" /\ self.rt = {})
        /\ job' = Unfolded(Head(job).do) \o Tail(job)
    BY <1>7 DEF Unfold, Next1, RaiseAs
  <2>2. self.ready /\ Head(job).do \in DirsOf
    BY <1>0, <2>1 DEF JobSteps, CallOnly
  <2>3. self.lent = {}
    BY <1>0, <2>1, HeadFacts
  <2>4. PICK op \in DirsOf : op = Head(job).do
    BY <2>2
  <2>5. PICK s : /\ s = Unfolded(op) /\ Chained(s) /\ s # <<>> /\ Finds(s[1])
                 /\ s[Len(s)].do \in {"dispatch", "return"}
    BY <2>1, <2>2, <2>3, <2>4, UnfoldedIs
  <2>6. PICK t : t = Tail(job)
    OBVIOUS
  <2>7. s \in Seq(JobSteps) /\ t \in Seq(JobSteps)
    BY <1>0, <2>5, <2>6, ChainTail DEF Chained, WorkersInv
  <2>8. PICK u : u = s \o t
    OBVIOUS
  <2>9. u[Len(u)] = IF t = <<>> THEN s[Len(s)] ELSE t[Len(t)]
    BY <2>5, <2>7, <2>8, LastOf
  <2>10. job' = u
    BY <2>1, <2>4, <2>5, <2>6, <2>8
  <2>11. t # <<>> => t[Len(t)] = job[Len(job)]
    BY <1>0, <2>6
  <2>12. kept
    BY <1>7, <2>2, <2>5, <2>9, <2>10, <2>11
  <2> QED
    BY <1>1, <2>12
<1>8. CASE Unfold /\ job' = <<>>
  <2>1. CASE fault' # "none"
    BY <1>4, <1>8, <2>1
  <2>2. CASE fault' = "none"
    <3>1. /\ Head(job).do \in {"forward", "backward"}
          /\ ~(class = "PyPtoZeCo" /\ Head(job).do = "backward" /\ self.rt = {})
          /\ job' = Unfolded(Head(job).do) \o Tail(job)
      BY <1>8, <2>2 DEF Unfold, Next1, RaiseAs
    <3>2. self.ready /\ Head(job).do \in DirsOf
      BY <1>0, <3>1 DEF JobSteps, CallOnly
    <3>3. self.lent = {}
      BY <1>0, <3>1, HeadFacts
    <3>4. PICK s : s = Unfolded(Head(job).do) /\ Chained(s) /\ s # <<>>
      BY <3>1, <3>2, <3>3, UnfoldedIs
    <3>5. s \in Seq(JobSteps) /\ Tail(job) \in Seq(JobSteps)
      BY <1>0, <3>4, ChainTail DEF Chained, WorkersInv
    <3>6. s \o Tail(job) # <<>>
      BY <3>4, <3>5, LastOf
    <3> QED
      BY <1>8, <3>1, <3>4, <3>6
  <2> QED
    BY <2>1, <2>2
<1> QED
  BY <1>2, <1>3, <1>4, <1>5, <1>6, <1>7, <1>8

LEMMA SameRows ==
  ASSUME UNCHANGED program
  PROVE  Rows' = Rows
BY DEF Rows, GlaRows, AllscanRows, AllscanBackwardRows, Block, Row

LEMMA SameRow ==
  ASSUME UNCHANGED <<program, row>>
  PROVE  Rows' = Rows /\ This' = This /\ (OnSimpler' <=> OnSimpler)
<1>1. Rows' = Rows
  BY SameRows
<1> QED
  BY <1>1 DEF This, OnSimpler

\* Only gla/bench.py has rows on the per-kernel workers.
LEMMA ThisRow ==
  ASSUME program \in Programs, row \in DOMAIN Rows
  PROVE  /\ This \in RowSet /\ This.config \in Configs
         /\ This.impl \in Classes \cup {"SimplerZeCo"}
         /\ OnSimpler => program = "gla"
         /\ program \in {"gla", "allscan", "allscan_backward"}
<1>1. This \in RowSet
  BY RowsAre DEF This
<1> QED
  BY <1>1 DEF RowSet, OnSimpler

LEMMA SimplerClientKeeps ==
  ASSUME SweepInv, SimplerClient
  PROVE  SweepInv'
<1>1. program = "simpler_client" /\ Next /\ UNCHANGED sweepVars /\ Quiet1
  BY DEF SimplerClient
<1>2. /\ UNCHANGED <<program, row, phase, made, suspect, wedged, leaked>>
      /\ UNCHANGED <<class, self, live, job, fault>>
  BY <1>1 DEF Quiet1, workerVars, sweepVars
<1>3. ZeCoInv'
  <2>1. ASSUME NEW op \in UNION Sessions, NEW H \in HeadCounts, Call(op, H) PROVE ZeCoInv'
    <3>1. op \in Ops
      BY <2>1 DEF SweepInv, ZeCoInv, InvScript, Call
    <3> QED
      BY <2>1, <3>1, CallKeeps DEF SweepInv
  <2> QED
    BY <1>1, <2>1, BuildKeeps, CloseKeeps, SimplerKeeps DEF Next, SimplerStep, SweepInv
<1>4. WorkersInv'
  BY <1>2, QuietWorkers DEF SweepInv
<1>5. Rows' = Rows /\ This' = This /\ (OnSimpler' <=> OnSimpler)
  BY <1>2, SameRow
<1>6. phase = "client"
  BY <1>1 DEF SweepInv, InvPhase
<1>7. InvTurns' /\ InvPhase'
  BY <1>1, <1>2, <1>5, <1>6 DEF SweepInv, InvTurns, InvPhase, SimplerRow
<1>8. InvCalls' /\ InvClosing' /\ InvSuspects'
  BY <1>1, <1>2, <1>6 DEF InvCalls, InvClosing, InvSuspects
<1> QED
  BY <1>3, <1>4, <1>7, <1>8 DEF SweepInv

\* A client of the prepared workers calls what it built, in any order.
LEMMA PyptoClientKeeps ==
  ASSUME SweepInv, PyptoClient
  PROVE  SweepInv'
<1>1. program = "pypto_client" /\ UNCHANGED sweepVars /\ Quiet2
  BY DEF PyptoClient
<1>2. UNCHANGED <<program, row, phase, made, suspect, wedged, leaked>>
  BY <1>1 DEF sweepVars
<1>3. ZeCoInv' /\ UNCHANGED built
  BY <1>1, QuietZeCo DEF Quiet2, SweepInv
<1>4. phase = "client" /\ class = "PyPtoZeCo"
  BY <1>1 DEF SweepInv, InvPhase
<1>5. WorkersInv' /\ UNCHANGED class
  <2>1. CASE WorkerStep
    BY <2>1, WorkerStepKeeps, WorkerFrame DEF SweepInv
  <2>2. ASSUME NEW c \in Configs, StartBuild(c) PROVE WorkersInv' /\ UNCHANGED class
    <3>1. WorkersInv'
      BY <2>2, StartBuildKeeps DEF SweepInv
    <3> QED
      BY <2>2, <3>1 DEF StartBuild
  <2>3. ASSUME NEW op \in ClientOps \cup {"train", "close"}, self.ready, StartCall(op)
        PROVE  WorkersInv' /\ UNCHANGED class
    <3>1. "forward" \in DirsOf /\ "backward" \in DirsOf
      BY <1>4 DEF DirsOf
    <3>2. op \in ForwardOps \/ op \in BackwardOps \/ op \in {"train", "close"}
      BY DEF ClientOps, ForwardOps, BackwardOps
    <3>3. WorkersInv'
      BY <1>4, <2>3, <3>1, <3>2, StartCallKeeps DEF SweepInv
    <3> QED
      BY <2>3, <3>3 DEF StartCall
  <2> QED
    BY <2>1, <2>2, <2>3 DEF PyptoClient
<1>6. Rows' = Rows /\ This' = This /\ (OnSimpler' <=> OnSimpler)
  BY <1>2, SameRow
<1>7. InvTurns'
  BY <1>1, <1>2, <1>3, <1>4 DEF SweepInv, InvTurns, SimplerRow
<1>8. InvPhase'
  BY <1>2, <1>4, <1>5, <1>6 DEF SweepInv, InvPhase
<1>9. InvCalls' /\ InvClosing' /\ InvSuspects'
  BY <1>1, <1>2, <1>4 DEF InvCalls, InvClosing, InvSuspects
<1> QED
  BY <1>3, <1>5, <1>7, <1>8, <1>9 DEF SweepInv

\* A step of the per-kernel workers is one of a row of theirs.
LEMMA SimplerBackendKeeps ==
  ASSUME SweepInv, phase \in {"calls", "closing"}, SimplerStep, Quiet1, UNCHANGED sweepVars
  PROVE  SweepInv'
<1>1. /\ UNCHANGED <<program, row, phase, made, suspect, wedged, leaked>>
      /\ UNCHANGED <<class, self, live, job, fault>>
  BY DEF Quiet1, workerVars, sweepVars
<1>2. ZeCoInv' /\ UNCHANGED built /\ (raised => raised')
  BY SimplerKeeps DEF SweepInv
<1>3. WorkersInv'
  BY <1>1, QuietWorkers DEF SweepInv
<1>4. Rows' = Rows /\ This' = This /\ (OnSimpler' <=> OnSimpler)
  BY <1>1, SameRow
<1>5. InvTurns' /\ InvPhase'
  BY <1>1, <1>2, <1>4 DEF SweepInv, InvTurns, InvPhase, SimplerRow
<1>6. InvCalls' /\ InvClosing'
  BY <1>1, <1>4 DEF SweepInv, InvCalls, InvClosing, CallSteps
<1>7. InvSuspects'
  BY <1>1, <1>4 DEF SweepInv, InvSuspects, Used
<1> QED
  BY <1>2, <1>3, <1>5, <1>6, <1>7 DEF SweepInv

\* close() from its two steps on.
LEMMA ClosingGoesOn ==
  ASSUME WorkersInv, WorkerStep,
         job = CallSteps("close") \/ (job = <<Do1("closed")>> /\ live = {})
  PROVE  \/ job' = <<Do1("closed")>> /\ live' = {}
         \/ job' = <<>> /\ (fault' = "none" => live' = {})
<1>1. CASE job = CallSteps("close")
  <2>1. PICK a : a = Do1("close")
    OBVIOUS
  <2>2. a.do = "close" /\ job = <<a, Do1("closed")>>
    BY <1>1, <2>1, DoIs DEF CallSteps
  <2>3. Head(job) = a /\ Tail(job) = <<Do1("closed")>>
    BY <2>2
  <2>4. CloseRt
    BY <2>2, <2>3 DEF WorkerStep, CloseRt, SeekPlan, SearchStep, KeepProgram, SearchFails, Compile,
         AllocBuffers, Prepare, Construct, InitWorker, Built, Closed, Unfold, Dispatch, Borrow,
         PerCall, GiveBack, Next1
  <2>5. \/ job' = Tail(job) /\ self.rt = {} /\ live' = live
        \/ job' = Tail(job) /\ live' = live \ self.rt
        \/ job' = <<>> /\ fault' = "other"
    BY <2>4 DEF CloseRt, Proceed, RaiseAs
  <2>6. live \subseteq self.rt
    BY <2>2, <2>3 DEF WorkersInv, InvLive, Reachable, Next1
  <2> QED
    BY <2>3, <2>5, <2>6
<1>2. CASE job = <<Do1("closed")>> /\ live = {}
  <2>1. PICK a : a = Do1("closed")
    OBVIOUS
  <2>2. a.do = "closed" /\ Head(job) = a
    BY <1>2, <2>1, DoIs
  <2>3. Closed
    BY <2>2 DEF WorkerStep, CloseRt, SeekPlan, SearchStep, KeepProgram, SearchFails, Compile,
         AllocBuffers, Prepare, Construct, InitWorker, Built, Closed, Unfold, Dispatch, Borrow,
         PerCall, GiveBack, Next1
  <2>4. job' = Tail(job) /\ live' = live
    BY <2>3 DEF Closed, Proceed
  <2>5. Tail(job) = <<>>
    BY <1>2
  <2> QED
    BY <1>2, <2>4, <2>5
<1> QED
  BY <1>1, <1>2

\* A step of the prepared workers is not one of a row of the others.
LEMMA WorkerBackendKeeps ==
  ASSUME SweepInv, phase \in {"calls", "closing"}, WorkerStep, Quiet2, UNCHANGED sweepVars
  PROVE  SweepInv'
<1>1. UNCHANGED <<program, row, phase, made, suspect, wedged, leaked>>
  BY DEF sweepVars
<1>2. ZeCoInv' /\ UNCHANGED built
  BY QuietZeCo DEF SweepInv, Quiet2
<1>3. WorkersInv' /\ job # <<>> /\ UNCHANGED class
  BY WorkerStepKeeps, WorkerFrame DEF SweepInv
<1>4. Rows' = Rows /\ This' = This /\ (OnSimpler' <=> OnSimpler)
  BY <1>1, SameRow
<1>5. program \notin {"simpler_client", "pypto_client"} /\ ~OnSimpler /\ made # 0 /\ made \in Nat
  BY <1>3 DEF SweepInv, InvTurns, InvPhase, SimplerRow
<1>6. ~built
  BY <1>5 DEF SweepInv, InvTurns, SimplerRow
<1>7. InvTurns'
  BY <1>1, <1>2, <1>4, <1>5, <1>6 DEF InvTurns, SimplerRow
<1>8. InvPhase'
  BY <1>1, <1>3, <1>4, <1>5 DEF SweepInv, InvPhase
<1>9. InvCalls'
  <2>1. SUFFICES ASSUME phase = "calls"
                 PROVE  /\ job' # <<>> => job'[Len(job')].do # "closed"
                        /\ \/ self'.ready
                           \/ job' = <<>> /\ fault' # "none"
                           \/ job' # <<>> /\ job'[Len(job')].do = "built"
    BY <1>1 DEF InvCalls
  <2>2. /\ job[Len(job)].do # "closed"
        /\ self.ready \/ job[Len(job)].do = "built"
    BY <1>3, <1>5, <2>1 DEF SweepInv, InvCalls
  <2>3. /\ job' # <<>> => \/ job'[Len(job')] = job[Len(job)]
                          \/ self.ready /\ job'[Len(job')].do \in {"dispatch", "return"}
        /\ job' = <<>> => \/ fault' # "none"
                          \/ Head(job) = job[Len(job)]
        /\ IF Head(job).do = "built" THEN self'.ready
           ELSE Head(job).do # "closed" => self'.ready = self.ready
    BY WorkerProgress DEF SweepInv
  <2>4. Head(job).do # "closed"
    <3>1. PICK s : s = job
      OBVIOUS
    <3>2. PICK t : t = Tail(s)
      OBVIOUS
    <3>3. /\ Head(s) = s[1] /\ Len(s) \in Nat /\ Len(t) = Len(s) - 1 /\ t \in Seq(JobSteps)
          /\ t # <<>> => Follows(Head(s), Head(t))
      BY <1>3, <3>1, <3>2, ChainParts DEF WorkersInv, SweepInv
    <3>4. t = <<>> => Len(t) = 0
      OBVIOUS
    <3>5. t = <<>> => Len(s) = 1
      BY <3>3, <3>4
    <3>6. t = <<>> => Head(s) = s[Len(s)]
      BY <3>3, <3>5
    <3> QED
      BY <2>2, <3>1, <3>3, <3>6 DEF Follows
  <2>5. CASE Head(job).do = "built"
    BY <2>2, <2>3, <2>5
  <2>6. CASE Head(job).do # "built"
    <3>1. self'.ready = self.ready
      BY <2>3, <2>4, <2>6
    <3> QED
      BY <2>2, <2>3, <2>6, <3>1
  <2> QED
    BY <2>5, <2>6
<1>10. InvClosing'
  <2>1. SUFFICES ASSUME phase = "closing"
                 PROVE  \/ job' = CallSteps("close")'
                        \/ job' = <<Do1("closed")>> /\ live' = {}
                        \/ job' = <<>> /\ (fault' = "none" => live' = {})
    BY <1>1 DEF InvClosing
  <2>2. job = CallSteps("close") \/ (job = <<Do1("closed")>> /\ live = {})
    BY <1>3, <1>5, <2>1 DEF SweepInv, InvClosing
  <2> QED
    BY <2>2, ClosingGoesOn DEF SweepInv
<1>11. InvSuspects'
  BY <1>1, <1>4, <1>5 DEF SweepInv, InvSuspects, Used
<1> QED
  BY <1>2, <1>3, <1>7, <1>8, <1>9, <1>10, <1>11 DEF SweepInv

\* A row is started with nothing of another row up.
LEMMA NextRowKeeps ==
  ASSUME SweepInv, NextRow
  PROVE  SweepInv'
<1>1. /\ phase = "rows" /\ row <= Len(Rows) /\ UNCHANGED <<program, suspect, wedged, live, job, fault>>
      /\ IF phase' = "calls" /\ This.impl \in Classes /\ This.impl # class
         THEN class' = This.impl /\ self' = NewObject ELSE UNCHANGED <<class, self>>
      /\ Quiet2
  BY DEF NextRow
<1>2. \/ program = "gla" /\ row' = row + 1 /\ UNCHANGED <<phase, made, leaked>>
      \/ /\ phase' = "calls" /\ made' = 0 /\ UNCHANGED row
         /\ program = "gla" => suspect \cap Used(This) = {} /\ ~leaked'
  BY DEF NextRow, Skips
<1>3. /\ program \in Programs /\ made \in Nat /\ row \in 1..(Len(Rows) + 1)
      /\ program \notin {"simpler_client", "pypto_client"}
      /\ job = <<>> /\ (program = "gla" => live = {}) /\ (live = {} \/ This.impl = class)
      /\ ~built
  BY <1>1 DEF SweepInv, InvPhase, InvTurns, SimplerRow
<1>4. /\ Rows' = Rows /\ Len(Rows) \in Nat /\ DOMAIN Rows = 1..Len(Rows)
  BY <1>1, <1>3, SameRows, RowsAre
<1>5. row \in DOMAIN Rows
  BY <1>1, <1>3, <1>4
<1>6. /\ This.impl \in Classes \cup {"SimplerZeCo"}
      /\ OnSimpler => program = "gla"
  BY <1>3, <1>5, ThisRow
<1>7. ZeCoInv' /\ ~built'
  BY <1>1, <1>3, QuietZeCo DEF Quiet2, SweepInv
<1>8. CASE program = "gla" /\ row' = row + 1 /\ UNCHANGED <<phase, made, leaked>>
  <2>1. UNCHANGED <<class, self>>
    BY <1>1, <1>8
  <2>2. WorkersInv'
    BY <1>1, <2>1, QuietWorkers DEF SweepInv
  <2>3. InvTurns'
    BY <1>1, <1>3, <1>7, <1>8 DEF InvTurns, SimplerRow
  <2>4. row' \in 1..(Len(Rows) + 1)
    BY <1>4, <1>5, <1>8
  <2>5. InvPhase'
    BY <1>1, <1>3, <1>4, <1>8, <2>4 DEF InvPhase
  <2>6. InvCalls' /\ InvClosing' /\ InvSuspects'
    BY <1>1, <1>8 DEF SweepInv, InvCalls, InvClosing, InvSuspects
  <2> QED
    BY <1>7, <2>2, <2>3, <2>5, <2>6 DEF SweepInv
<1>9. CASE /\ phase' = "calls" /\ made' = 0 /\ UNCHANGED row
           /\ program = "gla" => suspect \cap Used(This) = {} /\ ~leaked'
  <2>1. This' = This /\ (OnSimpler' <=> OnSimpler)
    BY <1>1, <1>9, SameRow
  <2>2. WorkersInv' /\ (OnSimpler \/ class' = This.impl)
    <3>1. CASE This.impl \in Classes /\ This.impl # class
      <4>1. class' = This.impl /\ self' = NewObject /\ live' = {} /\ job' = <<>>
        BY <1>1, <1>3, <1>9, <3>1
      <4>2. /\ self' \in Objects /\ self'.rt = {} /\ self'.lent = {} /\ self'.bcompiled = {}
            /\ ~self'.ready
        BY <4>1 DEF NewObject, Objects
      <4> QED
        BY <3>1, <4>1, <4>2 DEF WorkersInv, InvObject, Chained, InvLive, Reachable, InvReady, InvHead
    <3>2. CASE ~(This.impl \in Classes /\ This.impl # class)
      <4>1. UNCHANGED <<class, self>>
        BY <1>1, <3>2
      <4>2. WorkersInv'
        BY <1>1, <4>1, QuietWorkers DEF SweepInv
      <4> QED
        BY <1>5, <1>6, <3>2, <4>1, <4>2 DEF OnSimpler
    <3> QED
      BY <3>1, <3>2
  <2>3. InvTurns'
    BY <1>1, <1>3, <1>6, <1>7, <1>9, <2>1 DEF InvTurns, SimplerRow
  <2>4. InvPhase'
    BY <1>1, <1>3, <1>4, <1>5, <1>9, <2>1, <2>2 DEF InvPhase
  <2>5. InvCalls' /\ InvClosing'
    BY <1>9 DEF InvCalls, InvClosing
  <2>6. InvSuspects'
    BY <1>1, <1>3, <1>9, <2>1 DEF SweepInv, InvSuspects, Used
  <2> QED
    BY <1>7, <2>2, <2>3, <2>4, <2>5, <2>6 DEF SweepInv
<1> QED
  BY <1>2, <1>8, <1>9

LEMMA EndsKeeps ==
  ASSUME SweepInv, Ends
  PROVE  SweepInv'
<1>1. /\ phase = "rows" /\ row > Len(Rows) /\ phase' = "ended" /\ Quiet2
      /\ UNCHANGED <<program, row, made, suspect, wedged, leaked, class, self, live, job, fault>>
  BY DEF Ends, Quiet1, workerVars
<1>2. /\ program \in Programs /\ row \in 1..(Len(Rows) + 1) /\ ~built
      /\ live = {} \/ row \in DOMAIN Rows
      /\ program \notin {"simpler_client", "pypto_client"}
  BY <1>1 DEF SweepInv, InvPhase, InvTurns, SimplerRow
<1>3. Rows' = Rows /\ DOMAIN Rows = 1..Len(Rows) /\ Len(Rows) \in Nat
  BY <1>1, <1>2, SameRows, RowsAre
<1>4. live = {}
  BY <1>1, <1>2, <1>3
<1>5. ZeCoInv' /\ ~built'
  BY <1>1, <1>2, QuietZeCo DEF Quiet2, SweepInv
<1>6. WorkersInv'
  BY <1>1, QuietWorkers DEF SweepInv
<1>7. InvTurns' /\ InvPhase'
  BY <1>1, <1>2, <1>3, <1>4, <1>5 DEF SweepInv, InvTurns, InvPhase, SimplerRow
<1>8. InvCalls' /\ InvClosing' /\ InvSuspects'
  BY <1>1 DEF SweepInv, InvCalls, InvClosing, InvSuspects
<1> QED
  BY <1>5, <1>6, <1>7, <1>8 DEF SweepInv

\* A call of a row on the per-kernel workers, after which the backend is built.
LEMMA SimplerCallKeeps ==
  ASSUME SweepInv, NEW op, phase = "calls", OnSimpler,
         made' = made + 1, UNCHANGED <<program, row, phase, suspect, wedged, leaked>>,
         IF op = "build" THEN Build ELSE \E H \in HeadCounts : H = 1 /\ Call(op, H), Quiet1
  PROVE  SweepInv'
<1>1. UNCHANGED <<class, self, live, job, fault>>
  BY DEF Quiet1, workerVars
<1>2. ZeCoInv'
  <2>1. CASE op = "build"
    BY <2>1, BuildKeeps DEF SweepInv
  <2>2. ASSUME NEW H \in HeadCounts, Call(op, H) PROVE ZeCoInv'
    <3>1. op \in Ops
      BY <2>2 DEF SweepInv, ZeCoInv, InvScript, Call
    <3> QED
      BY <2>2, <3>1, CallKeeps DEF SweepInv
  <2> QED
    BY <2>1, <2>2
<1>3. WorkersInv'
  BY <1>1, QuietWorkers DEF SweepInv
<1>4. Rows' = Rows /\ This' = This /\ (OnSimpler' <=> OnSimpler)
  BY SameRow
<1>5. made \in Nat /\ made' \in Nat /\ made' > 0 /\ made' # 0
  BY DEF SweepInv, InvPhase
<1>6. InvTurns' /\ InvPhase'
  BY <1>1, <1>4, <1>5 DEF SweepInv, InvTurns, InvPhase, SimplerRow
<1>7. InvCalls' /\ InvClosing'
  BY <1>4 DEF InvCalls, InvClosing
<1>8. InvSuspects'
  BY <1>4, <1>5 DEF SweepInv, InvSuspects, Used
<1> QED
  BY <1>2, <1>3, <1>6, <1>7, <1>8 DEF SweepInv

\* A call of a row on prepared workers.
LEMMA WorkerCallKeeps ==
  ASSUME SweepInv, NEW op, phase = "calls", ~OnSimpler,
         made' = made + 1, UNCHANGED <<program, row, phase, suspect, wedged, leaked>>,
         IF op = "build" THEN StartBuild(This.config) ELSE StartCall(op), Quiet2,
         op # "build" => made > 0 /\ fault = "none",
         op # "build" => op \in IF Forwards(This) THEN {"forward", "measure"}
                                ELSE {"backward", "measure_backward"}
  PROVE  SweepInv'
<1>1. ZeCoInv' /\ UNCHANGED built
  BY QuietZeCo DEF Quiet2, SweepInv
<1>2. Rows' = Rows /\ This' = This /\ (OnSimpler' <=> OnSimpler)
  BY SameRow
<1>3. made \in Nat /\ made' \in Nat /\ made' > 0 /\ made' # 0
  BY DEF SweepInv, InvPhase
<1>4. program \in Programs /\ row \in DOMAIN Rows /\ class = This.impl
  BY DEF SweepInv, InvPhase
<1>5. This \in RowSet /\ This.config \in Configs
      /\ program \in {"gla", "allscan", "allscan_backward"}
  BY <1>4, ThisRow
<1>6. ~built
  BY <1>5 DEF SweepInv, InvTurns, SimplerRow
<1>7. /\ UNCHANGED <<class, live>>
      /\ WorkersInv'
      /\ job' # <<>> => job'[Len(job')].do # "closed"
      /\ self'.ready \/ (job' # <<>> /\ job'[Len(job')].do = "built")
  <2>1. CASE op = "build"
    <3>1. StartBuild(This.config)
      BY <2>1
    <3>2. WorkersInv' /\ job' # <<>> /\ job'[Len(job')].do = "built"
      BY <1>5, <3>1, StartBuildKeeps DEF SweepInv
    <3>3. UNCHANGED <<class, live>>
      BY <3>1 DEF StartBuild
    <3> QED
      BY <3>2, <3>3
  <2>2. CASE op # "build"
    <3>1. StartCall(op) /\ made > 0 /\ fault = "none"
      BY <2>2
    <3>2. job = <<>> /\ UNCHANGED <<class, self, live>>
      BY <3>1 DEF StartCall, Waiting
    <3>3. self.ready
      BY <3>1, <3>2 DEF SweepInv, InvCalls
    <3>4. \/ op \in ForwardOps /\ "forward" \in DirsOf
          \/ op \in BackwardOps /\ "backward" \in DirsOf
      <4>1. CASE Forwards(This)
        <5>1. op \in ForwardOps
          BY <2>2, <4>1 DEF ForwardOps
        <5>2. "forward" \in DirsOf
          BY <1>4, <1>5, <4>1 DEF DirsOf, RowSet, Forwards
        <5> QED
          BY <5>1, <5>2
      <4>2. CASE ~Forwards(This)
        <5>1. op \in BackwardOps
          BY <2>2, <4>2 DEF BackwardOps
        <5>2. class # "PyPtoAllscan"
          BY <1>4, <1>5, <4>2 DEF RowSet, Forwards
        <5>3. "backward" \in DirsOf
          BY <5>2 DEF DirsOf
        <5> QED
          BY <5>1, <5>3
      <4> QED
        BY <4>1, <4>2
    <3>5. op # "close"
      BY <3>4 DEF ForwardOps, BackwardOps
    <3>6. WorkersInv' /\ (job' # <<>> /\ op # "close" => job'[Len(job')].do # "closed")
      BY <3>1, <3>3, <3>4, StartCallKeeps DEF SweepInv
    <3> QED
      BY <3>2, <3>3, <3>5, <3>6
  <2> QED
    BY <2>1, <2>2
<1>8. InvTurns'
  BY <1>1, <1>2, <1>5, <1>6 DEF InvTurns, SimplerRow
<1>9. InvPhase'
  BY <1>2, <1>3, <1>7 DEF SweepInv, InvPhase
<1>10. InvCalls' /\ InvClosing'
  BY <1>2, <1>7 DEF InvCalls, InvClosing
<1>11. InvSuspects'
  BY <1>2, <1>3 DEF SweepInv, InvSuspects, Used
<1> QED
  BY <1>1, <1>7, <1>8, <1>9, <1>10, <1>11 DEF SweepInv

LEMMA BenchCallKeeps ==
  ASSUME SweepInv, BenchCall
  PROVE  SweepInv'
<1>1. PICK op : op = RowCalls(This)[made + 1]
  OBVIOUS
<1>2. /\ phase = "calls" /\ CallOver /\ made < Len(RowCalls(This)) /\ (made > 0 => ~CallFailed)
      /\ made' = made + 1 /\ UNCHANGED <<program, row, phase, suspect, wedged, leaked>>
      /\ IF OnSimpler
         THEN (IF op = "build" THEN Build ELSE \E H \in HeadCounts : H = 1 /\ Call(op, H)) /\ Quiet1
         ELSE (IF op = "build" THEN StartBuild(This.config) ELSE StartCall(op)) /\ Quiet2
  BY <1>1 DEF BenchCall
<1>3. CASE OnSimpler
  BY <1>2, <1>3, SimplerCallKeeps
<1>4. CASE ~OnSimpler
  <2>1. made \in Nat /\ program \in Programs /\ row \in DOMAIN Rows
    BY <1>2 DEF SweepInv, InvPhase
  <2>2. This \in RowSet
    BY <2>1, ThisRow
  <2>3. PICK s : /\ s = RowCalls(This) /\ Len(s) \in Nat \ {0} /\ s[1] = "build"
                 /\ \A i \in 1..Len(s) : i # 1 =>
                      s[i] \in IF Forwards(This) THEN {"forward", "measure"}
                               ELSE {"backward", "measure_backward"}
    BY <2>2, RowCallsAre
  <2>4. op = s[made + 1] /\ made < Len(s)
    BY <1>1, <1>2, <2>3
  <2>5. made + 1 \in 1..Len(s)
    BY <2>1, <2>3, <2>4
  <2>6. op # "build" => made + 1 # 1 /\ made > 0
    BY <2>1, <2>3, <2>4
  <2>7. op # "build" => op \in IF Forwards(This) THEN {"forward", "measure"}
                               ELSE {"backward", "measure_backward"}
    BY <2>3, <2>4, <2>5, <2>6
  <2>8. op # "build" => made > 0 /\ fault = "none"
    BY <1>2, <1>4, <2>6 DEF CallFailed
  <2> QED
    BY <1>2, <1>4, <2>7, <2>8, WorkerCallKeeps
<1> QED
  BY <1>3, <1>4

\* Where a sweep goes after a row, and what it leaves up there.
LEMMA AfterRowKeeps ==
  ASSUME SweepInv, phase = "calls", CallOver, AfterRow, made' = 0, UNCHANGED program, Quiet1, Quiet2,
         program = "gla" => wedged' \subseteq suspect'
  PROVE  SweepInv'
<1>1. UNCHANGED <<class, self, live, job, fault>>
  BY DEF Quiet1, workerVars
<1>2. ZeCoInv' /\ UNCHANGED built
  BY QuietZeCo DEF Quiet2, SweepInv
<1>3. WorkersInv'
  BY <1>1, QuietWorkers DEF SweepInv
<1>4. /\ program \in Programs /\ row \in DOMAIN Rows /\ (OnSimpler \/ This.impl = class)
      /\ program \notin {"simpler_client", "pypto_client"}
  BY DEF SweepInv, InvPhase
<1>5. job = <<>>
  BY DEF SweepInv, InvTurns, SimplerRow, CallOver, Waiting
<1>6. /\ Rows' = Rows /\ Len(Rows) \in Nat /\ DOMAIN Rows = 1..Len(Rows)
  BY <1>4, SameRows, RowsAre
<1>7. OnSimpler => program = "gla"
  BY <1>4, ThisRow
<1>8. CASE phase' = "closing" /\ UNCHANGED row
  <2>1. This' = This /\ (OnSimpler' <=> OnSimpler)
    BY <1>8, SameRow
  <2>2. InvTurns' /\ InvPhase'
    BY <1>1, <1>2, <1>4, <1>5, <1>6, <1>8, <2>1 DEF SweepInv, InvTurns, InvPhase, SimplerRow
  <2>3. InvCalls' /\ InvClosing' /\ InvSuspects'
    BY <1>8 DEF SweepInv, InvCalls, InvClosing, InvSuspects
  <2> QED
    BY <1>2, <1>3, <2>2, <2>3 DEF SweepInv
<1>9. CASE /\ phase' = "rows" /\ row' = row + 1
           /\ program # "gla" /\ row # Len(Rows) /\ Rows[row + 1].impl = This.impl
  <2>1. ~OnSimpler /\ ~built
    BY <1>4, <1>7, <1>9 DEF SweepInv, InvTurns, SimplerRow
  <2>2. row' \in DOMAIN Rows' /\ row' \in 1..(Len(Rows) + 1)
    BY <1>4, <1>6, <1>9
  <2>3. This'.impl = class'
    BY <1>1, <1>4, <1>6, <1>9, <2>1 DEF This
  <2>4. InvTurns'
    BY <1>1, <1>2, <1>4, <1>5, <1>9, <2>1, <2>2, <2>3 DEF InvTurns, SimplerRow
  <2>5. InvPhase'
    BY <1>4, <1>6, <1>9, <2>2 DEF InvPhase
  <2>6. InvCalls' /\ InvClosing' /\ InvSuspects'
    BY <1>9 DEF SweepInv, InvCalls, InvClosing, InvSuspects
  <2> QED
    BY <1>2, <1>3, <2>4, <2>5, <2>6 DEF SweepInv
<1> QED
  BY <1>8, <1>9 DEF AfterRow

LEMMA RowDoneKeeps ==
  ASSUME SweepInv, RowDone
  PROVE  SweepInv'
<1>1. /\ phase = "calls" /\ CallOver /\ AfterRow /\ made' = 0 /\ Quiet1 /\ Quiet2
      /\ UNCHANGED <<program, suspect, wedged>>
  BY DEF RowDone
<1>2. program = "gla" => wedged' \subseteq suspect'
  BY <1>1 DEF SweepInv, InvSuspects
<1> QED
  BY <1>1, <1>2, AfterRowKeeps

\* gla/bench.py marks every device a drain timeout may have wedged.
LEMMA RowFailsKeeps ==
  ASSUME SweepInv, RowFails
  PROVE  SweepInv'
<1>1. /\ phase = "calls" /\ CallOver /\ AfterRow /\ made' = 0 /\ Quiet1 /\ Quiet2
      /\ UNCHANGED program
  BY DEF RowFails
<1>2. PICK k \in Failures :
        /\ suspect' = IF program = "gla" /\ k = "drain" THEN suspect \cup Used(This) ELSE suspect
        /\ IF k = "drain"
           THEN \E hit \in SUBSET Used(This) : hit # {} /\ wedged' = wedged \cup hit
           ELSE UNCHANGED wedged
  BY DEF RowFails
<1>3. program = "gla" => wedged' \subseteq suspect'
  BY <1>2 DEF SweepInv, InvSuspects
<1> QED
  BY <1>1, <1>3, AfterRowKeeps

LEMMA StartCloseKeeps ==
  ASSUME SweepInv, StartClose
  PROVE  SweepInv'
<1>1. /\ phase = "closing" /\ made = 0 /\ made' = 1
      /\ UNCHANGED <<program, row, phase, suspect, wedged, leaked>>
      /\ IF OnSimpler THEN Close /\ Quiet1
         ELSE StartCall("close") /\ Quiet2
  BY DEF StartClose
<1>2. /\ program \in Programs /\ row \in DOMAIN Rows /\ program \notin {"simpler_client", "pypto_client"}
  BY <1>1 DEF SweepInv, InvPhase
<1>3. Rows' = Rows /\ This' = This /\ (OnSimpler' <=> OnSimpler)
  BY <1>1, SameRow
<1>4. /\ ZeCoInv' /\ WorkersInv' /\ UNCHANGED <<class, live>>
      /\ IF OnSimpler THEN job' = job /\ (built' => raised')
         ELSE job' = CallSteps("close") /\ ~built'
  <2>1. CASE OnSimpler
    <3>1. UNCHANGED <<class, self, live, job>>
      BY <1>1, <2>1 DEF Quiet1, workerVars
    <3>2. ZeCoInv' /\ (built' => raised')
      BY <1>1, <2>1, CloseKeeps DEF SweepInv
    <3> QED
      BY <2>1, <3>1, <3>2, QuietWorkers DEF SweepInv
  <2>2. CASE ~OnSimpler
    <3>1. StartCall("close") /\ Quiet2
      BY <1>1, <2>2
    <3>2. ~built
      BY <1>2, <2>2 DEF SweepInv, InvTurns, SimplerRow
    <3>3. ZeCoInv' /\ ~built'
      BY <3>1, <3>2, QuietZeCo DEF Quiet2, SweepInv
    <3>4. WorkersInv'
      BY <3>1, StartCallKeeps DEF SweepInv
    <3>5. UNCHANGED <<class, live>> /\ job' = CallSteps("close")
      BY <3>1 DEF StartCall
    <3> QED
      BY <2>2, <3>3, <3>4, <3>5
  <2> QED
    BY <2>1, <2>2
<1>5. InvTurns'
  BY <1>1, <1>2, <1>3, <1>4 DEF SweepInv, InvTurns, SimplerRow
<1>6. InvPhase'
  BY <1>1, <1>3, <1>4 DEF SweepInv, InvPhase
<1>7. InvCalls' /\ InvSuspects'
  BY <1>1 DEF SweepInv, InvCalls, InvSuspects
<1>8. InvClosing'
  <2>1. CallSteps("close")' = CallSteps("close")
    BY DEF CallSteps
  <2> QED
    BY <1>3, <1>4, <2>1 DEF InvClosing
<1> QED
  BY <1>4, <1>5, <1>6, <1>7, <1>8 DEF SweepInv

\* The object is closed before the next row: nothing of it is left.
LEMMA EndCloseKeeps ==
  ASSUME SweepInv, EndClose
  PROVE  SweepInv'
<1>1. /\ phase = "closing" /\ made = 1 /\ CallOver /\ made' = 0 /\ Quiet1 /\ Quiet2
      /\ UNCHANGED <<program, suspect, wedged>>
      /\ IF CallFailed THEN phase' = "aborted" /\ UNCHANGED row
         ELSE phase' = "rows" /\ row' = row + 1
  BY DEF EndClose
<1>2. UNCHANGED <<class, self, live, job, fault>>
  BY <1>1 DEF Quiet1, workerVars
<1>3. /\ program \in Programs /\ row \in DOMAIN Rows
      /\ program \notin {"simpler_client", "pypto_client"}
  BY <1>1 DEF SweepInv, InvPhase
<1>4. Rows' = Rows /\ Len(Rows) \in Nat /\ DOMAIN Rows = 1..Len(Rows)
  BY <1>1, <1>3, SameRows, RowsAre
<1>5. (built => OnSimpler /\ raised) /\ job = <<>>
  BY <1>1, <1>3 DEF SweepInv, InvTurns, SimplerRow, CallOver, Waiting
<1>6. OnSimpler \/ fault = "none" => live = {}
  <2>1. CASE OnSimpler
    BY <1>1, <2>1 DEF SweepInv, InvTurns, SimplerRow
  <2>2. CASE ~OnSimpler /\ fault = "none"
    <3>1. CallSteps("close") # <<>>
      BY DEF CallSteps
    <3>2. <<Do1("closed")>> # <<>>
      OBVIOUS
    <3> QED
      BY <1>1, <1>5, <2>2, <3>1, <3>2 DEF SweepInv, InvClosing
  <2> QED
    BY <2>1, <2>2
<1>7. ZeCoInv' /\ UNCHANGED <<built, raised>>
  BY <1>1, QuietZeCo DEF Quiet2, SweepInv
<1>8. WorkersInv'
  BY <1>2, QuietWorkers DEF SweepInv
<1>9. row' \in 1..(Len(Rows) + 1)
  BY <1>1, <1>3, <1>4
<1>10. InvTurns'
  <2>1. CASE CallFailed /\ phase' = "aborted" /\ UNCHANGED row
    <3>1. OnSimpler' <=> OnSimpler
      BY <1>1, <2>1, SameRow
    <3> QED
      BY <1>1, <1>2, <1>3, <1>5, <1>6, <1>7, <2>1, <3>1 DEF InvTurns, SimplerRow
  <2>2. CASE ~CallFailed /\ phase' = "rows" /\ row' = row + 1
    <3>1. live = {} /\ ~built'
      BY <1>5, <1>6, <1>7, <2>2 DEF CallFailed
    <3> QED
      BY <1>1, <1>2, <1>3, <1>5, <2>2, <3>1 DEF InvTurns, SimplerRow
  <2> QED
    BY <1>1, <2>1, <2>2
<1>11. InvPhase'
  BY <1>1, <1>2, <1>3, <1>4, <1>9 DEF InvPhase
<1>12. InvCalls' /\ InvClosing' /\ InvSuspects'
  BY <1>1 DEF SweepInv, InvCalls, InvClosing, InvSuspects
<1> QED
  BY <1>7, <1>8, <1>10, <1>11, <1>12 DEF SweepInv

LEMMA QuietSweep ==
  ASSUME SweepInv, UNCHANGED allVars
  PROVE  SweepInv'
<1>1. /\ UNCHANGED <<program, row, phase, made, suspect, wedged, leaked>>
      /\ UNCHANGED <<class, self, live, job, fault>>
      /\ UNCHANGED simplerVars
  BY DEF allVars, sweepVars, workerVars
<1>2. ZeCoInv' /\ UNCHANGED <<built, raised>>
  BY <1>1, QuietZeCo DEF SweepInv
<1>3. WorkersInv'
  BY <1>1, QuietWorkers DEF SweepInv
<1>4. Rows' = Rows /\ This' = This /\ (OnSimpler' <=> OnSimpler)
  BY <1>1, SameRow
<1>5. InvTurns' /\ InvPhase'
  BY <1>1, <1>2, <1>4 DEF SweepInv, InvTurns, InvPhase, SimplerRow
<1>6. InvCalls' /\ InvClosing'
  BY <1>1, <1>4 DEF SweepInv, InvCalls, InvClosing, CallSteps
<1>7. InvSuspects'
  BY <1>1, <1>4 DEF SweepInv, InvSuspects, Used
<1> QED
  BY <1>2, <1>3, <1>5, <1>6, <1>7 DEF SweepInv

LEMMA SweepStarts ==
  ASSUME SweepInit
  PROVE  SweepInv
<1>1. ZeCoInv /\ WorkersInv
  BY ZeCoInit, WorkersStart DEF SweepInit
<1>2. /\ ~built /\ live = {} /\ job = <<>> /\ program \in Programs /\ class = "PyPtoZeCo"
      /\ row = 1 /\ made = 0 /\ suspect = {} /\ wedged = {} /\ leaked = FALSE
      /\ phase = IF program \in {"simpler_client", "pypto_client"} THEN "client" ELSE "rows"
  BY DEF SweepInit, Init, WorkersInit
<1>3. row \in 1..(Len(Rows) + 1)
  BY <1>2, RowsAre
<1>4. InvTurns /\ InvPhase
  BY <1>2, <1>3 DEF InvTurns, InvPhase, SimplerRow
<1>5. InvCalls /\ InvClosing /\ InvSuspects
  BY <1>2 DEF InvCalls, InvClosing, InvSuspects
<1> QED
  BY <1>1, <1>4, <1>5 DEF SweepInv

LEMMA SweepStep ==
  ASSUME SweepInv, [SweepNext]_allVars
  PROVE  SweepInv'
<1>1. CASE Sweep
  BY <1>1, NextRowKeeps, EndsKeeps, BenchCallKeeps, RowDoneKeeps, RowFailsKeeps, StartCloseKeeps,
     EndCloseKeeps DEF Sweep
<1>2. CASE Backend
  BY <1>2, WorkerBackendKeeps, SimplerBackendKeeps DEF Backend
<1>3. CASE PyptoClient
  BY <1>3, PyptoClientKeeps
<1>4. CASE SimplerClient
  BY <1>4, SimplerClientKeeps
<1>5. CASE UNCHANGED allVars
  BY <1>5, QuietSweep
<1> QED
  BY <1>1, <1>2, <1>3, <1>4, <1>5 DEF SweepNext

\* The inductive invariant: what each backend may have up, whose turn it is, and
\* what the rest of the call in progress finds when its steps come.
THEOREM SweepInvariant == SweepSpec => []SweepInv
<1>1. SweepInit => SweepInv
  BY SweepStarts
<1>2. SweepInv /\ [SweepNext]_allVars => SweepInv'
  BY SweepStep
<1> QED
  BY <1>1, <1>2, PTL DEF SweepSpec

\* The RuntimeErrors and the assertion of SimplerZeCo that guard a pass on
\* unprepared runners are never reached, whatever is called and whatever raises.
THEOREM ChecksNeverFire == SweepSpec => []OwnChecksNeverFire
<1>1. SweepInv => OwnChecksNeverFire
  BY DEF SweepInv, ZeCoInv
<1> QED
  BY <1>1, SweepInvariant, PTL

\* Every dispatch on a prepared worker runs the program of the direction and
\* shape asked for, in processes forked after the buffers were made.
THEOREM EveryDispatchFits == SweepSpec => []DispatchFits
<1>1. SweepInv => DispatchFits
  <2> SUFFICES ASSUME SweepInv PROVE DispatchFits
    OBVIOUS
  <2>1. ASSUME Next1("dispatch")
        PROVE  \A w \in self.rt : /\ w.dir \in {Dir, "both"}
                                  /\ w.shape = self.shape /\ w.bufs = self.shape
    <3>1. job # <<>> /\ Head(job).do = "dispatch"
      BY <2>1 DEF Next1
    <3>2. Head(job) \in JobSteps /\ Finds(Head(job))
      BY <3>1, HeadFacts DEF SweepInv
    <3>3. \A w \in self.rt : w.dir \in {Head(job).dir, "both"}
      BY <3>1, <3>2 DEF Finds
    <3>4. self.ready
      BY <3>1, <3>2 DEF JobSteps, CallOnly
    <3>5. \A w \in self.rt : w.shape = self.shape /\ w.bufs = self.shape
      BY <3>4 DEF SweepInv, WorkersInv, InvReady, Fits
    <3> QED
      BY <3>3, <3>5 DEF Dir
  <2>2. ASSUME Next1("percall") PROVE \A w \in self.lent : w.shape = self.shape
    <3>1. job # <<>> /\ Head(job).do = "percall"
      BY <2>2 DEF Next1
    <3> QED
      BY <3>1, HeadFacts DEF SweepInv, Finds
  <2> QED
    BY <2>1, <2>2 DEF DispatchFits
<1> QED
  BY <1>1, SweepInvariant, PTL

\* A sweep that ended, and a SimplerZeCo that was closed, leave no chip process
\* behind; until then the object refers to every worker that is up.
THEOREM NothingIsLeft == SweepSpec => []NoWorkerLeft
<1>1. SweepInv => NoWorkerLeft
  <2> SUFFICES ASSUME SweepInv PROVE NoWorkerLeft
    OBVIOUS
  <2>1. Reachable
    BY DEF SweepInv, WorkersInv, InvLive
  <2>2. ~built => \A d \in Devices : Hosted(d) = {}
    BY NoneHosted DEF SweepInv
  <2>3. phase = "ended" => ~built /\ live = {}
    BY DEF SweepInv, InvTurns, InvPhase, SimplerRow
  <2> QED
    BY <2>1, <2>2, <2>3 DEF NoWorkerLeft
<1> QED
  BY <1>1, SweepInvariant, PTL

\* "A failed config can't poison the next one": gla/bench.py starts every row on
\* devices no drain timeout has wedged, with no worker and no rendezvous left.
THEOREM RowsStayIsolated == SweepSpec => []RowsAreIsolated
<1>1. SweepInv => RowsAreIsolated
  <2> SUFFICES ASSUME SweepInv, program = "gla", phase = "calls"
               PROVE  /\ Used(This) \cap wedged = {} /\ ~leaked
                      /\ made = 0 => live = {} /\ \A d \in Devices : Hosted(d) = {}
    BY DEF RowsAreIsolated
  <2>1. /\ wedged \subseteq suspect /\ Used(This) \cap suspect = {} /\ ~leaked
        /\ made = 0 => live = {}
    BY DEF SweepInv, InvSuspects
  <2>2. made = 0 => ~built
    BY DEF SweepInv, InvTurns
  <2>3. ~built => \A d \in Devices : Hosted(d) = {}
    BY NoneHosted DEF SweepInv
  <2> QED
    BY <2>1, <2>2, <2>3
<1> QED
  BY <1>1, SweepInvariant, PTL

\* A device never hosts two workers, of whichever backends, as long as no client
\* of SimplerZeCo mixes measurements with multi-head calls.
THEOREM NoDeviceShared == Separated => (SweepSpec => []DevicesNotShared)
<1> SUFFICES ASSUME Separated PROVE SweepSpec => []DevicesNotShared
  OBVIOUS
<1>1. SweepInv => DevicesNotShared
  <2> SUFFICES ASSUME SweepInv, NEW d \in Devices
               PROVE  Cardinality(Hosted(d)) + Cardinality({w \in live : d \in Ranks(w)}) <= 1
    BY DEF DevicesNotShared
  <2>1. PICK L : L = {w \in live : d \in Ranks(w)}
    OBVIOUS
  <2>2. Cardinality(Hosted(d)) \in {0, 1}
    BY OneHosted DEF SweepInv
  <2>3. CASE built
    <3>1. L = {}
      BY <2>1, <2>3 DEF SweepInv, InvTurns
    <3>2. Cardinality(L) = 0
      BY <3>1, FS_EmptySet
    <3> QED
      BY <2>1, <2>2, <3>2
  <2>4. CASE ~built
    <3>1. Hosted(d) = {}
      BY <2>4, NoneHosted DEF SweepInv
    <3>2. Cardinality(Hosted(d)) = 0
      BY <3>1, FS_EmptySet
    <3>3. \A v, w \in L : v = w
      BY <2>1 DEF SweepInv, WorkersInv, InvLive, Reachable
    <3>4. L = {} \/ \E w : L = {w}
      BY <3>3
    <3>5. Cardinality(L) \in {0, 1}
      BY <3>4, FS_EmptySet, FS_Singleton
    <3> QED
      BY <2>1, <3>2, <3>5
  <2> QED
    BY <2>3, <2>4
<1> QED
  BY <1>1, SweepInvariant, PTL

-----------------------------------------------------------------------------
(* The searches of a sweep *)

\* Between searches the invariant of the search says nothing.
Searching == stage = "idle" \/ SearchInv

LEMMA SeekStarts ==
  ASSUME NEW r \in Requests, Seek(r)
  PROVE  SearchInv'
<1>1. goal' = r /\ seen' = <<>> /\ stage' = "head" /\ group' = 1 /\ index' = 1
  BY DEF Seek
<1>2. group' \in 1..Len(Groups[r])
  BY <1>1, SearchAssumption
<1>3. Groups[r][1] # <<>> /\ Groups[r][1] \in Seq(Plans[r])
  BY <1>1, <1>2, SearchAssumption
<1>4. Len(Groups[r][1]) \in Nat \ {0}
  BY <1>3, EmptySeq, LenProperties
<1>5. index' \in 1..Len(Walked')
  BY <1>1, <1>4 DEF Walked
<1> QED
  BY <1>1, <1>2, <1>5 DEF SearchInv, Positioned, NothingBehind, FirstFit

LEMMA QuietSearch ==
  ASSUME Searching, UNCHANGED searchVars
  PROVE  Searching'
BY DEF Searching, SearchInv, Positioned, NothingBehind, FirstFit, RuledOut, Walked, searchVars

LEMMA WorkerSearches ==
  ASSUME WorkersInv, Searching, WorkerStep
  PROVE  Searching'
<1>1. CASE SeekPlan
  <2>1. PICK c \in self.shape : Seek(Request(c))
    BY <1>1 DEF SeekPlan
  <2>2. c \in Configs
    BY DEF WorkersInv, InvObject, Objects
  <2>3. Request(c) \in Requests
    BY <2>2, ConfigAssumption
  <2> QED
    BY <2>1, <2>3, SeekStarts DEF Searching
<1>2. CASE SearchStep
  <2>1. SearchNext
    BY <1>2 DEF SearchStep
  <2>2. SearchInv
    BY <2>1 DEF Searching, SearchNext, TryHead, TryFloor, TryRest
  <2>3. SearchInv'
    BY <2>1, <2>2, HeadStep, FloorStep, RestStep DEF SearchNext
  <2> QED
    BY <2>3 DEF Searching
<1>3. CASE KeepProgram \/ SearchFails
  BY <1>3 DEF KeepProgram, SearchFails, Forget, Searching
<1>4. ASSUME ~SeekPlan, ~SearchStep, ~KeepProgram, ~SearchFails PROVE Searching'
  <2>1. UNCHANGED searchVars
    BY <1>4 DEF WorkerStep, CloseRt, Compile, AllocBuffers, Prepare, Construct, InitWorker, Built,
                Closed, Unfold, Dispatch, Borrow, PerCall, GiveBack
  <2> QED
    BY <2>1, QuietSearch
<1> QED
  BY <1>1, <1>2, <1>3, <1>4

\* compile_blocked keeps the first plan that builds in every search a sweep or a
\* client starts, also when an earlier one ended in an exception.
THEOREM EverySearchFirstFit == SweepSpec => []FirstFit
<1>1. SweepInit => Searching
  BY DEF SweepInit, WorkersInit, Searching
<1>2. SweepInv /\ Searching /\ [SweepNext]_allVars => Searching'
  <2> SUFFICES ASSUME SweepInv, Searching, [SweepNext]_allVars PROVE Searching'
    OBVIOUS
  <2>1. WorkersInv
    BY DEF SweepInv
  <2>2. WorkerStep \/ UNCHANGED searchVars
    <3>1. CASE Sweep
      BY <3>1 DEF Sweep, NextRow, Ends, BenchCall, RowDone, RowFails, StartClose, EndClose, Quiet1,
                  StartBuild, StartCall
    <3>2. CASE Backend \/ SimplerClient
      BY <3>2 DEF Backend, SimplerClient, Quiet1
    <3>3. CASE PyptoClient
      <4>1. \A c : StartBuild(c) => UNCHANGED searchVars
        BY DEF StartBuild
      <4>2. \A op : StartCall(op) => UNCHANGED searchVars
        BY DEF StartCall
      <4> QED
        BY <3>3, <4>1, <4>2 DEF PyptoClient
    <3>4. CASE UNCHANGED allVars
      BY <3>4 DEF allVars
    <3> QED
      BY <3>1, <3>2, <3>3, <3>4 DEF SweepNext
  <2> QED
    BY <2>1, <2>2, WorkerSearches, QuietSearch
<1>3. Searching => FirstFit
  BY DEF Searching, SearchInv, FirstFit
<1> QED
  BY <1>1, <1>2, <1>3, SweepInvariant, PTL DEF SweepSpec
=============================================================================
