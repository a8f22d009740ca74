--------------------------- MODULE BlockingSearch ---------------------------
(***************************************************************************)
(* The search for a blocking of the fused pypto programs                   *)
(* (compile_blocked in gla/implementations/pypto/fused_program.py, shared  *)
(* by the forward and the backward).  Candidate plans are compiled in      *)
(* order of cost, one group of equal value, ring and key-row split at a    *)
(* time, and the first that builds is kept.  A group is left early when    *)
(* its smallest footprint overflows the vector buffer.                     *)
(*                                                                         *)
(* Which plans build is up to the compiler: an attempt has any outcome     *)
(* that agrees with those seen before, footprints being monotone in the    *)
(* two levers that vary inside a group.                                    *)
(***************************************************************************)
EXTENDS Integers, FiniteSets, SequencesExt

CONSTANTS
  TileUnit,  \* a block width is a multiple of it
  Requests   \* the shapes a search is asked for: [C, dk, dv, distributed]

-----------------------------------------------------------------------------
(* The candidate plans, cheapest first *)

Depths == <<4, 2, 1>>

PowerOfTwo(n) == \A m \in 2..n : n % m = 0 => m % 2 = 0

Splits(d) ==
  SelectSeq([n \in 1..d |-> n],
            LAMBDA n : PowerOfTwo(n) /\ d % n = 0 /\ (d \div n) % TileUnit = 0)

RingSplits(r) == IF r.distributed THEN Splits(r.dk) ELSE <<1>>

\* The product of two sequences, the second varying fastest.
Pairs(s, t) ==
  [k \in 1..(Len(s) * Len(t)) |-> <<s[((k - 1) \div Len(t)) + 1], t[((k - 1) % Len(t)) + 1]>>]

\* The plans of one (key-row, value, ring) split.
Group(r, nc, nv, rb) ==
  [k \in 1..(Len(Splits(r.dk)) * Len(Depths)) |->
     LET inner == Pairs(Splits(r.dk), Depths)[k]
     IN  [nb |-> inner[1], nv |-> nv, slot |-> inner[2], rb |-> rb, nc |-> nc]]

Groups ==
  [r \in Requests |->
     LET outer == Pairs(Pairs(Splits(r.C), Splits(r.dv)), RingSplits(r))
     IN  [g \in DOMAIN outer |-> Group(r, outer[g][1][1], outer[g][1][2], outer[g][2])]]

\* The finest head blocking at the shallowest ring.
Floor(plans) ==
  [plans[1] EXCEPT !.nb   = Max({p.nb : p \in Range(plans)}),
                   !.slot = Min({p.slot : p \in Range(plans)})]

Plans == [r \in Requests |-> UNION {Range(Groups[r][g]) : g \in DOMAIN Groups[r]}]

\* Inside a group, more head blocks and a shallower ring need less buffer.
Smaller(p, q) ==
  /\ p.nv = q.nv /\ p.rb = q.rb /\ p.nc = q.nc
  /\ p.nb >= q.nb /\ p.slot <= q.slot

\* Every request has plans, no group is empty, and its floor is one of its
\* plans, with the smallest footprint.
ASSUME SearchAssumption ==
  \A r \in Requests :
    /\ Len(Groups[r]) \in Nat \ {0}
    /\ DOMAIN Groups[r] = 1..Len(Groups[r])
    /\ \A g \in DOMAIN Groups[r] :
         /\ Groups[r][g] \in Seq(Plans[r]) /\ Groups[r][g] # <<>>
         /\ Floor(Groups[r][g]) \in Range(Groups[r][g])
         /\ \A p \in Range(Groups[r][g]) : Smaller(Floor(Groups[r][g]), p)

-----------------------------------------------------------------------------
VARIABLES
  goal,    \* the request of the search
  seen,    \* the outcome of each plan compiled in it (the memo)
  stage,   \* what is compiled next: "head", "floor" or "rest"; or how the search
           \* ended: "found", "unfit" (ValueError) or "raised"; or no search: "idle"
  group,   \* the group being walked
  index    \* the position in it, of the plan kept when "found"

searchVars == <<goal, seen, stage, group, index>>

Outcomes == {"fits", "buffer", "placement", "error"}
Walked   == Groups[goal][group]

\* The outcome o of plan p agrees with what was seen: a plan that overflows
\* leaves no larger footprint in its group that would compile.
Agrees(p, o) ==
  /\ o \in {"fits", "placement"} =>
       ~\E q \in DOMAIN seen : seen[q] = "buffer" /\ Smaller(q, p)
  /\ o = "buffer" =>
       ~\E q \in DOMAIN seen : seen[q] \in {"fits", "placement"} /\ Smaller(p, q)

Attempt(p, o) ==
  IF p \in DOMAIN seen
  THEN o = seen[p] /\ seen' = seen
  ELSE Agrees(p, o) /\ seen' = [q \in DOMAIN seen \cup {p} |-> IF q = p THEN o ELSE seen[q]]

SearchInit ==
  /\ goal \in Requests /\ seen = <<>>
  /\ stage = "head" /\ group = 1 /\ index = 1

\* A caller starts a search.
Seek(r) ==
  /\ goal' = r /\ seen' = <<>>
  /\ stage' = "head" /\ group' = 1 /\ index' = 1

MoveTo(where) == stage' = where /\ UNCHANGED <<goal, group, index>>

NextGroup ==
  IF group < Len(Groups[goal])
  THEN /\ stage' = "head" /\ group' = group + 1 /\ index' = 1
       /\ UNCHANGED goal
  ELSE MoveTo("unfit")

TryHead ==
  /\ stage = "head"
  /\ \E o \in Outcomes :
       /\ Attempt(Walked[1], o)
       /\ \/ o = "fits"  /\ MoveTo("found")
          \/ o = "error" /\ MoveTo("raised")
          \/ o \in {"buffer", "placement"} /\ MoveTo("floor")

\* Mutant: any rejection of the floor rules the group out.
FloorRulesOutAny(o) == o # "fits"
FloorRulesOut(o)    == o = "buffer"

Rest ==
  IF Len(Walked) > 1
  THEN stage' = "rest" /\ index' = 2 /\ UNCHANGED <<goal, group>>
  ELSE NextGroup

TryFloor ==
  /\ stage = "floor"
  /\ \E o \in Outcomes :
       /\ Attempt(Floor(Walked), o)
       /\ \/ o = "error" /\ MoveTo("raised")
          \/ o # "error" /\ FloorRulesOut(o) /\ NextGroup
          \/ o # "error" /\ ~FloorRulesOut(o) /\ Rest

TryRest ==
  /\ stage = "rest"
  /\ \E o \in Outcomes :
       /\ Attempt(Walked[index], o)
       /\ \/ o = "fits"  /\ MoveTo("found")
          \/ o = "error" /\ MoveTo("raised")
          \/ /\ o \in {"buffer", "placement"}
             /\ IF index < Len(Walked)
                THEN index' = index + 1 /\ UNCHANGED <<goal, stage, group>>
                ELSE NextGroup

SearchNext == TryHead \/ TryFloor \/ TryRest

SearchSpec == SearchInit /\ [][SearchNext]_searchVars
-----------------------------------------------------------------------------
(* Properties *)

\* What the memo holds leaves plan p no way to build.
Excluded(memo, p) ==
  \/ p \in DOMAIN memo /\ memo[p] # "fits"
  \/ \E q \in DOMAIN memo : memo[q] = "buffer" /\ Smaller(q, p)

RuledOut(p) == Excluded(seen, p)

\* compile_blocked's promise, whatever the compiler answers: the plan it keeps
\* builds and every plan before it in the list is known not to; it gives up
\* ("no blocking plan fits") only when every plan is known not to build, those
\* it skipped included.
FirstFit ==
  /\ stage = "found" =>
       /\ Walked[index] \in DOMAIN seen /\ seen[Walked[index]] = "fits"
       /\ \A g \in 1..(group - 1) : \A p \in Range(Groups[goal][g]) : RuledOut(p)
       /\ \A i \in 1..(index - 1) : RuledOut(Walked[i])
  /\ stage = "unfit" => \A p \in Plans[goal] : RuledOut(p)
=============================================================================
