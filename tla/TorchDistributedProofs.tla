------------------------ MODULE TorchDistributedProofs ------------------------
(***************************************************************************)
(* Proofs about TorchDistributed for every number of ranks, every shape of *)
(* the state, every input, and any worker raising at any point.            *)
(***************************************************************************)
EXTENDS TorchDistributed, GlaAlgebraProofs, SequenceTheorems, TLAPS

-----------------------------------------------------------------------------
(* The scripts *)

Names == {"prefix", "g_out", "adjoint"}
Steps == {"recv", "send", "put"} \X (Names \cup {"result"}) \X Int

\* s is the recvs and sends of n blocks of what.
IsRing(s, n, what) ==
  /\ s \in Seq(Steps) /\ Len(s) = 2 * n
  /\ \A i \in 1..(2 * n) : s[i] = IF i % 2 = 1 THEN <<"recv", what, i \div 2>>
                                  ELSE <<"send", what, i \div 2 - 1>>

\* Steps 2 * e - 1 and 2 * e of a script.
IsExchange(t, e, what, block) ==
  t[2 * e - 1] = <<"recv", what, block>> /\ t[2 * e] = <<"send", what, block>>

LEMMA ForwardSteps == \A n \in Nat : IsRing(ForwardRing(n), n, "prefix")
  BY DEF ForwardRing, IsRing, Steps, Names

LEMMA BackwardSteps == \A n \in Nat : IsRing(BackwardRing(n), n, "adjoint")
  BY DEF BackwardRing, IsRing, Steps, Names

LEMMA PutLast ==
  ASSUME NEW s \in Seq(Steps), NEW n \in Nat, n = Len(s),
         NEW t, t = Append(s, PutResult)
  PROVE  /\ Len(t) = n + 1 /\ t[n + 1] = PutResult
         /\ \A i \in 1..n : t[i] = s[i]
<1>1. PutResult \in Steps
  BY DEF Steps, Names, PutResult
<1> QED
  BY <1>1, AppendProperties

LEMMA RingScript ==
  ASSUME NEW n \in Nat, NEW s, NEW what, IsRing(s, n, what),
         NEW t, t = Append(s, PutResult)
  PROVE  /\ Len(t) = 2 * n + 1 /\ t[2 * n + 1] = PutResult
         /\ \A e \in 1..n : IsExchange(t, e, what, e - 1)
<1>1. /\ Len(t) = 2 * n + 1 /\ t[2 * n + 1] = PutResult
      /\ \A i \in 1..(2 * n) : t[i] = s[i]
  BY PutLast DEF IsRing
<1>2. ASSUME NEW e \in 1..n
      PROVE  IsExchange(t, e, what, e - 1)
  <2>1. /\ 2 * e - 1 \in 1..(2 * n) /\ (2 * e - 1) % 2 = 1 /\ (2 * e - 1) \div 2 = e - 1
        /\ 2 * e \in 1..(2 * n) /\ (2 * e) % 2 # 1 /\ (2 * e) \div 2 - 1 = e - 1
    OBVIOUS
  <2> QED
    BY <1>1, <2>1 DEF IsRing, IsExchange
<1> QED
  BY <1>1, <1>2

\* The blocks of the exchanges make up the state.
Covered == \A i \in Keys : \E e \in 1..Exchanges : i \in BlockRows(Block(e))

\* Every program is a series of exchanges and a put; the first ones go up, and
\* two of the same name carry different rows.
LEMMA ScriptShape ==
  ASSUME program \in Programs
  PROVE  /\ Exchanges \in Nat \ {0} /\ Ups \in 0..Exchanges
         /\ Len(Script(program)) = 2 * Exchanges + 1
         /\ Script(program)[2 * Exchanges + 1] = PutResult
         /\ \A e \in 1..Exchanges :
              /\ IsExchange(Script(program), e, What(e), Block(e))
              /\ What(e) \in Names
              /\ Up(What(e)) <=> e <= Ups
              /\ BlockRows(Block(e)) \subseteq Keys
              /\ program = "allscan_backward" => What(e) = "adjoint"
         /\ Covered
         /\ \A e, f \in 1..Exchanges :
              f < e => /\ What(e) # What(f) \/ BlockRows(Block(e)) \cap BlockRows(Block(f)) = {}
                       /\ What(f) = "adjoint" => What(e) # "g_out"
<1> USE ShapeAssumption, ProgramAssumption
<1>1. CASE program = "allscan"
  <2> DEFINE s == ForwardRing(DK)
             t == Script(program)
  <2>1. Exchanges = DK /\ Ups = DK /\ Blocks(program) = DK /\ DK \in Nat \ {0}
    BY <1>1 DEF Exchanges, Ups, Blocks
  <2>2. t = Append(s, PutResult)
    <3> HIDE DEF s
    <3> QED
      BY <1>1, <2>1 DEF Script, s
  <2>3. IsRing(s, DK, "prefix")
    BY <2>1, ForwardSteps
  <2> HIDE DEF s, t
  <2>4. /\ Len(t) = 2 * DK + 1
        /\ t[2 * DK + 1] = PutResult
        /\ \A e \in 1..DK : IsExchange(t, e, "prefix", e - 1)
    BY <2>1, <2>2, <2>3, RingScript
  <2>5. \A e \in 1..DK : What(e) = "prefix" /\ Block(e) = e - 1
    BY <2>4 DEF What, Block, IsExchange, t
  <2>6. \A e \in 1..DK : BlockRows(Block(e)) = (IF DK = 1 THEN Keys ELSE {e - 1})
    BY <2>1, <2>5 DEF BlockRows
  <2>7. \A e \in 1..DK : BlockRows(Block(e)) \subseteq Keys
    BY <2>1, <2>6 DEF Keys
  <2>8. \A e, f \in 1..DK : f < e => BlockRows(Block(e)) \cap BlockRows(Block(f)) = {}
    BY <2>1, <2>6
  <2>9. \A e \in 1..DK : What(e) \in Names /\ (Up(What(e)) <=> e <= DK)
    BY <2>1, <2>5 DEF Names, Up
  <2>10. \A e, f \in 1..DK : What(f) = "adjoint" => What(e) # "g_out"
    BY <2>5
  <2>11. \A e \in 1..DK : IsExchange(t, e, What(e), Block(e))
    BY <2>4, <2>5
  <2>12. \A e \in 1..DK : program = "allscan_backward" => What(e) = "adjoint"
    BY <1>1, <2>5
  <2>13. Len(t) = 2 * DK + 1 /\ t[2 * DK + 1] = PutResult
    BY <2>4
  <2>14. Exchanges \in Nat \ {0} /\ Ups \in 0..Exchanges
    BY <2>1
  <2>15. Covered
    <3> SUFFICES \A i \in Keys : \E e \in 1..DK : i \in BlockRows(Block(e))
      BY <2>1 DEF Covered
    <3> TAKE i \in Keys
    <3>1. i + 1 \in 1..DK /\ (i + 1) - 1 = i
      BY DEF Keys
    <3> QED
      BY <2>6, <3>1
  <2>16. \A e \in 1..Exchanges :
           /\ IsExchange(t, e, What(e), Block(e))
           /\ What(e) \in Names
           /\ Up(What(e)) <=> e <= Ups
           /\ BlockRows(Block(e)) \subseteq Keys
           /\ program = "allscan_backward" => What(e) = "adjoint"
    BY <2>1, <2>7, <2>9, <2>11, <2>12
  <2>17. \A e, f \in 1..Exchanges :
           f < e => /\ What(e) # What(f) \/ BlockRows(Block(e)) \cap BlockRows(Block(f)) = {}
                    /\ What(f) = "adjoint" => What(e) # "g_out"
    BY <2>1, <2>8, <2>10
  <2>18. Len(t) = 2 * Exchanges + 1 /\ t[2 * Exchanges + 1] = PutResult
    BY <2>1, <2>13
  <2> QED
    BY <2>14, <2>15, <2>16, <2>17, <2>18 DEF t
<1>2. CASE program = "allscan_backward"
  <2> DEFINE s == BackwardRing(DK)
             t == Script(program)
  <2>1. Exchanges = DK /\ Ups = 0 /\ Blocks(program) = DK /\ DK \in Nat \ {0}
    BY <1>2 DEF Exchanges, Ups, Blocks
  <2>2. t = Append(s, PutResult)
    <3> HIDE DEF s
    <3> QED
      BY <1>2, <2>1 DEF Script, s
  <2>3. IsRing(s, DK, "adjoint")
    BY <2>1, BackwardSteps
  <2> HIDE DEF s, t
  <2>4. /\ Len(t) = 2 * DK + 1
        /\ t[2 * DK + 1] = PutResult
        /\ \A e \in 1..DK : IsExchange(t, e, "adjoint", e - 1)
    BY <2>1, <2>2, <2>3, RingScript
  <2>5. \A e \in 1..DK : What(e) = "adjoint" /\ Block(e) = e - 1
    BY <2>4 DEF What, Block, IsExchange, t
  <2>6. \A e \in 1..DK : BlockRows(Block(e)) = (IF DK = 1 THEN Keys ELSE {e - 1})
    BY <2>1, <2>5 DEF BlockRows
  <2>7. \A e \in 1..DK : BlockRows(Block(e)) \subseteq Keys
    BY <2>1, <2>6 DEF Keys
  <2>8. \A e, f \in 1..DK : f < e => BlockRows(Block(e)) \cap BlockRows(Block(f)) = {}
    BY <2>1, <2>6
  <2>9. \A e \in 1..DK : What(e) \in Names /\ (Up(What(e)) <=> e <= 0)
    BY <2>1, <2>5 DEF Names, Up
  <2>10. \A e, f \in 1..DK : What(f) = "adjoint" => What(e) # "g_out"
    BY <2>5
  <2>11. \A e \in 1..DK : IsExchange(t, e, What(e), Block(e))
    BY <2>4, <2>5
  <2>12. \A e \in 1..DK : program = "allscan_backward" => What(e) = "adjoint"
    BY <1>2, <2>5
  <2>13. Len(t) = 2 * DK + 1 /\ t[2 * DK + 1] = PutResult
    BY <2>4
  <2>14. Exchanges \in Nat \ {0} /\ Ups \in 0..Exchanges
    BY <2>1
  <2>15. Covered
    <3> SUFFICES \A i \in Keys : \E e \in 1..DK : i \in BlockRows(Block(e))
      BY <2>1 DEF Covered
    <3> TAKE i \in Keys
    <3>1. i + 1 \in 1..DK /\ (i + 1) - 1 = i
      BY DEF Keys
    <3> QED
      BY <2>6, <3>1
  <2>16. \A e \in 1..Exchanges :
           /\ IsExchange(t, e, What(e), Block(e))
           /\ What(e) \in Names
           /\ Up(What(e)) <=> e <= Ups
           /\ BlockRows(Block(e)) \subseteq Keys
           /\ program = "allscan_backward" => What(e) = "adjoint"
    BY <2>1, <2>7, <2>9, <2>11, <2>12
  <2>17. \A e, f \in 1..Exchanges :
           f < e => /\ What(e) # What(f) \/ BlockRows(Block(e)) \cap BlockRows(Block(f)) = {}
                    /\ What(f) = "adjoint" => What(e) # "g_out"
    BY <2>1, <2>8, <2>10
  <2>18. Len(t) = 2 * Exchanges + 1 /\ t[2 * Exchanges + 1] = PutResult
    BY <2>1, <2>13
  <2> QED
    BY <2>14, <2>15, <2>16, <2>17, <2>18 DEF t
<1>3. CASE program = "zeco"
  <2> DEFINE s == ForwardRing(1)
             t == Script(program)
  <2>1. Exchanges = 1 /\ Ups = 1 /\ Blocks(program) = 1 /\ 1 \in Nat \ {0}
    BY <1>3 DEF Exchanges, Ups, Blocks
  <2>2. t = Append(s, PutResult)
    <3> HIDE DEF s
    <3> QED
      BY <1>3, <2>1 DEF Script, s
  <2>3. IsRing(s, 1, "prefix")
    BY <2>1, ForwardSteps
  <2> HIDE DEF s, t
  <2>4. /\ Len(t) = 2 * 1 + 1
        /\ t[2 * 1 + 1] = PutResult
        /\ \A e \in 1..1 : IsExchange(t, e, "prefix", e - 1)
    BY <2>1, <2>2, <2>3, RingScript
  <2>5. \A e \in 1..1 : What(e) = "prefix" /\ Block(e) = e - 1
    BY <2>4 DEF What, Block, IsExchange, t
  <2>6. \A e \in 1..1 : BlockRows(Block(e)) = (IF 1 = 1 THEN Keys ELSE {e - 1})
    BY <2>1, <2>5 DEF BlockRows
  <2>7. \A e \in 1..1 : BlockRows(Block(e)) \subseteq Keys
    BY <2>1, <2>6 DEF Keys
  <2>8. \A e, f \in 1..1 : f < e => BlockRows(Block(e)) \cap BlockRows(Block(f)) = {}
    BY <2>1, <2>6
  <2>9. \A e \in 1..1 : What(e) \in Names /\ (Up(What(e)) <=> e <= 1)
    BY <2>1, <2>5 DEF Names, Up
  <2>10. \A e, f \in 1..1 : What(f) = "adjoint" => What(e) # "g_out"
    BY <2>5
  <2>11. \A e \in 1..1 : IsExchange(t, e, What(e), Block(e))
    BY <2>4, <2>5
  <2>12. \A e \in 1..1 : program = "allscan_backward" => What(e) = "adjoint"
    BY <1>3, <2>5
  <2>13. Len(t) = 2 * 1 + 1 /\ t[2 * 1 + 1] = PutResult
    BY <2>4
  <2>14. Exchanges \in Nat \ {0} /\ Ups \in 0..Exchanges
    BY <2>1
  <2>15. Covered
    <3> SUFFICES \A i \in Keys : \E e \in 1..1 : i \in BlockRows(Block(e))
      BY <2>1 DEF Covered
    <3>1. 1 \in 1..1
      OBVIOUS
    <3> QED
      BY <2>6, <3>1
  <2>16. \A e \in 1..Exchanges :
           /\ IsExchange(t, e, What(e), Block(e))
           /\ What(e) \in Names
           /\ Up(What(e)) <=> e <= Ups
           /\ BlockRows(Block(e)) \subseteq Keys
           /\ program = "allscan_backward" => What(e) = "adjoint"
    BY <2>1, <2>7, <2>9, <2>11, <2>12
  <2>17. \A e, f \in 1..Exchanges :
           f < e => /\ What(e) # What(f) \/ BlockRows(Block(e)) \cap BlockRows(Block(f)) = {}
                    /\ What(f) = "adjoint" => What(e) # "g_out"
    BY <2>1, <2>8, <2>10
  <2>18. Len(t) = 2 * Exchanges + 1 /\ t[2 * Exchanges + 1] = PutResult
    BY <2>1, <2>13
  <2> QED
    BY <2>14, <2>15, <2>16, <2>17, <2>18 DEF t
<1>4. CASE program = "zeco_backward"
  <2> DEFINE s == ForwardAndBackward
             t == Script(program)
  <2>1. Exchanges = 3 /\ Ups = 1 /\ Blocks(program) = 1
    BY <1>4 DEF Exchanges, Ups, Blocks
  <2>2. t = Append(s, PutResult)
    BY <1>4 DEF Script
  <2>3. /\ s \in Seq(Steps) /\ Len(s) = 6
        /\ s[1] = <<"recv", "prefix", 0>> /\ s[2] = <<"send", "prefix", 0>>
        /\ s[3] = <<"recv", "g_out", 0>> /\ s[4] = <<"send", "g_out", 0>>
        /\ s[5] = <<"recv", "adjoint", 0>> /\ s[6] = <<"send", "adjoint", 0>>
    BY DEF ForwardAndBackward, Steps, Names
  <2> HIDE DEF s, t
  <2>4. Len(t) = 7 /\ t[7] = PutResult /\ \A i \in 1..6 : t[i] = s[i]
    <3>1. PICK n \in Nat : n = 6
      OBVIOUS
    <3>2. s \in Seq(Steps) /\ n = Len(s)
      BY <2>3, <3>1
    <3>3. Len(t) = n + 1 /\ t[n + 1] = PutResult /\ \A i \in 1..n : t[i] = s[i]
      BY <2>2, <3>2, PutLast
    <3> QED
      BY <3>1, <3>3
  <2>5. /\ What(1) = "prefix" /\ Block(1) = 0 /\ What(2) = "g_out" /\ Block(2) = 0
        /\ What(3) = "adjoint" /\ Block(3) = 0
    BY <2>3, <2>4 DEF What, Block, t
  <2>6. /\ t[1] = <<"recv", What(1), Block(1)>> /\ t[2] = <<"send", What(1), Block(1)>>
        /\ t[3] = <<"recv", What(2), Block(2)>> /\ t[4] = <<"send", What(2), Block(2)>>
        /\ t[5] = <<"recv", What(3), Block(3)>> /\ t[6] = <<"send", What(3), Block(3)>>
    BY <2>3, <2>4, <2>5
  <2>7. \A e \in 1..3 : \/ e = 1 /\ 2 * e - 1 = 1 /\ 2 * e = 2
                        \/ e = 2 /\ 2 * e - 1 = 3 /\ 2 * e = 4
                        \/ e = 3 /\ 2 * e - 1 = 5 /\ 2 * e = 6
    OBVIOUS
  <2>8. \A e \in 1..3 : IsExchange(t, e, What(e), Block(e))
    BY <2>6, <2>7 DEF IsExchange
  <2>9. \A e \in 1..3 : /\ What(e) \in Names /\ (Up(What(e)) <=> e <= 1)
                        /\ BlockRows(Block(e)) \subseteq Keys
    BY <2>1, <2>5, <2>7 DEF Names, Up, BlockRows, Keys
  <2>10. \A e, f \in 1..3 : f < e => What(e) # What(f) /\ (What(f) = "adjoint" => What(e) # "g_out")
    BY <2>5, <2>7
  <2>11. 2 * 3 + 1 = 7
    OBVIOUS
  <2>12. Covered
    <3> SUFFICES \A i \in Keys : \E e \in 1..3 : i \in BlockRows(Block(e))
      BY <2>1 DEF Covered
    <3>1. 1 \in 1..3 /\ BlockRows(Block(1)) = Keys
      BY <2>1 DEF BlockRows
    <3> QED
      BY <3>1
  <2> QED
    BY <1>4, <2>1, <2>4, <2>8, <2>9, <2>10, <2>11, <2>12 DEF t
<1> QED
  BY <1>1, <1>2, <1>3, <1>4

-----------------------------------------------------------------------------
(* Places *)

\* A running worker is at the recv or the send of an exchange, or at its put.
LEMMA Place ==
  ASSUME InvPlaces, NEW p \in Ranks, Running(p)
  PROVE  \/ \E e \in 1..Exchanges :
              /\ at[p] = 2 * e - 1 /\ ~sending[p] /\ Step(p) = <<"recv", What(e), Block(e)>>
              /\ Taken(p) = e - 1 /\ Posted(p) = e - 1
         \/ \E e \in 1..Exchanges :
              /\ at[p] = 2 * e /\ Step(p) = <<"send", What(e), Block(e)>>
              /\ Taken(p) = e /\ Posted(p) = IF sending[p] THEN e ELSE e - 1
         \/ /\ at[p] = 2 * Exchanges + 1 /\ ~sending[p] /\ Step(p) = PutResult
            /\ Taken(p) = Exchanges /\ Posted(p) = Exchanges
<1> DEFINE E == Exchanges
<1>1. program \in Programs /\ E \in Nat \ {0} /\ at[p] \in 1..(2 * E + 1) /\ sending[p] \in BOOLEAN
  <2>1. program \in Programs /\ at[p] \in 1..(2 * E + 2) /\ sending[p] \in BOOLEAN
    BY DEF InvPlaces
  <2>2. at[p] <= 2 * E + 1 /\ E \in Nat \ {0}
    BY <2>1, ScriptShape DEF Running
  <2> QED
    BY <2>1, <2>2
<1>2. sending[p] => at[p] \in {2 * e : e \in 1..E}
  BY DEF InvPlaces
<1>3. \/ \E e \in 1..E : at[p] = 2 * e - 1 
      \/ \E e \in 1..E : at[p] = 2 * e
      \/ at[p] = 2 * E + 1
  <2>1. at[p] = 2 * (at[p] \div 2) \/ at[p] = 2 * (at[p] \div 2 + 1) - 1
    BY <1>1
  <2>2. CASE at[p] = 2 * E + 1
    BY <2>2
  <2>3. CASE at[p] # 2 * E + 1 /\ at[p] = 2 * (at[p] \div 2)
    <3>1. at[p] \div 2 \in 1..E
      BY <1>1, <2>3
    <3> QED
      BY <2>3, <3>1
  <2>4. CASE at[p] # 2 * E + 1 /\ at[p] = 2 * (at[p] \div 2 + 1) - 1
    <3>1. at[p] \div 2 + 1 \in 1..E
      BY <1>1, <2>4
    <3> QED
      BY <2>4, <3>1
  <2> QED
    BY <2>1, <2>2, <2>3, <2>4
<1>4. CASE \E e \in 1..E : at[p] = 2 * e - 1
  <2>1. PICK e \in 1..E : at[p] = 2 * e - 1
    BY <1>4
  <2>2. ~sending[p]
    BY <1>1, <1>2, <2>1
  <2>3. Taken(p) = e - 1 /\ Posted(p) = e - 1
    BY <1>1, <2>1, <2>2 DEF Taken, Posted
  <2>4. Step(p) = <<"recv", What(e), Block(e)>>
    BY <1>1, <2>1, ScriptShape DEF Step, IsExchange
  <2> QED
    BY <2>1, <2>2, <2>3, <2>4
<1>5. CASE \E e \in 1..E : at[p] = 2 * e
  <2>1. PICK e \in 1..E : at[p] = 2 * e
    BY <1>5
  <2>2. Taken(p) = e /\ Posted(p) = IF sending[p] THEN e ELSE e - 1
    BY <1>1, <2>1 DEF Taken, Posted
  <2>3. Step(p) = <<"send", What(e), Block(e)>>
    BY <1>1, <2>1, ScriptShape DEF Step, IsExchange
  <2> QED
    BY <2>1, <2>2, <2>3
<1>6. CASE at[p] = 2 * E + 1
  <2>1. ~sending[p]
    BY <1>1, <1>2, <1>6
  <2>2. Taken(p) = E /\ Posted(p) = E
    BY <1>1, <1>6, <2>1 DEF Taken, Posted
  <2>3. Step(p) = PutResult
    BY <1>1, <1>6, ScriptShape DEF Step
  <2> QED
    BY <1>6, <2>1, <2>2, <2>3
<1> QED
  BY <1>3, <1>4, <1>5, <1>6

LEMMA Ranges ==
  ASSUME InvPlaces, NEW p \in Ranks
  PROVE  Taken(p) \in 0..Exchanges /\ Posted(p) \in 0..Exchanges
<1>1. program \in Programs /\ Exchanges \in Nat /\ at[p] \in 1..(2 * Exchanges + 2)
      /\ sending[p] \in BOOLEAN /\ (sending[p] => at[p] <= 2 * Exchanges)
  BY ScriptShape DEF InvPlaces
<1>2. Taken(p) \in 0..Exchanges
  BY <1>1 DEF Taken
<1>3. Posted(p) \in 0..Exchanges
  BY <1>1 DEF Posted
<1> QED
  BY <1>2, <1>3

\* Exchange e counts for the link from p to q when it goes that way.
LEMMA Links ==
  ASSUME program \in Programs, NEW p \in Ranks, NEW q \in Ranks, q \in {p - 1, p + 1},
         NEW e \in 1..Exchanges
  PROVE  /\ Target(p, What(e)) = q <=> Source(q, What(e)) = p
         /\ Target(p, What(e)) = q => Upto(p, q, e) = e /\ Upto(p, q, e - 1) = e - 1
         /\ Target(p, What(e)) # q => Upto(p, q, e) = Upto(p, q, e - 1)
         /\ \A n \in 0..Exchanges :
              /\ Upto(p, q, n) \in 0..Exchanges
              /\ Target(p, What(e)) = q => (Upto(p, q, n) < e <=> n < e)
              /\ \A m \in 0..Exchanges :
                   Upto(p, q, n) < e /\ e <= Upto(p, q, m) => Target(p, What(e)) = q
<1>1. p \in Int /\ q \in Int /\ Exchanges \in Nat /\ Ups \in 0..Exchanges
      /\ (Up(What(e)) <=> e <= Ups)
  <2>1. p \in Int /\ q \in Int
    BY ShapeAssumption DEF Ranks
  <2> QED
    BY <2>1, ScriptShape
<1>2. CASE q = p + 1 
  <2>1. Target(p, What(e)) = q <=> e <= Ups
    BY <1>1, <1>2 DEF Target
  <2>2. Source(q, What(e)) = p <=> e <= Ups
    BY <1>1, <1>2 DEF Source
  <2> QED
    BY <1>1, <1>2, <2>1, <2>2 DEF Upto
<1>3. CASE q = p - 1
  <2>1. Target(p, What(e)) = q <=> ~(e <= Ups)
    BY <1>1, <1>3 DEF Target
  <2>2. Source(q, What(e)) = p <=> ~(e <= Ups)
    BY <1>1, <1>3 DEF Source
  <2> QED
    BY <1>1, <1>3, <2>1, <2>2 DEF Upto
<1> QED
  BY <1>2, <1>3

-----------------------------------------------------------------------------
(* Steps: what an action of p does to the places *)

\* Nothing but the program and the input decides on a script.
LEMMA Frame ==
  ASSUME program' = program, input' = input
  PROVE  /\ Exchanges' = Exchanges /\ Ups' = Ups /\ Script(program)' = Script(program)
         /\ \A e : What(e)' = What(e) /\ Block(e)' = Block(e)
         /\ \A k : BlockRows(k)' = BlockRows(k)
         /\ \A p, q, n : Upto(p, q, n)' = Upto(p, q, n)
         /\ Fresh(program, input)' = Fresh(program, input)
<1>1. Exchanges' = Exchanges /\ Ups' = Ups /\ Script(program)' = Script(program)
  BY DEF Exchanges, Ups
<1>2. \A e : What(e)' = What(e) /\ Block(e)' = Block(e)
  BY DEF What, Block
<1>3. \A k : BlockRows(k)' = BlockRows(k)
  BY DEF BlockRows
<1>4. \A p, q, n : Upto(p, q, n)' = Upto(p, q, n)
  BY <1>1 DEF Upto
<1>5. Fresh(program, input)' = Fresh(program, input)
  OBVIOUS
<1> QED
  BY <1>1, <1>2, <1>3, <1>4, <1>5

LEMMA Still ==
  ASSUME program' = program, input' = input,
         NEW q, at'[q] = at[q], sending'[q] = sending[q]
  PROVE  Taken(q)' = Taken(q) /\ Posted(q)' = Posted(q)
  BY Frame DEF Taken, Posted

\* The number of exchanges behind a place.
LEMMA Counts ==
  ASSUME NEW e \in 1..Exchanges, Exchanges \in Nat
  PROVE  /\ (2 * e - 1) \div 2 = e - 1 /\ ((2 * e - 1) - 1) \div 2 = e - 1
         /\ (2 * e) \div 2 = e /\ (2 * e - 1) \div 2 = e - 1 /\ ((2 * e + 1) - 1) \div 2 = e
         /\ 2 * e <= 2 * Exchanges
         /\ 2 * e + 1 > 2 * Exchanges => e = Exchanges
         /\ (2 * e + 1) \div 2 = e
  OBVIOUS

\* A step of p moves on: from the recv of e to its send, from the send to the
\* next recv, from the put to the end.
LEMMA Moves ==
  ASSUME InvPlaces, NEW p \in Ranks, program' = program, input' = input,
         Running(p), at' = [at EXCEPT ![p] = @ + 1], sending'[p] = FALSE
  PROVE  /\ \A e \in 1..Exchanges :
              /\ at[p] = 2 * e - 1 => Taken(p)' = e /\ Posted(p)' = e - 1
              /\ at[p] = 2 * e => Taken(p)' = e /\ Posted(p)' = e
         /\ at[p] = 2 * Exchanges + 1 => Taken(p)' = Exchanges /\ Posted(p)' = Exchanges
         /\ at'[p] \in 1..(2 * Exchanges + 2)
         /\ Taken(p)' \in 0..Exchanges /\ Posted(p)' \in 0..Exchanges
<1>1. /\ at'[p] = at[p] + 1 /\ Exchanges' = Exchanges /\ Exchanges \in Nat \ {0}
      /\ at[p] \in 1..(2 * Exchanges + 1)
  <2>1. p \in DOMAIN at /\ program \in Programs /\ at[p] \in 1..(2 * Exchanges + 2)
    BY DEF InvPlaces
  <2>2. at[p] <= 2 * Exchanges + 1 /\ Exchanges \in Nat \ {0}
    BY <2>1, ScriptShape DEF Running
  <2> QED
    BY <2>1, <2>2, Frame
<1>2. ASSUME NEW e \in 1..Exchanges, at[p] = 2 * e - 1
      PROVE  Taken(p)' = e /\ Posted(p)' = e - 1
  BY <1>1, <1>2, Counts DEF Taken, Posted
<1>3. ASSUME NEW e \in 1..Exchanges, at[p] = 2 * e
      PROVE  Taken(p)' = e /\ Posted(p)' = e
  BY <1>1, <1>3, Counts DEF Taken, Posted
<1>4. ASSUME at[p] = 2 * Exchanges + 1
      PROVE  Taken(p)' = Exchanges /\ Posted(p)' = Exchanges
  BY <1>1, <1>4 DEF Taken, Posted
<1>5. Taken(p)' \in 0..Exchanges /\ Posted(p)' \in 0..Exchanges
  BY <1>1, <1>2, <1>3, <1>4, Place
<1> QED
  BY <1>1, <1>2, <1>3, <1>4, <1>5

\* p takes exchange e, the one it posted a recv for, off the link from s.
RecvOf(p, e, s) ==
  /\ at[p] = 2 * e - 1 /\ s = Source(p, What(e)) /\ Target(s, What(e)) = p
  /\ p \in {s - 1, s + 1}
  /\ Taken(p) = e - 1 /\ Posted(p) = e - 1 /\ Taken(p)' = e /\ Posted(p)' = e - 1
  /\ Upto(s, p, Taken(p)) = e - 1 /\ e <= Upto(s, p, Posted(s)) /\ e <= Posted(s)
  /\ got' = [got EXCEPT ![p][What(e)] = Overwrite(Sent(s, e), @)]
  /\ net' = [net EXCEPT ![<<s, p>>] = Tail(@)]
  /\ at' = [at EXCEPT ![p] = @ + 1] /\ sending' = sending /\ ~sending[p]
  /\ program' = program /\ input' = input
  /\ queue' = queue /\ collected' = collected /\ Step(p)[2] = What(e)

LEMMA RecvStep ==
  ASSUME TorchInv, NEW p \in Ranks, Recv(p)
  PROVE  \E e \in 1..Exchanges, s \in Ranks : RecvOf(p, e, s)
<1> USE DEF TorchInv
<1>1. PICK e \in 1..Exchanges :
        /\ at[p] = 2 * e - 1 /\ ~sending[p] /\ Step(p) = <<"recv", What(e), Block(e)>>
        /\ Taken(p) = e - 1 /\ Posted(p) = e - 1
  <2>1. Running(p) /\ Step(p)[1] = "recv"
    BY DEF Recv
  <2> QED
    BY <2>1, Place DEF PutResult
<1> DEFINE s == Source(p, What(e))
           link == <<s, p>>
           first == Upto(s, p, Taken(p))
           last == Upto(s, p, Posted(s))
<1>2. Step(p)[2] = What(e)
  BY <1>1
<1>3. /\ Running(p) /\ s \in Ranks /\ net[link] # <<>>
      /\ got' = [got EXCEPT ![p][What(e)] = Overwrite(Head(net[link]).data, @)]
      /\ net' = [net EXCEPT ![link] = Tail(@)]
      /\ at' = [at EXCEPT ![p] = @ + 1]
      /\ program' = program /\ input' = input /\ sending' = sending
      /\ queue' = queue /\ collected' = collected
  BY <1>2 DEF Recv, Advance
<1>4. p \in {s - 1, s + 1} /\ p \in Int /\ s \in Int
  BY ShapeAssumption DEF Source, Ranks
<1>5. program \in Programs
  BY DEF InvPlaces
<1>6. /\ Target(s, What(e)) = p /\ first = e - 1
      /\ last \in Nat /\ Posted(s) \in Nat /\ (Posted(s) < e <=> last < e)
  BY <1>1, <1>3, <1>4, <1>5, Links, Ranges
<1>7. /\ first <= last
      /\ net[link] = [m \in 1..(last - first) |->
           [what |-> What(first + m), data |-> Sent(s, first + m)]]
  BY <1>3, <1>4 DEF InvMail, Mail
<1> HIDE DEF s, first, last
<1>8. last - first \in Nat \ {0}
  <2>1. CASE last - first = 0
    BY <1>3, <1>7, <2>1
  <2> QED
    BY <1>1, <1>6, <1>7, <2>1
<1>9. first + 1 = e
  BY <1>1, <1>6
<1>10. Head(net[link]).data = Sent(s, e)
  BY <1>7, <1>8, <1>9
<1>11. e <= last /\ e <= Posted(s)
  BY <1>1, <1>6, <1>8
<1>12. Taken(p)' = e /\ Posted(p)' = e - 1
  <2>1. sending'[p] = FALSE
    BY <1>1, <1>3 DEF InvPlaces
  <2> QED
    BY <1>1, <1>3, <2>1, Moves
<1>13. RecvOf(p, e, s)
  BY <1>1, <1>2, <1>3, <1>4, <1>6, <1>10, <1>11, <1>12 DEF s, first, last, RecvOf
<1> QED
  BY <1>3, <1>13 DEF s

\* A received block replaces its rows and nothing else.
Receipt(p, e, x) ==
  /\ DOMAIN x = BlockRows(Block(e))
  /\ got' = [got EXCEPT ![p][What(e)] = Overwrite(x, @)]

LEMMA RecvRows ==
  ASSUME InvPlaces, NEW p \in Ranks, NEW e \in 1..Exchanges, NEW x, Receipt(p, e, x)
  PROVE  /\ DOMAIN got' = Ranks
         /\ \A q \in Ranks : q # p => got'[q] = got[q]
         /\ DOMAIN got'[p] = {"scan", "prefix", "g_out", "adjoint"}
         /\ \A w \in Names : DOMAIN got'[p][w] = Keys
         /\ got'[p].scan = got[p].scan
         /\ \A w \in Names : w # What(e) => got'[p][w] = got[p][w]
         /\ \A i \in Keys : got'[p][What(e)][i] =
              IF i \in BlockRows(Block(e)) THEN x[i] ELSE got[p][What(e)][i]
<1> DEFINE w == What(e)
<1>1. program \in Programs /\ w \in Names /\ BlockRows(Block(e)) \subseteq Keys
  BY ScriptShape DEF InvPlaces
<1>2. /\ DOMAIN got = Ranks /\ DOMAIN got[p] = {"scan", "prefix", "g_out", "adjoint"}
      /\ \A v \in Names : DOMAIN got[p][v] = Keys
  BY DEF InvPlaces, Names
<1>3. w # "scan" /\ w \in DOMAIN got[p]
  BY <1>1, <1>2 DEF Names
<1> HIDE DEF w
<1>4. got' = [got EXCEPT ![p] = [got[p] EXCEPT ![w] = Overwrite(x, got[p][w])]]
  BY <1>2 DEF w, Receipt
<1>5. got'[p] = [got[p] EXCEPT ![w] = Overwrite(x, got[p][w])] /\ \A q \in Ranks : q # p => got'[q] = got[q]
  BY <1>2, <1>4
<1>6. /\ DOMAIN got'[p] = DOMAIN got[p] /\ got'[p][w] = Overwrite(x, got[p][w])
      /\ \A v \in DOMAIN got[p] : v # w => got'[p][v] = got[p][v]
  BY <1>3, <1>5
<1>7. /\ DOMAIN Overwrite(x, got[p][w]) = Keys
      /\ \A i \in Keys : Overwrite(x, got[p][w])[i] = IF i \in BlockRows(Block(e)) THEN x[i] ELSE got[p][w][i]
  BY <1>1, <1>2 DEF Receipt, Overwrite
<1>8. DOMAIN got' = Ranks
  BY <1>2, <1>4
<1>9. \A v \in Names : DOMAIN got'[p][v] = Keys
  <2> SUFFICES ASSUME NEW v \in Names PROVE DOMAIN got'[p][v] = Keys
    OBVIOUS
  <2>1. CASE v = w
    BY <1>6, <1>7, <2>1
  <2>2. CASE v # w
    BY <1>2, <1>6, <2>2 DEF Names
  <2> QED
    BY <2>1, <2>2
<1>10. got'[p].scan = got[p].scan /\ \A v \in Names : v # w => got'[p][v] = got[p][v]
  BY <1>2, <1>3, <1>6 DEF Names
<1> QED
  BY <1>2, <1>5, <1>6, <1>7, <1>8, <1>9, <1>10 DEF w

\* What a worker has for its neighbour depends on the rows of one block.
LEMMA OutgoingRows ==
  ASSUME program' = program, input' = input, NEW p, NEW k, NEW what \in Names,
         got'[p].scan = got[p].scan,
         what = "prefix" => \A i \in BlockRows(k) : got'[p].prefix[i] = got[p].prefix[i],
         what = "adjoint" => /\ got'[p].g_out = got[p].g_out
                             /\ \A i \in BlockRows(k) : got'[p].adjoint[i] = got[p].adjoint[i]
  PROVE  Outgoing(p, what, k)' = Outgoing(p, what, k)
<1>1. BlockRows(k)' = BlockRows(k)
  BY Frame
<1>2. CASE what = "prefix"
  <2>1. Outgoing(p, what, k) = [i \in BlockRows(k) |-> [j \in Values |->
          (got[p].scan.S_total[i][j] + got[p].scan.g_total[i] * got[p].prefix[i][j]) % Prime]]
    BY <1>2 DEF Outgoing, Matrix
  <2>2. Outgoing(p, what, k)' = [i \in BlockRows(k)' |-> [j \in Values |->
          (got'[p].scan.S_total[i][j] + got'[p].scan.g_total[i] * got'[p].prefix[i][j]) % Prime]]
    BY <1>2 DEF Outgoing, Matrix
  <2> QED
    BY <1>1, <1>2, <2>1, <2>2
<1>3. CASE what = "g_out"
  <2>1. Outgoing(p, what, k) = [i \in BlockRows(k) |-> [j \in Values |->
          DSRecv(input, p, got[p].scan)[i][j] % Prime]]
    BY <1>3 DEF Outgoing, Matrix
  <2>2. Outgoing(p, what, k)' = [i \in BlockRows(k)' |-> [j \in Values |->
          DSRecv(input, p, got[p].scan)[i][j] % Prime]]
    BY <1>3 DEF Outgoing, Matrix
  <2> QED
    BY <1>1, <2>1, <2>2
<1>4. CASE what = "adjoint"
  <2>1. Outgoing(p, what, k) = [i \in BlockRows(k) |-> [j \in Values |->
          (got[p].scan.g_total[i] * ((got[p].g_out[i][j] + got[p].adjoint[i][j]) % Prime)) % Prime]]
    BY <1>4 DEF Outgoing, Matrix, D
  <2>2. Outgoing(p, what, k)' = [i \in BlockRows(k)' |-> [j \in Values |->
          (got'[p].scan.g_total[i] * ((got'[p].g_out[i][j] + got'[p].adjoint[i][j]) % Prime)) % Prime]]
    BY <1>4 DEF Outgoing, Matrix, D
  <2> QED
    BY <1>1, <1>4, <2>1, <2>2
<1> QED
  BY <1>2, <1>3, <1>4 DEF Names

LEMMA SentRows ==
  ASSUME program' = program, input' = input, NEW p, NEW f, What(f) \in Names,
         got'[p].scan = got[p].scan,
         \A i \in BlockRows(Block(f)) : got'[p][What(f)][i] = got[p][What(f)][i],
         What(f) = "adjoint" => got'[p].g_out = got[p].g_out
  PROVE  Sent(p, f)' = Sent(p, f)
<1>1. What(f)' = What(f) /\ Block(f)' = Block(f)
  BY Frame
<1>2. PICK v, k : v = What(f) /\ k = Block(f)
  OBVIOUS
<1>3. Outgoing(p, v, k)' = Outgoing(p, v, k)
  BY <1>2, OutgoingRows
<1>4. Sent(p, f) = Outgoing(p, v, k)
  BY <1>2 DEF Sent
<1>5. Sent(p, f)' = Outgoing(p, v, k)'
  BY <1>1, <1>2 DEF Sent, Outgoing, Matrix
<1> QED
  BY <1>3, <1>4, <1>5

\* Receiving exchange e leaves alone what was sent in earlier ones.
LEMMA SentKept ==
  ASSUME InvPlaces, program' = program, input' = input,
         NEW p \in Ranks, NEW e \in 1..Exchanges, NEW x, Receipt(p, e, x),
         NEW q \in Ranks, NEW f \in 1..Exchanges, q = p => f < e
  PROVE  Sent(q, f)' = Sent(q, f)
<1>1. /\ program \in Programs /\ What(f) \in Names /\ What(e) \in Names
      /\ What(f)' = What(f) /\ Block(f)' = Block(f)
      /\ BlockRows(Block(f)) \subseteq Keys
      /\ q = p => /\ What(e) # What(f) \/ BlockRows(Block(e)) \cap BlockRows(Block(f)) = {}
                  /\ What(f) = "adjoint" => What(e) # "g_out"
  BY ScriptShape, Frame DEF InvPlaces
<1>2. CASE q # p
  <2>1. got'[q] = got[q]
    BY <1>2, RecvRows
  <2> QED
    BY <1>1, <2>1, SentRows
<1>3. CASE q = p
  <2>1. /\ got'[p].scan = got[p].scan
        /\ \A w \in Names : w # What(e) => got'[p][w] = got[p][w]
        /\ \A i \in Keys : got'[p][What(e)][i] =
             IF i \in BlockRows(Block(e)) THEN x[i] ELSE got[p][What(e)][i]
    BY RecvRows
  <2>2. \A i \in BlockRows(Block(f)) : got'[p][What(f)][i] = got[p][What(f)][i]
    BY <1>1, <1>3, <2>1
  <2>3. What(f) = "adjoint" => got'[p].g_out = got[p].g_out
    BY <1>1, <1>3, <2>1 DEF Names
  <2> QED
    BY <1>1, <1>3, <2>1, <2>2, <2>3, SentRows
<1> QED
  BY <1>2, <1>3

\* p adds exchange e to the link to t.
SendOf(p, e, t) ==
  /\ at[p] = 2 * e /\ t = Target(p, What(e)) /\ t \in {p - 1, p + 1}
  /\ Posted(p) = e - 1 /\ Posted(p)' = e /\ Taken(p)' = Taken(p)
  /\ net' = [net EXCEPT ![<<p, t>>] = Append(@, [what |-> What(e), data |-> Sent(p, e)])]
  /\ sending' = [sending EXCEPT ![p] = TRUE]
  /\ program' = program /\ input' = input /\ got' = got /\ at' = at
  /\ queue' = queue /\ collected' = collected

LEMMA SendStep ==
  ASSUME TorchInv, NEW p \in Ranks, Send(p)
  PROVE  \E e \in 1..Exchanges, t \in Ranks : SendOf(p, e, t)
<1> USE DEF TorchInv
<1>1. PICK e \in 1..Exchanges :
        /\ at[p] = 2 * e /\ ~sending[p] /\ Step(p) = <<"send", What(e), Block(e)>>
        /\ Posted(p) = e - 1
  <2>1. Running(p) /\ Step(p)[1] = "send" /\ ~sending[p]
    BY DEF Send
  <2> QED
    BY <2>1, Place DEF PutResult
<1> DEFINE t == Target(p, What(e))
<1>2. Step(p)[2] = What(e) /\ Step(p)[3] = Block(e)
  BY <1>1
<1>3. /\ t \in Ranks
      /\ net' = [net EXCEPT ![<<p, t>>] = Append(@, [what |-> What(e), data |-> Sent(p, e)])]
      /\ sending' = [sending EXCEPT ![p] = TRUE]
      /\ program' = program /\ input' = input /\ got' = got /\ at' = at
      /\ queue' = queue /\ collected' = collected
  BY <1>2 DEF Send, Sent
<1>4. t \in {p - 1, p + 1}
  BY DEF Target
<1>5. program \in Programs /\ Exchanges \in Nat /\ sending'[p] = TRUE /\ at'[p] = 2 * e
  BY <1>1, <1>3, ScriptShape DEF InvPlaces
<1>6. Posted(p)' = e
  <2>1. (2 * e - 1) \div 2 = e - 1
    BY <1>5, Counts
  <2> QED
    BY <1>5, <2>1 DEF Posted
<1>7. Taken(p)' = Taken(p)
  BY <1>3, Frame DEF Taken
<1>8. SendOf(p, e, t)
  BY <1>1, <1>3, <1>4, <1>6, <1>7 DEF SendOf
<1> QED
  BY <1>3, <1>8

\* The other steps: nothing moves on a link between two ranks.
Quiet ==
  \/ Collect
  \/ UNCHANGED vars
  \/ \E p \in Ranks : Skip(p) \/ SendReturns(p) \/ Put(p) \/ Raise(p) \/ PeerLost(p)

\* A place at which p takes and posts nothing that has another end.
LEMMA SkipStep ==
  ASSUME TorchInv, NEW p \in Ranks, Skip(p) \/ SendReturns(p) \/ Put(p)
  PROVE  /\ at' = [at EXCEPT ![p] = @ + 1] /\ sending'[p] = FALSE
         /\ Running(p) /\ program' = program /\ input' = input /\ net' = net /\ got' = got
         /\ \A q \in Ranks : q # p => sending'[q] = sending[q]
         /\ sending' \in [Ranks -> BOOLEAN]
         /\ \A q \in Ranks : \A e \in 1..Exchanges :
              /\ Source(p, What(e)) = q => (e <= Taken(p)' <=> e <= Taken(p))
              /\ Target(p, What(e)) = q => (e <= Posted(p)' <=> e <= Posted(p))
<1> USE DEF TorchInv
<1>1. /\ at' = [at EXCEPT ![p] = @ + 1] /\ sending'[p] = FALSE
      /\ Running(p) /\ program' = program /\ input' = input /\ net' = net /\ got' = got
      /\ \A q \in Ranks : q # p => sending'[q] = sending[q]
      /\ sending' \in [Ranks -> BOOLEAN]
  <2>1. sending \in [Ranks -> BOOLEAN]
    BY DEF InvPlaces
  <2>2. CASE Skip(p)
    BY <2>1, <2>2 DEF Skip, Advance
  <2>3. CASE SendReturns(p)
    BY <2>1, <2>3 DEF SendReturns, Advance
  <2>4. CASE Put(p)
    <3>1. Running(p) /\ Step(p)[1] = "put"
      BY <2>4 DEF Put
    <3>2. ~sending[p]
      BY <3>1, Place
    <3> QED
      BY <2>1, <2>4, <3>2 DEF Put, Advance
  <2> QED
    BY <2>2, <2>3, <2>4
<1>2. program \in Programs /\ Exchanges \in Nat \ {0}
  BY ScriptShape DEF InvPlaces
<1>3. ASSUME NEW q \in Ranks, NEW f \in 1..Exchanges
      PROVE  /\ Source(p, What(f)) = q => (f <= Taken(p)' <=> f <= Taken(p))
             /\ Target(p, What(f)) = q => (f <= Posted(p)' <=> f <= Posted(p))
  <2>1. CASE \E e \in 1..Exchanges :
               /\ at[p] = 2 * e - 1 /\ ~sending[p] /\ Step(p) = <<"recv", What(e), Block(e)>>
               /\ Taken(p) = e - 1 /\ Posted(p) = e - 1
    <3>1. PICK e \in 1..Exchanges :
            /\ at[p] = 2 * e - 1 /\ ~sending[p] /\ Step(p) = <<"recv", What(e), Block(e)>>
            /\ Taken(p) = e - 1 /\ Posted(p) = e - 1
      BY <2>1
    <3>2. Source(p, What(e)) \notin Ranks
      <4>1. ~SendReturns(p)
        BY <3>1 DEF SendReturns
      <4>2. ~Put(p)
        BY <3>1 DEF Put
      <4> QED
        BY <3>1, <4>1, <4>2 DEF Skip
    <3>3. Taken(p)' = e /\ Posted(p)' = e - 1
      BY <1>1, <3>1, Moves
    <3>4. CASE f = e
      BY <3>1, <3>2, <3>3, <3>4
    <3>5. CASE f # e
      BY <1>2, <3>1, <3>3, <3>5
    <3> QED
      BY <3>4, <3>5
  <2>2. CASE \E e \in 1..Exchanges :
               /\ at[p] = 2 * e /\ Step(p) = <<"send", What(e), Block(e)>>
               /\ Taken(p) = e /\ Posted(p) = IF sending[p] THEN e ELSE e - 1
    <3>1. PICK e \in 1..Exchanges :
            /\ at[p] = 2 * e /\ Step(p) = <<"send", What(e), Block(e)>>
            /\ Taken(p) = e /\ Posted(p) = IF sending[p] THEN e ELSE e - 1
      BY <2>2
    <3>2. sending[p] \/ Target(p, What(e)) \notin Ranks
      <4>1. ~Put(p)
        BY <3>1 DEF Put
      <4> QED
        BY <3>1, <4>1 DEF Skip, SendReturns
    <3>3. Taken(p)' = e /\ Posted(p)' = e
      BY <1>1, <3>1, Moves
    <3>4. CASE f = e
      BY <3>1, <3>2, <3>3, <3>4
    <3>5. CASE f # e
      BY <1>2, <3>1, <3>3, <3>5
    <3> QED
      BY <3>4, <3>5
  <2>3. CASE at[p] = 2 * Exchanges + 1 /\ Taken(p) = Exchanges /\ Posted(p) = Exchanges
    BY <1>1, <2>3, Moves
  <2> QED
    BY <1>1, <2>1, <2>2, <2>3, Place
<1> QED
  BY <1>1, <1>3

\* A link moves only when an exchange that goes its way does.
LEMMA UptoSame ==
  ASSUME program \in Programs, NEW p \in Ranks, NEW q \in Ranks, q \in {p - 1, p + 1},
         NEW n \in 0..Exchanges, NEW m \in 0..Exchanges,
         \A e \in 1..Exchanges : Target(p, What(e)) = q => (e <= n <=> e <= m)
  PROVE  Upto(p, q, n) = Upto(p, q, m)
<1>1. p \in Int /\ q \in Int
  BY ShapeAssumption DEF Ranks
<1>2. Exchanges \in Nat /\ Ups \in 0..Exchanges /\ \A e \in 1..Exchanges : Up(What(e)) <=> e <= Ups
  BY ScriptShape
<1>3. CASE q = p + 1
  <2>1. \A e \in 1..Exchanges : e <= Ups => (e <= n <=> e <= m)
    BY <1>1, <1>2, <1>3 DEF Target
  <2>2. n \in 1..Exchanges => (n <= Ups => n <= m)
    BY <2>1, <1>2
  <2>3. m \in 1..Exchanges => (m <= Ups => m <= n)
    BY <2>1, <1>2
  <2>4. Ups \in 1..Exchanges => (Ups <= n <=> Ups <= m)
    BY <2>1, <1>2
  <2> QED
    BY <1>1, <1>2, <1>3, <2>2, <2>3, <2>4 DEF Upto
<1>4. CASE q = p - 1
  <2>1. \A e \in 1..Exchanges : ~(e <= Ups) => (e <= n <=> e <= m)
    BY <1>1, <1>2, <1>4 DEF Target
  <2>2. n \in 1..Exchanges => (n > Ups => n <= m)
    BY <2>1, <1>2
  <2>3. m \in 1..Exchanges => (m > Ups => m <= n)
    BY <2>1, <1>2
  <2> QED
    BY <1>1, <1>2, <1>4, <2>2, <2>3 DEF Upto
<1> QED
  BY <1>3, <1>4

LEMMA QuietLinks ==
  ASSUME TorchInv, Quiet
  PROVE  /\ program' = program /\ input' = input /\ net' = net /\ got' = got
         /\ \A p, q \in Ranks : q \in {p - 1, p + 1} =>
              /\ Upto(p, q, Taken(q))' = Upto(p, q, Taken(q))
              /\ Upto(p, q, Posted(p))' = Upto(p, q, Posted(p))
         /\ \A q \in Ranks, e \in 1..Exchanges :
              Source(q, What(e)) \in Ranks => (e <= Taken(q)' <=> e <= Taken(q))
<1> USE DEF TorchInv
<1>1. program \in Programs /\ Exchanges \in Nat \ {0}
  BY ScriptShape DEF InvPlaces
<1>2. CASE Collect \/ UNCHANGED vars \/ \E r \in Ranks : Raise(r) \/ PeerLost(r)
  <2>1. /\ program' = program /\ input' = input /\ net' = net /\ got' = got
        /\ at' = at /\ sending' = sending
    <3>1. CASE Collect
      BY <3>1 DEF Collect
    <3>2. CASE UNCHANGED vars
      BY <3>2 DEF vars
    <3>3. CASE \E r \in Ranks : Raise(r)
      BY <3>3 DEF Raise
    <3>4. CASE \E r \in Ranks : PeerLost(r)
      BY <3>4 DEF PeerLost
    <3> QED
      BY <1>2, <3>1, <3>2, <3>3, <3>4
  <2>2. \A q \in Ranks : Taken(q)' = Taken(q) /\ Posted(q)' = Posted(q)
    BY <2>1, Still
  <2>3. ASSUME NEW p \in Ranks, NEW q \in Ranks
        PROVE  /\ Upto(p, q, Taken(q))' = Upto(p, q, Taken(q))
               /\ Upto(p, q, Posted(p))' = Upto(p, q, Posted(p))
    BY <2>1, <2>2, Frame DEF Upto
  <2> QED
    BY <2>1, <2>2, <2>3
<1>3. CASE \E r \in Ranks : Skip(r) \/ SendReturns(r) \/ Put(r)
  <2>1. PICK r \in Ranks : Skip(r) \/ SendReturns(r) \/ Put(r)
    BY <1>3
  <2>2. /\ at' = [at EXCEPT ![r] = @ + 1] /\ sending'[r] = FALSE
        /\ Running(r) /\ program' = program /\ input' = input /\ net' = net /\ got' = got
        /\ \A q \in Ranks : q # r => sending'[q] = sending[q]
        /\ \A q \in Ranks : \A e \in 1..Exchanges :
             /\ Source(r, What(e)) = q => (e <= Taken(r)' <=> e <= Taken(r))
             /\ Target(r, What(e)) = q => (e <= Posted(r)' <=> e <= Posted(r))
    BY <2>1, SkipStep
  <2>3. \A q \in Ranks : q # r => Taken(q)' = Taken(q) /\ Posted(q)' = Posted(q)
    <3>1. \A q \in Ranks : q # r => at'[q] = at[q]
      BY <2>2 DEF InvPlaces
    <3> QED
      BY <2>2, <3>1, Still
  <2>4. Taken(r)' \in 0..Exchanges /\ Posted(r)' \in 0..Exchanges
    BY <2>2, Moves
  <2>5. \A q \in Ranks : /\ Taken(q) \in 0..Exchanges /\ Posted(q) \in 0..Exchanges
                         /\ Taken(q)' \in 0..Exchanges /\ Posted(q)' \in 0..Exchanges
    BY <2>3, <2>4, Ranges
  <2>6. ASSUME NEW p \in Ranks, NEW q \in Ranks, q \in {p - 1, p + 1}
        PROVE  /\ Upto(p, q, Taken(q)') = Upto(p, q, Taken(q))
               /\ Upto(p, q, Posted(p)') = Upto(p, q, Posted(p))
    <3>1. \A e \in 1..Exchanges : Target(p, What(e)) = q <=> Source(q, What(e)) = p
      BY <1>1, <2>6, Links
    <3>2. \A e \in 1..Exchanges : Target(p, What(e)) = q => (e <= Taken(q)' <=> e <= Taken(q))
      BY <2>2, <2>3, <3>1
    <3>3. \A e \in 1..Exchanges : Target(p, What(e)) = q => (e <= Posted(p)' <=> e <= Posted(p))
      BY <2>2, <2>3
    <3>4. ASSUME NEW n \in 0..Exchanges, NEW m \in 0..Exchanges,
                 \A e \in 1..Exchanges : Target(p, What(e)) = q => (e <= n <=> e <= m)
          PROVE  Upto(p, q, n) = Upto(p, q, m)
      BY <1>1, <2>6, <3>4, UptoSame
    <3> QED
      BY <2>5, <3>2, <3>3, <3>4
  <2>7. \A p, q \in Ranks : q \in {p - 1, p + 1} =>
          /\ Upto(p, q, Taken(q))' = Upto(p, q, Taken(q))
          /\ Upto(p, q, Posted(p))' = Upto(p, q, Posted(p))
    BY <2>2, <2>6, Frame DEF Upto
  <2>8. \A q \in Ranks, e \in 1..Exchanges :
          Source(q, What(e)) \in Ranks => (e <= Taken(q)' <=> e <= Taken(q))
    BY <2>2, <2>3
  <2> QED
    BY <2>2, <2>7, <2>8
<1> QED
  BY <1>2, <1>3 DEF Quiet

-----------------------------------------------------------------------------
(* TorchInv holds initially *)

LEMMA FreshShape ==
  ASSUME NEW prog, NEW in, NEW p \in Ranks
  PROVE  /\ DOMAIN Fresh(prog, in) = Ranks
         /\ DOMAIN Fresh(prog, in)[p] = {"scan", "prefix", "g_out", "adjoint"}
         /\ \A w \in Names : DOMAIN Fresh(prog, in)[p][w] = Keys
         /\ Fresh(prog, in)[p].adjoint = Zero
         /\ prog # "allscan_backward" => \A w \in Names : Fresh(prog, in)[p][w] = Zero
<1> DEFINE scan == [q \in Ranks |-> gla_chunk_scan(in, q)]
           F == [q \in Ranks |->
                  [scan    |-> scan[q],
                   prefix  |-> IF prog = "allscan_backward" THEN FwdRecv(scan)[q] ELSE Zero,
                   g_out   |-> IF prog = "allscan_backward" THEN MakeGradInputs(in, q) ELSE Zero,
                   adjoint |-> Zero]]
<1>1. Fresh(prog, in) = F
  BY DEF Fresh
<1>2. DOMAIN Zero = Keys
  BY DEF Zero
<1>3. DOMAIN MakeGradInputs(in, p) = Keys
  BY DEF MakeGradInputs, Matrix
<1>4. DOMAIN FwdRecv(scan)[p] = Keys
  <2> HIDE DEF scan
  <2>1. CASE p = 0
    BY <1>2, <2>1 DEF FwdRecv
  <2>2. CASE p # 0
    <3>1. p - 1 \in Ranks
      BY <2>2, ShapeAssumption DEF Ranks
    <3>2. FwdRecv(scan)[p] = ExpectedAllScan(scan)[p - 1]
      BY <2>2 DEF FwdRecv
    <3>3. DOMAIN ExpectedAllScan(scan)[p - 1] = Keys
      BY <3>1 DEF ExpectedAllScan
    <3> QED
      BY <3>2, <3>3
  <2> QED
    BY <2>1, <2>2
<1>5. /\ F[p] = [scan    |-> scan[p],
                 prefix  |-> IF prog = "allscan_backward" THEN FwdRecv(scan)[p] ELSE Zero,
                 g_out   |-> IF prog = "allscan_backward" THEN MakeGradInputs(in, p) ELSE Zero,
                 adjoint |-> Zero]
      /\ DOMAIN F = Ranks
  OBVIOUS
<1> HIDE DEF F, scan
<1> QED
  BY <1>1, <1>2, <1>3, <1>4, <1>5 DEF Names

LEMMA TorchInit == Init => TorchInv
<1> SUFFICES ASSUME Init PROVE TorchInv
  OBVIOUS
<1>1. /\ program \in Programs /\ input \in Inputs /\ at = [p \in Ranks |-> 1] /\ sending = [p \in Ranks |-> FALSE]
      /\ net = [link \in Ranks \X Ranks |-> <<>>] /\ got = Fresh(program, input)
      /\ queue = {} /\ collected = <<>>
  BY DEF Init
<1>2. Exchanges \in Nat \ {0} /\ Ups \in 0..Exchanges
  BY <1>1, ScriptShape
<1>3. \A p \in Ranks : Taken(p) = 0 /\ Posted(p) = 0
  <2>1. ~(1 > 2 * Exchanges) /\ 1 \div 2 = 0 /\ (1 - 1) \div 2 = 0
    BY <1>2
  <2> QED
    BY <1>1, <2>1 DEF Taken, Posted
<1>4. InvPlaces
  <2>1. 1 \in 1..(2 * Exchanges + 2)
    BY <1>2
  <2>2. DOMAIN got = Ranks \/ Ranks = {}
    BY <1>1, FreshShape
  <2>3. Ranks # {}
    BY ShapeAssumption DEF Ranks
  <2> QED
    BY <1>1, <2>1, <2>2, <2>3, FreshShape DEF InvPlaces, Names
<1>5. InvMail
  <2> SUFFICES ASSUME NEW p \in Ranks, NEW q \in Ranks, q \in {p - 1, p + 1}
               PROVE  Mail(p, q, Upto(p, q, Taken(q)), Upto(p, q, Posted(p)))
    BY DEF InvMail
  <2>1. PICK n : n = Upto(p, q, 0)
    OBVIOUS
  <2>2. n \in Nat
    BY <1>2, <2>1 DEF Upto
  <2>3. Mail(p, q, n, n)
    <3>1. n <= n /\ 1..(n - n) = {}
      BY <2>2
    <3>2. net[<<p, q>>] = <<>>
      BY <1>1
    <3>3. [m \in {} |-> [what |-> What(n + m), data |-> Sent(p, n + m)]] = <<>>
      OBVIOUS
    <3> QED
      BY <3>1, <3>2, <3>3 DEF Mail
  <2> QED
    BY <1>3, <2>1, <2>3
<1>6. InvGot
  <2> SUFFICES ASSUME NEW q \in Ranks
               PROVE  \A e \in 1..Exchanges :
                        /\ ~(e <= Taken(q))
                        /\ \A i \in BlockRows(Block(e)) : got[q][What(e)][i] = Zero[i]
    BY <1>1 DEF InvGot, Names
  <2> TAKE e \in 1..Exchanges
  <2>1. ~(e <= Taken(q))
    BY <1>2, <1>3
  <2>2. got[q][What(e)] = Zero
    <3>1. What(e) \in Names /\ (program = "allscan_backward" => What(e) = "adjoint")
      BY <1>1, ScriptShape
    <3> QED
      BY <1>1, <3>1, FreshShape
  <2> QED
    BY <2>1, <2>2
<1>7. InvResults
  BY <1>1 DEF InvResults
<1> QED
  BY <1>4, <1>5, <1>6, <1>7 DEF TorchInv

-----------------------------------------------------------------------------
(* Every step preserves TorchInv *)

LEMMA Kinds == ASSUME [Next]_vars
               PROVE  Quiet \/ \E p \in Ranks : Recv(p) \/ Send(p)
  BY DEF Next, Quiet

LEMMA ReceiptOfRecv ==
  ASSUME InvPlaces, NEW p \in Ranks, NEW e \in 1..Exchanges, NEW s,
         got' = [got EXCEPT ![p][What(e)] = Overwrite(Sent(s, e), @)]
  PROVE  Receipt(p, e, Sent(s, e))
  BY DEF Receipt, Sent, Outgoing, Matrix

LEMMA PlacesKept ==
  ASSUME TorchInv, program' = program, input' = input,
         at' \in [Ranks -> 1..(2 * Exchanges + 2)], sending' \in [Ranks -> BOOLEAN],
         DOMAIN net' = Ranks \X Ranks, DOMAIN got' = Ranks,
         \A p \in Ranks : /\ DOMAIN got'[p] = {"scan", "prefix", "g_out", "adjoint"}
                          /\ \A w \in Names : DOMAIN got'[p][w] = Keys,
         \A p \in Ranks : sending'[p] =>
           \E e \in 1..Exchanges : at'[p] = 2 * e /\ Target(p, What(e)) \in Ranks
  PROVE  InvPlaces'
<1>1. program \in Programs /\ input \in Inputs /\ Exchanges' = Exchanges /\ Exchanges \in Nat
  BY ScriptShape, Frame DEF TorchInv, InvPlaces
<1>2. ASSUME NEW p \in Ranks, sending'[p]
      PROVE  /\ at'[p] \in {2 * e : e \in 1..Exchanges}
             /\ Target(p, What(at[p] \div 2))' \in Ranks
  <2>1. PICK e \in 1..Exchanges : at'[p] = 2 * e /\ Target(p, What(e)) \in Ranks
    BY <1>2
  <2>2. at'[p] \div 2 = e
    BY <1>1, <2>1
  <2>3. What(at[p] \div 2)' = What(e)
    BY <2>2, Frame DEF What
  <2>4. Target(p, What(at[p] \div 2))' = Target(p, What(e))
    BY <2>3 DEF Target, Up
  <2> QED
    BY <2>1, <2>4
<1> QED
  BY <1>1, <1>2 DEF InvPlaces, Names

LEMMA SendingPlace ==
  ASSUME InvPlaces, NEW p \in Ranks, sending[p]
  PROVE  \E e \in 1..Exchanges : at[p] = 2 * e /\ Target(p, What(e)) \in Ranks
<1>1. PICK e \in 1..Exchanges : at[p] = 2 * e
  BY DEF InvPlaces
<1>2. Exchanges \in Nat
  BY ScriptShape DEF InvPlaces
<1>3. at[p] \div 2 = e
  BY <1>1, <1>2
<1> QED
  BY <1>1, <1>3 DEF InvPlaces

LEMMA PlacesStep == ASSUME TorchInv, [Next]_vars PROVE InvPlaces'
<1> USE DEF TorchInv
<1>1. /\ program \in Programs /\ Exchanges \in Nat \ {0}
      /\ at \in [Ranks -> 1..(2 * Exchanges + 2)] /\ sending \in [Ranks -> BOOLEAN]
      /\ DOMAIN net = Ranks \X Ranks /\ DOMAIN got = Ranks
      /\ \A p \in Ranks : /\ DOMAIN got[p] = {"scan", "prefix", "g_out", "adjoint"}
                          /\ \A w \in Names : DOMAIN got[p][w] = Keys
  BY ScriptShape DEF InvPlaces, Names
<1>2. CASE Collect \/ UNCHANGED vars \/ \E r \in Ranks : Raise(r) \/ PeerLost(r)
  <2>1. /\ program' = program /\ input' = input /\ net' = net /\ got' = got
        /\ at' = at /\ sending' = sending
    <3>1. CASE Collect
      BY <3>1 DEF Collect
    <3>2. CASE UNCHANGED vars
      BY <3>2 DEF vars
    <3>3. CASE \E r \in Ranks : Raise(r)
      BY <3>3 DEF Raise
    <3>4. CASE \E r \in Ranks : PeerLost(r)
      BY <3>4 DEF PeerLost
    <3> QED
      BY <1>2, <3>1, <3>2, <3>3, <3>4
  <2> QED
    BY <1>1, <2>1, SendingPlace, PlacesKept
<1>3. ASSUME NEW r \in Ranks, Skip(r) \/ SendReturns(r) \/ Put(r)
      PROVE  InvPlaces'
  <2>1. /\ at' = [at EXCEPT ![r] = @ + 1] /\ sending'[r] = FALSE
        /\ Running(r) /\ program' = program /\ input' = input /\ net' = net /\ got' = got
        /\ \A q \in Ranks : q # r => sending'[q] = sending[q]
        /\ sending' \in [Ranks -> BOOLEAN]
    BY <1>3, SkipStep
  <2>2. at'[r] \in 1..(2 * Exchanges + 2)
    BY <2>1, Moves
  <2>3. \A q \in Ranks : q # r => at'[q] = at[q]
    BY <1>1, <2>1
  <2>4. at' \in [Ranks -> 1..(2 * Exchanges + 2)]
    BY <1>1, <2>1, <2>2
  <2>5. \A q \in Ranks : sending'[q] => q # r
    BY <2>1
  <2>6. \A q \in Ranks : sending'[q] =>
          \E e \in 1..Exchanges : at'[q] = 2 * e /\ Target(q, What(e)) \in Ranks
    BY <2>1, <2>3, <2>5, SendingPlace
  <2> QED
    BY <1>1, <2>1, <2>4, <2>6, PlacesKept
<1>4. ASSUME NEW p \in Ranks, Recv(p)
      PROVE  InvPlaces'
  <2>0. PICK e \in 1..Exchanges, s \in Ranks : RecvOf(p, e, s)
    BY <1>4, RecvStep
  <2>1. /\ at[p] = 2 * e - 1
        /\ got' = [got EXCEPT ![p][What(e)] = Overwrite(Sent(s, e), @)]
        /\ net' = [net EXCEPT ![<<s, p>>] = Tail(@)]
        /\ at' = [at EXCEPT ![p] = @ + 1] /\ sending' = sending /\ ~sending[p]
        /\ program' = program /\ input' = input
    BY <2>0 DEF RecvOf
  <2>2. /\ DOMAIN got' = Ranks
        /\ \A q \in Ranks : q # p => got'[q] = got[q]
        /\ DOMAIN got'[p] = {"scan", "prefix", "g_out", "adjoint"}
        /\ \A w \in Names : DOMAIN got'[p][w] = Keys
    BY <2>1, ReceiptOfRecv, RecvRows
  <2>3. at' \in [Ranks -> 1..(2 * Exchanges + 2)]
    <3>1. at[p] + 1 \in 1..(2 * Exchanges + 2)
      BY <1>1, <2>1
    <3> QED
      BY <1>1, <2>1, <3>1
  <2>4. \A q \in Ranks : q # p => at'[q] = at[q]
    BY <1>1, <2>1
  <2>5. \A q \in Ranks : sending'[q] =>
          \E f \in 1..Exchanges : at'[q] = 2 * f /\ Target(q, What(f)) \in Ranks
    <3>1. \A q \in Ranks : sending'[q] => q # p /\ sending[q]
      BY <2>1
    <3> QED
      BY <2>4, <3>1, SendingPlace
  <2>6. \A q \in Ranks : /\ DOMAIN got'[q] = {"scan", "prefix", "g_out", "adjoint"}
                         /\ \A w \in Names : DOMAIN got'[q][w] = Keys
    BY <1>1, <2>2
  <2>7. DOMAIN net' = Ranks \X Ranks
    BY <1>1, <2>1
  <2> QED
    BY <1>1, <2>1, <2>2, <2>3, <2>5, <2>6, <2>7, PlacesKept
<1>5. ASSUME NEW p \in Ranks, Send(p)
      PROVE  InvPlaces'
  <2>0. PICK e \in 1..Exchanges, t \in Ranks : SendOf(p, e, t)
    BY <1>5, SendStep
  <2>1. /\ at[p] = 2 * e /\ t = Target(p, What(e))
        /\ net' = [net EXCEPT ![<<p, t>>] = Append(@, [what |-> What(e), data |-> Sent(p, e)])]
        /\ sending' = [sending EXCEPT ![p] = TRUE]
        /\ program' = program /\ input' = input /\ got' = got /\ at' = at
    BY <2>0 DEF SendOf
  <2>2. sending' \in [Ranks -> BOOLEAN] /\ DOMAIN net' = Ranks \X Ranks
    BY <1>1, <2>1
  <2>3. \A q \in Ranks : q # p => sending'[q] = sending[q]
    BY <1>1, <2>1
  <2>4. \A q \in Ranks : sending'[q] =>
          \E f \in 1..Exchanges : at'[q] = 2 * f /\ Target(q, What(f)) \in Ranks
    BY <2>1, <2>3, SendingPlace
  <2> QED
    BY <1>1, <2>1, <2>2, <2>4, PlacesKept
<1> QED
  BY <1>2, <1>3, <1>4, <1>5, Kinds DEF Quiet

\* The messages of exchanges a + 1 to b of p.
Messages(p, a, b) == [m \in 1..(b - a) |-> [what |-> What(a + m), data |-> Sent(p, a + m)]]

LEMMA MessagesTail ==
  ASSUME NEW p, NEW a \in Nat, NEW b \in Nat, a < b
  PROVE  Tail(Messages(p, a, b)) = Messages(p, a + 1, b)
<1> DEFINE s == Messages(p, a, b)
           S == {s[m] : m \in 1..(b - a)}
<1>1. s \in Seq(S) /\ Len(s) = b - a
  <2>1. b - a \in Nat /\ s = [m \in 1..(b - a) |-> s[m]]
    BY DEF Messages
  <2>2. PICK n \in Nat : n = b - a
    BY <2>1
  <2>3. s \in [1..n -> S]
    BY <2>1, <2>2
  <2> HIDE DEF s, S
  <2> QED
    BY <2>2, <2>3, LenProperties
<1>2. s # <<>>
  BY <1>1
<1>3. \A m \in 1..(b - a) : s[m] = [what |-> What(a + m), data |-> Sent(p, a + m)]
  BY DEF Messages
<1> HIDE DEF s, S
<1>4. PICK n \in Nat : n = b - (a + 1)
  OBVIOUS
<1> DEFINE t == Tail(s)
<1>5. /\ t \in Seq(S) /\ Len(t) = n
      /\ \A i \in 1..n : t[i] = s[i + 1]
  BY <1>1, <1>2, <1>4, HeadTailProperties
<1> HIDE DEF t
<1>6. t = [m \in 1..n |-> t[m]]
  BY <1>5
<1>7. \A m \in 1..n : t[m] = [what |-> What((a + 1) + m), data |-> Sent(p, (a + 1) + m)]
  <2> TAKE m \in 1..n
  <2>1. m + 1 \in 1..(b - a) /\ a + (m + 1) = (a + 1) + m
    BY <1>4
  <2> QED
    BY <1>3, <1>5, <2>1
<1> QED
  BY <1>4, <1>6, <1>7 DEF t, s, Messages

LEMMA MessagesAppend ==
  ASSUME NEW p, NEW a \in Nat, NEW b \in Nat, a <= b
  PROVE  Append(Messages(p, a, b), [what |-> What(b + 1), data |-> Sent(p, b + 1)])
           = Messages(p, a, b + 1)
<1> DEFINE x == [what |-> What(b + 1), data |-> Sent(p, b + 1)]
           s == Messages(p, a, b)
           S == {s[m] : m \in 1..(b - a)} \cup {x}
           t == Append(s, x)
<1>0. PICK n \in Nat : n = b - a
  OBVIOUS
<1>1. s \in Seq(S) /\ Len(s) = n
  <2>1. s = [m \in 1..n |-> s[m]]
    BY <1>0 DEF Messages
  <2>3. s \in [1..n -> S]
    BY <2>1, <1>0
  <2> HIDE DEF s, S
  <2> QED
    BY <2>3, LenProperties
<1>2. \A m \in 1..n : s[m] = [what |-> What(a + m), data |-> Sent(p, a + m)]
  BY <1>0 DEF Messages
<1>3. x \in S
  OBVIOUS
<1> HIDE DEF s, S, x
<1>4. /\ t \in Seq(S) /\ Len(t) = n + 1 /\ t[n + 1] = x
      /\ \A i \in 1..n : t[i] = s[i]
  BY <1>1, <1>3, AppendProperties
<1> HIDE DEF t
<1>5. t = [m \in 1..(n + 1) |-> t[m]]
  BY <1>4
<1>6. \A m \in 1..(n + 1) : t[m] = [what |-> What(a + m), data |-> Sent(p, a + m)]
  <2> TAKE m \in 1..(n + 1)
  <2>1. CASE m \in 1..n
    BY <1>2, <1>4, <2>1
  <2>2. CASE m = n + 1
    <3>1. a + m = b + 1
      BY <1>0, <2>2
    <3> QED
      BY <1>4, <2>2, <3>1 DEF x
  <2> QED
    BY <2>1, <2>2
<1>7. (b + 1) - a = n + 1
  BY <1>0
<1> QED
  BY <1>5, <1>6, <1>7 DEF t, s, x, Messages

LEMMA MessagesKept ==
  ASSUME program' = program, input' = input, NEW p, NEW a, NEW b,
         \A m \in 1..(b - a) : Sent(p, a + m)' = Sent(p, a + m)
  PROVE  Messages(p, a, b)' = Messages(p, a, b)
<1>1. \A m \in 1..(b - a) : What(a + m)' = What(a + m)
  BY Frame
<1> QED
  BY <1>1 DEF Messages

LEMMA SentSame ==
  ASSUME program' = program, input' = input, got' = got
  PROVE  \A p, f : Sent(p, f)' = Sent(p, f)
<1> TAKE p, f
<1>1. PICK v, k : v = What(f) /\ k = Block(f)
  OBVIOUS
<1>2. What(f)' = v /\ Block(f)' = k /\ BlockRows(k)' = BlockRows(k)
  BY <1>1, Frame
<1>3. Outgoing(p, v, k)' = Outgoing(p, v, k)
  BY <1>2 DEF Outgoing, Matrix
<1> QED
  BY <1>1, <1>2, <1>3 DEF Sent, Outgoing, Matrix

\* A link holds messages of exchanges that went its way and are posted.
LEMMA OnLink ==
  ASSUME InvPlaces, NEW p \in Ranks, NEW q \in Ranks, q \in {p - 1, p + 1},
         NEW f \in Nat, Upto(p, q, Taken(q)) < f, f <= Upto(p, q, Posted(p))
  PROVE  f \in 1..Exchanges /\ f <= Posted(p) /\ Taken(q) < f /\ Target(p, What(f)) = q
<1>1. program \in Programs /\ Exchanges \in Nat \ {0}
  BY ScriptShape DEF InvPlaces
<1>2. Taken(q) \in 0..Exchanges /\ Posted(p) \in 0..Exchanges
  BY Ranges
<1>3. 1 \in 1..Exchanges
  BY <1>1
<1>4. Upto(p, q, Taken(q)) \in 0..Exchanges /\ Upto(p, q, Posted(p)) \in 0..Exchanges
  BY <1>1, <1>2, <1>3, Links
<1>5. f \in 1..Exchanges
  BY <1>1, <1>4
<1>6. Target(p, What(f)) = q
  BY <1>1, <1>2, <1>5, Links
<1>7. (Upto(p, q, Taken(q)) < f <=> Taken(q) < f) /\ (Upto(p, q, Posted(p)) < f <=> Posted(p) < f)
  BY <1>1, <1>2, <1>5, <1>6, Links
<1> QED
  BY <1>1, <1>2, <1>4, <1>5, <1>6, <1>7

LEMMA MailIs ==
  ASSUME InvPlaces, InvMail, NEW p \in Ranks, NEW q \in Ranks, q \in {p - 1, p + 1},
         NEW a, NEW b, a = Upto(p, q, Taken(q)), b = Upto(p, q, Posted(p))
  PROVE  /\ a \in Nat /\ b \in Nat /\ a <= b /\ net[<<p, q>>] = Messages(p, a, b)
<1>1. program \in Programs /\ Exchanges \in Nat \ {0} /\ 1 \in 1..Exchanges
  BY ScriptShape DEF InvPlaces
<1>2. Taken(q) \in 0..Exchanges /\ Posted(p) \in 0..Exchanges
  BY Ranges
<1>3. Upto(p, q, Taken(q)) \in 0..Exchanges /\ Upto(p, q, Posted(p)) \in 0..Exchanges
  BY <1>1, <1>2, Links
<1>4. Mail(p, q, a, b)
  BY DEF InvMail
<1> QED
  BY <1>3, <1>4 DEF Mail, Messages

\* The mail of a link after a step, by its new bounds.
LEMMA MailNext ==
  ASSUME NEW p, NEW q, NEW a, NEW b,
         a = Upto(p, q, Taken(q))', b = Upto(p, q, Posted(p))',
         a <= b, net'[<<p, q>>] = Messages(p, a, b)'
  PROVE  Mail(p, q, Upto(p, q, Taken(q)), Upto(p, q, Posted(p)))'
  BY DEF Mail, Messages

LEMMA MailQuiet == ASSUME TorchInv, Quiet PROVE InvMail'
<1>1. /\ program' = program /\ input' = input /\ net' = net /\ got' = got
      /\ \A p, q \in Ranks : q \in {p - 1, p + 1} =>
           /\ Upto(p, q, Taken(q))' = Upto(p, q, Taken(q))
           /\ Upto(p, q, Posted(p))' = Upto(p, q, Posted(p))
  BY QuietLinks
<1> SUFFICES ASSUME NEW p \in Ranks, NEW q \in Ranks, q \in {p - 1, p + 1}
             PROVE  Mail(p, q, Upto(p, q, Taken(q)), Upto(p, q, Posted(p)))'
  BY DEF InvMail
<1>2. PICK a, b : a = Upto(p, q, Taken(q)) /\ b = Upto(p, q, Posted(p))
  OBVIOUS
<1>3. a <= b /\ net[<<p, q>>] = Messages(p, a, b)
  BY <1>2, MailIs DEF TorchInv
<1>4. Messages(p, a, b)' = Messages(p, a, b)
  BY <1>1, SentSame, MessagesKept
<1>5. a = Upto(p, q, Taken(q))' /\ b = Upto(p, q, Posted(p))'
  BY <1>1, <1>2
<1>6. net'[<<p, q>>] = Messages(p, a, b)'
  BY <1>1, <1>3, <1>4
<1> QED
  BY <1>3, <1>5, <1>6, MailNext

LEMMA MailRecv ==
  ASSUME TorchInv, NEW p \in Ranks, Recv(p)
  PROVE  InvMail'
<1>1. PICK e \in 1..Exchanges, s \in Ranks : RecvOf(p, e, s)
  BY RecvStep
<1>2. /\ at[p] = 2 * e - 1 /\ s = Source(p, What(e)) /\ Target(s, What(e)) = p
      /\ p \in {s - 1, s + 1}
      /\ Taken(p) = e - 1 /\ Posted(p) = e - 1 /\ Taken(p)' = e /\ Posted(p)' = e - 1
      /\ got' = [got EXCEPT ![p][What(e)] = Overwrite(Sent(s, e), @)]
      /\ net' = [net EXCEPT ![<<s, p>>] = Tail(@)]
      /\ at' = [at EXCEPT ![p] = @ + 1] /\ sending' = sending
      /\ program' = program /\ input' = input
  BY <1>1 DEF RecvOf
<1>3. /\ program \in Programs /\ Exchanges \in Nat \ {0} /\ InvPlaces /\ InvMail
      /\ at \in [Ranks -> 1..(2 * Exchanges + 2)] /\ DOMAIN net = Ranks \X Ranks
  BY ScriptShape DEF TorchInv, InvPlaces
<1>4. \A r \in Ranks : r # p => Taken(r)' = Taken(r) /\ Posted(r)' = Posted(r)
  <2>1. \A r \in Ranks : r # p => at'[r] = at[r]
    BY <1>2, <1>3
  <2> QED
    BY <1>2, <2>1, Still
<1>5. Ups' = Ups
  BY <1>2, Frame
<1> SUFFICES ASSUME NEW u \in Ranks, NEW v \in Ranks, v \in {u - 1, u + 1}
             PROVE  Mail(u, v, Upto(u, v, Taken(v)), Upto(u, v, Posted(u)))'
  BY DEF InvMail
<1>6. PICK a, b : a = Upto(u, v, Taken(v)) /\ b = Upto(u, v, Posted(u))
  OBVIOUS
<1>7. a \in Nat /\ b \in Nat /\ a <= b /\ net[<<u, v>>] = Messages(u, a, b)
  BY <1>3, <1>6, MailIs
<1>8. \A r \in Ranks : Posted(r)' = Posted(r)
  BY <1>2, <1>4
<1>9. b = Upto(u, v, Posted(u))'
  BY <1>5, <1>6, <1>8 DEF Upto
<1>10. ASSUME NEW m \in 1..(b - a)
       PROVE  Sent(u, a + m)' = Sent(u, a + m)
  <2>1. PICK f \in Nat : f = a + m
    BY <1>7
  <2>2. a < f /\ f <= b
    BY <1>7, <2>1
  <2>3. f \in 1..Exchanges /\ f <= Posted(u)
    BY <1>3, <1>6, <2>2, OnLink
  <2>4. u = p => f < e
    BY <1>2, <2>3
  <2>5. Receipt(p, e, Sent(s, e))
    BY <1>2, <1>3, ReceiptOfRecv
  <2>6. Sent(u, f)' = Sent(u, f)
    BY <1>2, <1>3, <2>3, <2>4, <2>5, SentKept
  <2> QED
    BY <2>1, <2>6
<1>11. Messages(u, a, b)' = Messages(u, a, b)
  BY <1>2, <1>10, MessagesKept
<1>12. CASE u = s /\ v = p
  <2>1. a = e - 1 /\ e <= b /\ Upto(s, p, e) = e
    <3>1. Upto(s, p, Taken(p)) = e - 1 /\ e <= Upto(s, p, Posted(s))
      BY <1>1 DEF RecvOf
    <3>2. Upto(s, p, e) = e
      BY <1>2, <1>3, Links
    <3> QED
      BY <1>6, <1>12, <3>1, <3>2
  <2>2. Tail(Messages(u, a, b)) = Messages(u, a + 1, b)
    <3>1. a < b
      BY <1>3, <1>7, <2>1
    <3> QED
      BY <1>7, <3>1, MessagesTail
  <2>3. a + 1 = e /\ e \in Nat
    BY <2>1
  <2>4. net'[<<u, v>>] = Messages(u, e, b)
    BY <1>2, <1>3, <1>7, <1>12, <2>2, <2>3
  <2>5. Messages(u, e, b)' = Messages(u, e, b)
    <3>1. \A m \in 1..(b - e) : m + 1 \in 1..(b - a) /\ a + (m + 1) = e + m
      BY <1>7, <2>3
    <3>2. ASSUME NEW m \in 1..(b - e) PROVE Sent(u, e + m)' = Sent(u, e + m)
      <4>1. PICK n \in 1..(b - a) : n = m + 1 /\ a + n = e + m
        BY <3>1
      <4>2. Sent(u, a + n)' = Sent(u, a + n)
        BY <1>10
      <4> QED
        BY <4>1, <4>2
    <3> QED
      BY <1>2, <3>2, MessagesKept
  <2>6. e = Upto(u, v, Taken(v))'
    BY <1>2, <1>5, <1>12, <2>1 DEF Upto
  <2> QED
    BY <1>9, <2>1, <2>4, <2>5, <2>6, MailNext
<1>13. CASE ~(u = s /\ v = p)
  <2>1. net'[<<u, v>>] = net[<<u, v>>]
    BY <1>2, <1>3, <1>13
  <2>2. a = Upto(u, v, Taken(v))'
    <3>1. CASE v # p
      BY <1>4, <1>5, <1>6, <3>1 DEF Upto
    <3>2. CASE v = p
      <4>1. Source(v, What(e)) # u
        BY <1>2, <1>13, <3>2
      <4>2. Target(u, What(e)) # v
        BY <1>3, <4>1, Links
      <4>3. Upto(u, v, e) = Upto(u, v, e - 1)
        BY <1>3, <4>2, Links
      <4> QED
        BY <1>2, <1>5, <1>6, <3>2, <4>3 DEF Upto
    <3> QED
      BY <3>1, <3>2
  <2> QED
    BY <1>7, <1>9, <1>11, <2>1, <2>2, MailNext
<1> QED
  BY <1>12, <1>13

LEMMA MailSend ==
  ASSUME TorchInv, NEW p \in Ranks, Send(p)
  PROVE  InvMail'
<1>1. PICK e \in 1..Exchanges, t \in Ranks : SendOf(p, e, t)
  BY SendStep
<1>2. /\ at[p] = 2 * e /\ t = Target(p, What(e)) /\ t \in {p - 1, p + 1}
      /\ Posted(p) = e - 1 /\ Posted(p)' = e /\ Taken(p)' = Taken(p)
      /\ net' = [net EXCEPT ![<<p, t>>] = Append(@, [what |-> What(e), data |-> Sent(p, e)])]
      /\ sending' = [sending EXCEPT ![p] = TRUE]
      /\ program' = program /\ input' = input /\ got' = got /\ at' = at
  BY <1>1 DEF SendOf
<1>3. /\ program \in Programs /\ Exchanges \in Nat \ {0} /\ InvPlaces /\ InvMail
      /\ sending \in [Ranks -> BOOLEAN] /\ DOMAIN net = Ranks \X Ranks
  BY ScriptShape DEF TorchInv, InvPlaces
<1>4. \A r \in Ranks : r # p => Taken(r)' = Taken(r) /\ Posted(r)' = Posted(r)
  <2>1. \A r \in Ranks : r # p => sending'[r] = sending[r] /\ at'[r] = at[r]
    BY <1>2, <1>3
  <2> QED
    BY <1>2, <2>1, Still
<1>5. Ups' = Ups
  BY <1>2, Frame
<1> SUFFICES ASSUME NEW u \in Ranks, NEW v \in Ranks, v \in {u - 1, u + 1}
             PROVE  Mail(u, v, Upto(u, v, Taken(v)), Upto(u, v, Posted(u)))'
  BY DEF InvMail
<1>6. PICK a, b : a = Upto(u, v, Taken(v)) /\ b = Upto(u, v, Posted(u))
  OBVIOUS
<1>7. a \in Nat /\ b \in Nat /\ a <= b /\ net[<<u, v>>] = Messages(u, a, b)
  BY <1>3, <1>6, MailIs
<1>8. a = Upto(u, v, Taken(v))'
  <2>1. \A r \in Ranks : Taken(r)' = Taken(r)
    BY <1>2, <1>4
  <2> QED
    BY <1>5, <1>6, <2>1 DEF Upto
<1>9. \A m : Sent(u, m)' = Sent(u, m)
  BY <1>2, SentSame
<1>10. CASE u = p /\ v = t
  <2>1. b = e - 1 /\ Upto(u, v, e) = e
    BY <1>2, <1>3, <1>6, <1>10, Links
  <2>2. e = b + 1 /\ a <= e
    BY <1>7, <2>1
  <2>3. net'[<<u, v>>] = Append(Messages(u, a, b), [what |-> What(e), data |-> Sent(u, e)])
    BY <1>2, <1>3, <1>7, <1>10
  <2>4. net'[<<u, v>>] = Messages(u, a, e)
    BY <1>7, <2>2, <2>3, MessagesAppend
  <2>5. Messages(u, a, e)' = Messages(u, a, e)
    BY <1>2, <1>9, MessagesKept
  <2>6. e = Upto(u, v, Posted(u))'
    BY <1>2, <1>5, <1>10, <2>1 DEF Upto
  <2> QED
    BY <1>8, <2>2, <2>4, <2>5, <2>6, MailNext
<1>11. CASE ~(u = p /\ v = t)
  <2>1. net'[<<u, v>>] = net[<<u, v>>]
    BY <1>2, <1>3, <1>11
  <2>2. b = Upto(u, v, Posted(u))'
    <3>1. CASE u # p
      BY <1>4, <1>5, <1>6, <3>1 DEF Upto
    <3>2. CASE u = p
      <4>1. Target(u, What(e)) # v
        BY <1>2, <1>11, <3>2
      <4>2. Upto(u, v, e) = Upto(u, v, e - 1)
        BY <1>3, <4>1, Links
      <4> QED
        BY <1>2, <1>5, <1>6, <3>2, <4>2 DEF Upto
    <3> QED
      BY <3>1, <3>2
  <2>3. Messages(u, a, b)' = Messages(u, a, b)
    BY <1>2, <1>9, MessagesKept
  <2> QED
    BY <1>7, <1>8, <2>1, <2>2, <2>3, MailNext
<1> QED
  BY <1>10, <1>11

\* What q has of exchange e, in which p is its neighbour.
Has(q, e, p) ==
  \A i \in BlockRows(Block(e)) :
    got[q][What(e)][i] = IF p \in Ranks /\ e <= Taken(q) THEN Sent(p, e)[i] ELSE Zero[i]

LEMMA GotHas ==
  ASSUME InvGot, NEW q \in Ranks, NEW e \in 1..Exchanges
  PROVE  Has(q, e, Source(q, What(e)))
  BY DEF InvGot, Has

LEMMA GotNext ==
  ASSUME TorchInv, program' = program, input' = input,
         \A q \in Ranks : got'[q].scan = got[q].scan,
         \A q \in Ranks : \A w \in Names :
           w \notin {What(e) : e \in 1..Exchanges} => got'[q][w] = got[q][w],
         \A q \in Ranks : \A e \in 1..Exchanges : \A p : p = Source(q, What(e)) => Has(q, e, p)'
  PROVE  InvGot'
<1>1. /\ Exchanges' = Exchanges /\ Fresh(program, input)' = Fresh(program, input)
      /\ \A e : What(e)' = What(e) /\ Block(e)' = Block(e)
      /\ \A k : BlockRows(k)' = BlockRows(k)
  BY Frame
<1> SUFFICES ASSUME NEW q \in Ranks
             PROVE  /\ got'[q].scan = Fresh(program, input)'[q].scan
                    /\ \A e \in 1..Exchanges' :
                         (LET p == Source(q, What(e)) IN
                          IF p \in Ranks /\ e <= Taken(q)
                          THEN \A i \in BlockRows(Block(e)) : got[q][What(e)][i] = Sent(p, e)[i]
                          ELSE \A i \in BlockRows(Block(e)) : got[q][What(e)][i] = Zero[i])'
                    /\ \A what \in {"prefix", "g_out", "adjoint"} \ {What(e)' : e \in 1..Exchanges'} :
                         got'[q][what] = Fresh(program, input)'[q][what]
  BY DEF InvGot
<1>2. got'[q].scan = Fresh(program, input)'[q].scan
  BY <1>1 DEF TorchInv, InvGot
<1>3. ASSUME NEW e \in 1..Exchanges'
      PROVE  (LET p == Source(q, What(e)) IN
              IF p \in Ranks /\ e <= Taken(q)
              THEN \A i \in BlockRows(Block(e)) : got[q][What(e)][i] = Sent(p, e)[i]
              ELSE \A i \in BlockRows(Block(e)) : got[q][What(e)][i] = Zero[i])'
  <2>1. PICK p : p = Source(q, What(e))
    OBVIOUS
  <2>2. p = Source(q, What(e))'
    BY <1>1, <2>1 DEF Source, Up
  <2>3. Has(q, e, p)'
    BY <1>1, <2>1
  <2>4. (IF p \in Ranks /\ e <= Taken(q)
         THEN \A i \in BlockRows(Block(e)) : got[q][What(e)][i] = Sent(p, e)[i]
         ELSE \A i \in BlockRows(Block(e)) : got[q][What(e)][i] = Zero[i])'
    BY <2>3 DEF Has
  <2> QED
    BY <2>2, <2>4 DEF Sent
<1>4. \A what \in {"prefix", "g_out", "adjoint"} \ {What(e)' : e \in 1..Exchanges'} :
        got'[q][what] = Fresh(program, input)'[q][what]
  <2>1. {What(e)' : e \in 1..Exchanges'} = {What(e) : e \in 1..Exchanges}
    BY <1>1
  <2>2. \A what \in Names \ {What(e) : e \in 1..Exchanges} : got[q][what] = Fresh(program, input)[q][what]
    BY DEF TorchInv, InvGot, Names
  <2> QED
    BY <1>1, <2>1, <2>2 DEF Names
<1> QED
  BY <1>2, <1>3, <1>4

LEMMA HasNext ==
  ASSUME program' = program, input' = input, NEW q, NEW e, NEW p, Has(q, e, p),
         \A i \in BlockRows(Block(e)) : got'[q][What(e)][i] = got[q][What(e)][i],
         p \in Ranks => (e <= Taken(q)' <=> e <= Taken(q)),
         p \in Ranks /\ e <= Taken(q) => Sent(p, e)' = Sent(p, e)
  PROVE  Has(q, e, p)'
<1>1. What(e)' = What(e) /\ BlockRows(Block(e))' = BlockRows(Block(e))
  BY Frame DEF BlockRows
<1> QED
  BY <1>1 DEF Has

LEMMA GotSame ==
  ASSUME TorchInv, program' = program, input' = input, got' = got,
         \A q \in Ranks, e \in 1..Exchanges :
           Source(q, What(e)) \in Ranks => (e <= Taken(q)' <=> e <= Taken(q))
  PROVE  InvGot'
<1>1. ASSUME NEW q \in Ranks, NEW e \in 1..Exchanges, NEW p, p = Source(q, What(e))
      PROVE  Has(q, e, p)'
  <2>1. Has(q, e, p)
    BY <1>1, GotHas DEF TorchInv
  <2>2. Sent(p, e)' = Sent(p, e)
    BY SentSame
  <2>3. p \in Ranks => (e <= Taken(q)' <=> e <= Taken(q))
    BY <1>1
  <2> QED
    BY <2>1, <2>2, <2>3, HasNext
<1> QED
  BY <1>1, GotNext

LEMMA GotRecv ==
  ASSUME TorchInv, NEW p \in Ranks, Recv(p)
  PROVE  InvGot'
<1>1. PICK e \in 1..Exchanges, s \in Ranks : RecvOf(p, e, s)
  BY RecvStep
<1>2. /\ at[p] = 2 * e - 1 /\ s = Source(p, What(e))
      /\ p \in {s - 1, s + 1}
      /\ Taken(p) = e - 1 /\ Posted(p) = e - 1 /\ Taken(p)' = e
      /\ got' = [got EXCEPT ![p][What(e)] = Overwrite(Sent(s, e), @)]
      /\ at' = [at EXCEPT ![p] = @ + 1] /\ sending' = sending
      /\ program' = program /\ input' = input
  BY <1>1 DEF RecvOf
<1>3. /\ program \in Programs /\ Exchanges \in Nat \ {0} /\ InvPlaces /\ InvMail
      /\ at \in [Ranks -> 1..(2 * Exchanges + 2)]
  BY ScriptShape DEF TorchInv, InvPlaces
<1>4. \A r \in Ranks : r # p => Taken(r)' = Taken(r)
  <2>1. \A r \in Ranks : r # p => at'[r] = at[r]
    BY <1>2, <1>3
  <2> QED
    BY <1>2, <2>1, Still
<1>5. Receipt(p, e, Sent(s, e))
  BY <1>2, <1>3, ReceiptOfRecv
<1>6. /\ \A q \in Ranks : q # p => got'[q] = got[q]
      /\ got'[p].scan = got[p].scan
      /\ \A w \in Names : w # What(e) => got'[p][w] = got[p][w]
      /\ \A i \in Keys : got'[p][What(e)][i] =
           IF i \in BlockRows(Block(e)) THEN Sent(s, e)[i] ELSE got[p][What(e)][i]
  BY <1>3, <1>5, RecvRows
<1>7. ASSUME NEW q \in Ranks, NEW f \in 1..Exchanges, NEW r, r = Source(q, What(f))
      PROVE  Has(q, f, r)'
  <2>1. Has(q, f, r)
    BY <1>7, GotHas DEF TorchInv
  <2>2. CASE q # p
    <3>1. got'[q] = got[q] /\ Taken(q)' = Taken(q)
      BY <1>4, <1>6, <2>2
    <3>2. ASSUME r \in Ranks, f <= Taken(q) PROVE Sent(r, f)' = Sent(r, f)
      <4>1. CASE r = p
        <5>1. q \in {p - 1, p + 1}
          BY <1>7, <4>1, ShapeAssumption DEF Source, Ranks
        <5>2. PICK a, b : a = Upto(p, q, Taken(q)) /\ b = Upto(p, q, Posted(p))
          OBVIOUS
        <5>3. a \in Nat /\ b \in Nat /\ a <= b
          BY <1>3, <5>1, <5>2, MailIs
        <5>4. Taken(q) \in 0..Exchanges /\ Posted(p) \in 0..Exchanges
          BY <1>3, Ranges
        <5>5. Target(p, What(f)) = q
          <6>1. p = Source(q, What(f)) /\ program \in Programs
            BY <1>3, <1>7, <4>1
          <6>2. Target(p, What(f)) = q <=> Source(q, What(f)) = p
            BY <5>1, <6>1, Links
          <6> QED
            BY <6>1, <6>2
        <5>6. (a < f <=> Taken(q) < f) /\ (b < f <=> Posted(p) < f)
          BY <1>3, <5>1, <5>2, <5>4, <5>5, Links
        <5>7. f < e
          BY <1>2, <1>3, <3>2, <5>3, <5>4, <5>6
        <5> QED
          BY <1>2, <1>3, <1>5, <4>1, <5>7, SentKept
      <4>2. CASE r # p
        BY <1>2, <1>3, <1>5, <3>2, <4>2, SentKept
      <4> QED
        BY <4>1, <4>2
    <3> QED
      BY <1>2, <2>1, <3>1, <3>2, HasNext
  <2>3. CASE q = p
    <3>1. r # p
      BY <1>7, <2>3, ShapeAssumption DEF Source, Ranks
    <3>2. r \in Ranks => Sent(r, f)' = Sent(r, f)
      BY <1>2, <1>3, <1>5, <3>1, SentKept
    <3>3. CASE f = e
      <4>1. r = s /\ r \in Ranks
        BY <1>2, <1>7, <2>3, <3>3
      <4>2. What(f)' = What(f) /\ BlockRows(Block(f))' = BlockRows(Block(f))
        BY <1>2, Frame DEF BlockRows
      <4>3. BlockRows(Block(f)) \subseteq Keys
        BY <1>3, ScriptShape
      <4>4. \A i \in BlockRows(Block(f)) : got'[q][What(f)][i] = Sent(r, f)'[i]
        BY <1>6, <2>3, <3>2, <3>3, <4>1, <4>3
      <4>5. f <= Taken(q)'
        BY <1>2, <1>3, <2>3, <3>3
      <4> QED
        BY <4>1, <4>2, <4>4, <4>5 DEF Has
    <3>4. CASE f # e
      <4>1. /\ BlockRows(Block(f)) \subseteq Keys /\ What(f) \in Names
            /\ What(e) # What(f) \/ BlockRows(Block(e)) \cap BlockRows(Block(f)) = {}
        <5>1. f < e \/ e < f
          BY <1>3, <3>4
        <5> QED
          BY <1>3, <5>1, ScriptShape
      <4>2. \A i \in BlockRows(Block(f)) : got'[q][What(f)][i] = got[q][What(f)][i]
        BY <1>6, <2>3, <4>1
      <4>3. f <= Taken(q)' <=> f <= Taken(q)
        BY <1>2, <1>3, <2>3, <3>4
      <4> QED
        BY <1>2, <2>1, <3>2, <4>2, <4>3, HasNext
    <3> QED
      BY <3>3, <3>4
  <2> QED
    BY <2>2, <2>3
<1>8. \A q \in Ranks : got'[q].scan = got[q].scan
  BY <1>6
<1>9. \A q \in Ranks : \A w \in Names :
        w \notin {What(f) : f \in 1..Exchanges} => got'[q][w] = got[q][w]
  BY <1>6
<1> QED
  BY <1>2, <1>7, <1>8, <1>9, GotNext

-----------------------------------------------------------------------------
(* Results *)

\* A worker past its put has left its script: what it owes stays.
LEMMA ResultsNext ==
  ASSUME TorchInv, program' = program, input' = input,
         \A p \in Ranks : at[p] = 2 * Exchanges + 2 => at'[p] = at[p] /\ got'[p] = got[p],
         \A x \in queue' : x \in queue \/ (/\ x[1] \in Ranks /\ at'[x[1]] = 2 * Exchanges + 2
                                           /\ x[2] = Result(program, input, x[1], got'[x[1]])),
         \A p \in DOMAIN collected' :
           \/ p \in DOMAIN collected /\ collected'[p] = collected[p]
           \/ \E x \in queue : p = x[1] /\ collected'[p] = x[2]
  PROVE  InvResults'
<1>1. Exchanges' = Exchanges
  BY Frame
<1>2. ASSUME NEW x \in queue
      PROVE  /\ x[1] \in Ranks /\ at'[x[1]] = 2 * Exchanges + 2
             /\ x[2] = Result(program, input, x[1], got'[x[1]])
  BY DEF TorchInv, InvResults, Owed
<1>3. ASSUME NEW p \in DOMAIN collected
      PROVE  /\ p \in Ranks /\ at'[p] = 2 * Exchanges + 2
             /\ collected[p] = Result(program, input, p, got'[p])
  BY DEF TorchInv, InvResults, Owed
<1> QED
  BY <1>1, <1>2, <1>3 DEF InvResults, Owed

LEMMA ResultsStep == ASSUME TorchInv, [Next]_vars PROVE InvResults'
<1>1. /\ program \in Programs /\ Exchanges \in Nat \ {0} /\ InvPlaces
      /\ at \in [Ranks -> 1..(2 * Exchanges + 2)] /\ DOMAIN got = Ranks
      /\ Len(Script(program)) = 2 * Exchanges + 1
  BY ScriptShape DEF TorchInv, InvPlaces
<1>2. \A p \in Ranks : Running(p) => at[p] # 2 * Exchanges + 2
  BY <1>1 DEF Running
<1>3. CASE UNCHANGED vars \/ \E r \in Ranks : Raise(r) \/ PeerLost(r) \/ Send(r)
  <2>1. /\ program' = program /\ input' = input /\ at' = at /\ got' = got
        /\ queue' = queue /\ collected' = collected
    <3>1. CASE UNCHANGED vars
      BY <3>1 DEF vars
    <3>2. CASE \E r \in Ranks : Raise(r)
      BY <3>2 DEF Raise
    <3>3. CASE \E r \in Ranks : PeerLost(r)
      BY <3>3 DEF PeerLost
    <3>4. CASE \E r \in Ranks : Send(r)
      BY <3>4 DEF Send
    <3> QED
      BY <1>3, <3>1, <3>2, <3>3, <3>4
  <2> QED
    BY <2>1, ResultsNext
<1>4. CASE Collect
  <2>1. PICK x \in queue :
          /\ queue' = queue \ {x}
          /\ collected' = [p \in DOMAIN collected \cup {x[1]} |->
                            IF p = x[1] THEN x[2] ELSE collected[p]]
          /\ program' = program /\ input' = input /\ at' = at /\ got' = got
    BY <1>4 DEF Collect
  <2> QED
    BY <2>1, ResultsNext
<1>5. ASSUME NEW r \in Ranks, Skip(r) \/ SendReturns(r)
      PROVE  InvResults'
  <2>1. /\ program' = program /\ input' = input /\ got' = got /\ Running(r)
        /\ queue' = queue /\ collected' = collected /\ at' = [at EXCEPT ![r] = @ + 1]
    BY <1>5 DEF Skip, SendReturns, Advance
  <2>2. \A p \in Ranks : at[p] = 2 * Exchanges + 2 => at'[p] = at[p]
    BY <1>1, <1>2, <2>1
  <2> QED
    BY <2>1, <2>2, ResultsNext
<1>6. ASSUME NEW r \in Ranks, Recv(r)
      PROVE  InvResults'
  <2>1. PICK e \in 1..Exchanges, s \in Ranks : RecvOf(r, e, s)
    BY <1>6, RecvStep
  <2>2. /\ program' = program /\ input' = input /\ at[r] = 2 * e - 1
        /\ got' = [got EXCEPT ![r][What(e)] = Overwrite(Sent(s, e), @)]
        /\ queue' = queue /\ collected' = collected /\ at' = [at EXCEPT ![r] = @ + 1]
    BY <2>1 DEF RecvOf
  <2>3. \A p \in Ranks : at[p] = 2 * Exchanges + 2 => p # r
    BY <1>1, <2>2
  <2>4. \A p \in Ranks : at[p] = 2 * Exchanges + 2 => at'[p] = at[p] /\ got'[p] = got[p]
    BY <1>1, <2>2, <2>3
  <2> QED
    BY <2>2, <2>4, ResultsNext
<1>7. ASSUME NEW r \in Ranks, Put(r)
      PROVE  InvResults'
  <2>1. /\ program' = program /\ input' = input /\ got' = got /\ Running(r)
        /\ queue' = queue \cup {<<r, Result(program, input, r, got[r])>>}
        /\ collected' = collected /\ at' = [at EXCEPT ![r] = @ + 1] /\ Step(r)[1] = "put"
    BY <1>7 DEF Put, Advance
  <2>2. \A p \in Ranks : at[p] = 2 * Exchanges + 2 => at'[p] = at[p]
    BY <1>1, <1>2, <2>1
  <2>3. at[r] = 2 * Exchanges + 1
    BY <1>1, <2>1, Place
  <2>4. at'[r] = 2 * Exchanges + 2
    BY <1>1, <2>1, <2>3
  <2>5. PICK y : y = Result(program, input, r, got'[r])
    OBVIOUS
  <2>6. \A x \in queue' : x \in queue \/ x = <<r, y>>
    BY <2>1, <2>5
  <2>7. \A x \in queue' : x \in queue \/ (/\ x[1] \in Ranks /\ at'[x[1]] = 2 * Exchanges + 2
                                          /\ x[2] = Result(program, input, x[1], got'[x[1]]))
    BY <2>4, <2>5, <2>6
  <2> QED
    BY <2>1, <2>2, <2>7, ResultsNext
<1> QED
  BY <1>3, <1>4, <1>5, <1>6, <1>7 DEF Next

-----------------------------------------------------------------------------
(* Theorems *)

LEMMA TorchStep == TorchInv /\ [Next]_vars => TorchInv'
<1> SUFFICES ASSUME TorchInv, [Next]_vars PROVE TorchInv'
  OBVIOUS
<1>1. InvPlaces'
  BY PlacesStep
<1>2. InvMail'
  <2>1. CASE Quiet
    BY <2>1, MailQuiet
  <2>2. CASE \E p \in Ranks : Recv(p) \/ Send(p)
    BY <2>2, MailRecv, MailSend
  <2> QED
    BY <2>1, <2>2, Kinds
<1>3. InvGot'
  <2>1. CASE Quiet
    <3>1. /\ program' = program /\ input' = input /\ got' = got
          /\ \A q \in Ranks, e \in 1..Exchanges :
               Source(q, What(e)) \in Ranks => (e <= Taken(q)' <=> e <= Taken(q))
      BY <2>1, QuietLinks
    <3> QED
      BY <3>1, GotSame
  <2>2. ASSUME NEW p \in Ranks, Recv(p) PROVE InvGot'
    BY <2>2, GotRecv
  <2>3. ASSUME NEW p \in Ranks, Send(p) PROVE InvGot'
    <3>1. PICK e \in 1..Exchanges, t \in Ranks : SendOf(p, e, t)
      BY <2>3, SendStep
    <3>2. /\ program' = program /\ input' = input /\ got' = got /\ at' = at
      BY <3>1 DEF SendOf
    <3>3. \A q \in Ranks : Taken(q)' = Taken(q)
      BY <3>2, Frame DEF Taken
    <3> QED
      BY <3>2, <3>3, GotSame
  <2> QED
    BY <2>1, <2>2, <2>3, Kinds
<1>4. InvResults'
  BY ResultsStep
<1> QED
  BY <1>1, <1>2, <1>3, <1>4 DEF TorchInv

\* Whatever the order of the messages, whichever workers raise and whenever
\* they do: every link holds the posted and not yet taken exchanges of its two
\* ends in their order, every worker has what its neighbours computed for it,
\* and what it puts follows from that.
THEOREM TorchInvariant == Spec => []TorchInv
<1>1. Init => TorchInv
  BY TorchInit
<1>2. TorchInv /\ [Next]_vars => TorchInv'
  BY TorchStep
<1> QED
  BY <1>1, <1>2, PTL DEF Spec

\* dist.recv takes the next message of the link, untagged, and it is the one
\* the block loop posted the recv for.
THEOREM InStep == Spec => []MessagesInStep
<1>1. TorchInv => MessagesInStep
  <2> SUFFICES ASSUME TorchInv, NEW p \in Ranks, Running(p), Step(p)[1] = "recv",
                      Source(p, Step(p)[2]) \in Ranks,
                      net[<<Source(p, Step(p)[2]), p>>] # <<>>
               PROVE  LET mail == net[<<Source(p, Step(p)[2]), p>>]
                      IN Head(mail).what = Step(p)[2] /\ DOMAIN Head(mail).data = BlockRows(Step(p)[3])
    BY DEF MessagesInStep
  <2>1. PICK e \in 1..Exchanges :
          /\ at[p] = 2 * e - 1 /\ ~sending[p] /\ Step(p) = <<"recv", What(e), Block(e)>>
          /\ Taken(p) = e - 1 /\ Posted(p) = e - 1
    BY Place DEF PutResult, TorchInv
  <2>2. Step(p)[2] = What(e) /\ Step(p)[3] = Block(e)
    BY <2>1
  <2>3. PICK s : s = Source(p, What(e))
    OBVIOUS
  <2>4. s \in Ranks /\ net[<<s, p>>] # <<>>
    BY <2>2, <2>3
  <2>5. p \in {s - 1, s + 1}
    BY <2>3, ShapeAssumption DEF Source, Ranks
  <2>6. program \in Programs /\ Exchanges \in Nat /\ InvPlaces /\ InvMail
    BY ScriptShape DEF TorchInv, InvPlaces
  <2>7. PICK a, b : a = Upto(s, p, Taken(p)) /\ b = Upto(s, p, Posted(s))
    OBVIOUS
  <2>8. a \in Nat /\ b \in Nat /\ a <= b /\ net[<<s, p>>] = Messages(s, a, b)
    BY <2>4, <2>5, <2>6, <2>7, MailIs
  <2>9. a = e - 1
    <3>1. Source(p, What(e)) = s
      BY <2>3
    <3>2. Target(s, What(e)) = p <=> Source(p, What(e)) = s
      BY <2>4, <2>5, <2>6, Links
    <3> QED
      BY <2>1, <2>4, <2>5, <2>6, <2>7, <3>1, <3>2, Links
  <2>10. b - a \in Nat \ {0}
    <3>1. CASE b - a = 0
      BY <2>4, <2>8, <3>1 DEF Messages
    <3> QED
      BY <2>8, <3>1
  <2>11. Head(net[<<s, p>>]) = [what |-> What(e), data |-> Sent(s, e)]
    <3>1. a + 1 = e
      BY <2>6, <2>9
    <3> QED
      BY <2>8, <2>10, <3>1 DEF Messages
  <2>12. DOMAIN Sent(s, e) = BlockRows(Block(e))
    BY DEF Sent, Outgoing, Matrix
  <2> QED
    BY <2>2, <2>3, <2>11, <2>12
<1> QED
  BY <1>1, TorchInvariant, PTL

-----------------------------------------------------------------------------
(* The AllScan baselines compute the reference *)

Scans == [p \in Ranks |-> got[p].scan]
Grads == [p \in Ranks |-> got[p].g_out]

LEMMA OutScan ==
  ASSUME NEW scan, NEW i, NEW j, NEW p \in Ranks
  PROVE  Out(scan, i, j)[p] =
           (scan[p].S_total[i][j]
              + (IF p = 0 THEN 0 ELSE scan[p].g_total[i] * Out(scan, i, j)[p - 1])) % Prime
<1> DEFINE body(g) == [r \in Ranks |->
             (scan[r].S_total[i][j] + (IF r = 0 THEN 0 ELSE scan[r].g_total[i] * g[r - 1])) % Prime]
           out == CHOOSE g : g = body(g)
           a == [r \in Ranks |-> scan[r].S_total[i][j]]
           b == [r \in Ranks |-> scan[r].g_total[i]]
<1>1. \A r \in Ranks : a[r] = scan[r].S_total[i][j] /\ b[r] = scan[r].g_total[i]
  OBVIOUS
<1> HIDE DEF a, b
<1>2. P - 1 \in Nat /\ Ranks = 0..(P - 1)
  BY ShapeAssumption DEF Ranks
<1>3. PICK h : IsScan(h, P - 1, a, b)
  BY <1>2, ScanExists
<1>4. h = body(h)
  <2>1. h = [r \in Ranks |-> h[r]]
    BY <1>2, <1>3 DEF IsScan, IsFunction
  <2>2. \A r \in Ranks : h[r] = (a[r] + (IF r = 0 THEN 0 ELSE b[r] * h[r - 1])) % Prime
    BY <1>2, <1>3 DEF IsScan
  <2> QED
    BY <1>1, <2>1, <2>2
<1>5. out = body(out)
  <2> HIDE DEF body
  <2> QED
    BY <1>4, Zenon
<1>6. Out(scan, i, j) = out
  BY Zenon DEF Out
<1> HIDE DEF out
<1> QED
  BY <1>5, <1>6

\* The recurrence of the reverse scan: d[p] from d[p + 1].
IsAdjoint(scan, g_out, i, j, p) ==
  Adjoint(scan, g_out, i, j)[p] =
    (g_out[p][i][j]
       + (IF p = P - 1 THEN 0
          ELSE scan[p + 1].g_total[i] * Adjoint(scan, g_out, i, j)[p + 1])) % Prime

LEMMA AdjointScan ==
  ASSUME NEW scan, NEW g_out, NEW i, NEW j, NEW p \in Ranks
  PROVE  IsAdjoint(scan, g_out, i, j, p)
<1> DEFINE body(g) == [r \in Ranks |->
             (g_out[r][i][j] + (IF r = P - 1 THEN 0 ELSE scan[r + 1].g_total[i] * g[r + 1])) % Prime]
           d == CHOOSE g : g = body(g)
           a == [m \in Ranks |-> g_out[P - 1 - m][i][j]]
           b == [m \in Ranks |-> scan[P - m].g_total[i]]
<1>1. \A m \in Ranks : a[m] = g_out[P - 1 - m][i][j] /\ b[m] = scan[P - m].g_total[i]
  OBVIOUS
<1> HIDE DEF a, b
<1>2. P \in Nat \ {0} /\ P - 1 \in Nat /\ Ranks = 0..(P - 1)
  BY ShapeAssumption DEF Ranks
<1>3. PICK h : IsScan(h, P - 1, a, b)
  BY <1>2, ScanExists
<1> DEFINE k == [r \in Ranks |-> h[P - 1 - r]]
<1>4. k = body(k)
  <2>1. \A m \in Ranks : h[m] = (a[m] + (IF m = 0 THEN 0 ELSE b[m] * h[m - 1])) % Prime
    BY <1>2, <1>3 DEF IsScan
  <2>2. \A r \in Ranks : k[r] = h[P - 1 - r]
    OBVIOUS
  <2>3. k = [r \in Ranks |-> k[r]]
    OBVIOUS
  <2> HIDE DEF k
  <2>4. ASSUME NEW r \in Ranks
        PROVE  k[r] = (g_out[r][i][j] + (IF r = P - 1 THEN 0 ELSE scan[r + 1].g_total[i] * k[r + 1])) % Prime
    <3>1. PICK m \in Ranks : m = P - 1 - r
      BY <1>2
    <3>2. r = P - 1 - m /\ (m = 0 <=> r = P - 1) /\ P - m = r + 1
      BY <1>2, <3>1
    <3>3. k[r] = h[m]
      BY <2>2, <3>1
    <3>4. a[m] = g_out[r][i][j] /\ b[m] = scan[r + 1].g_total[i]
      BY <1>1, <3>2
    <3>5. m # 0 => k[r + 1] = h[m - 1]
      <4> SUFFICES ASSUME m # 0 PROVE k[r + 1] = h[m - 1]
        OBVIOUS
      <4>1. r + 1 \in Ranks /\ P - 1 - (r + 1) = m - 1
        BY <1>2, <3>2
      <4> QED
        BY <2>2, <4>1
    <3> QED
      BY <2>1, <3>2, <3>3, <3>4, <3>5
  <2> QED
    BY <2>3, <2>4
<1>5. d = body(d)
  <2> HIDE DEF body, k
  <2> QED
    BY <1>4, Zenon
<1>6. Adjoint(scan, g_out, i, j) = d
  BY Zenon DEF Adjoint
<1> HIDE DEF d
<1> QED
  BY <1>5, <1>6 DEF IsAdjoint

\* The decay of a rank over its chunks is a number.
LEMMA DecayTyped ==
  ASSUME NEW in \in Inputs, NEW p \in Ranks, NEW i \in Keys
  PROVE  gla_chunk_scan(in, p).g_total[i] \in Int
<1>1. in.g \in [Tokens -> [Keys -> Int]]
  BY InputAssumption
<1>2. C \in Nat \ {0} /\ N \in Nat
  BY ShapeAssumption
<1>3. ASSUME NEW n \in Chunks PROVE ChunkGamma(in, p, n, i) \in Int
  <2> DEFINE f == [x \in 0..(((C - 1) + 1) - 1) |-> Gate(in, Token(p, n, x), i)]
  <2>1. ASSUME NEW x \in 0..(((C - 1) + 1) - 1) PROVE f[x] \in Int
    <3>1. x \in Rows
      BY <1>2 DEF Rows
    <3>2. in.g[Token(p, n, x)][i] \in Int
      BY <1>1, <3>1, TokenTyped
    <3>3. Gate(in, Token(p, n, x), i) \in 1..(Prime - 1)
      BY <3>2, ExpTyped DEF Gate
    <3>4. Prime \in Nat
      BY Field
    <3> QED
      BY <3>3, <3>4
  <2>2. ChunkGamma(in, p, n, i) = ProductOf((C - 1) + 1, f)
    BY DEF ChunkGamma, CumGate, Product
  <2> HIDE DEF f
  <2>3. (C - 1) + 1 \in Nat
    BY <1>2
  <2> QED
    BY <2>1, <2>2, <2>3, ProductTyped
<1> DEFINE h == [n \in 0..(N - 1) |-> ChunkGamma(in, p, n, i)]
<1>4. \A n \in 0..(N - 1) : h[n] \in Int
  BY <1>3 DEF Chunks
<1>5. gla_chunk_scan(in, p).g_total[i] = ProductOf(N, h)
  <2>1. gla_chunk_scan(in, p).g_total = [k \in Keys |-> LocalDecay(in, p, N, k)]
    BY DEF gla_chunk_scan, Matrix, Total
  <2>2. LocalDecay(in, p, N, i) = ProductOf(N, h)
    BY DEF LocalDecay, Product
  <2> QED
    BY <2>1, <2>2
<1> HIDE DEF h
<1> QED
  BY <1>2, <1>4, <1>5, ProductTyped

\* A worker posts what it has taken, so its neighbour has taken it before.
LEMMA TakenBefore ==
  ASSUME TorchInv, NEW q \in Ranks, NEW e \in 1..Exchanges, e <= Taken(q),
         NEW p \in Ranks, p = Source(q, What(e))
  PROVE  e <= Taken(p)
<1>1. program \in Programs /\ Exchanges \in Nat \ {0} /\ InvPlaces /\ InvMail
  BY ScriptShape DEF TorchInv, InvPlaces
<1>2. q \in {p - 1, p + 1}
  BY ShapeAssumption DEF Source, Ranks
<1>3. PICK a, b : a = Upto(p, q, Taken(q)) /\ b = Upto(p, q, Posted(p))
  OBVIOUS
<1>4. a \in Nat /\ b \in Nat /\ a <= b
  BY <1>1, <1>2, <1>3, MailIs
<1>5. Taken(q) \in 0..Exchanges /\ Posted(p) \in 0..Exchanges
  BY <1>1, Ranges
<1>6. Target(p, What(e)) = q
  <2>1. Source(q, What(e)) = p
    OBVIOUS
  <2>2. Target(p, What(e)) = q <=> Source(q, What(e)) = p
    BY <1>1, <1>2, Links
  <2> QED
    BY <2>1, <2>2
<1>7. (a < e <=> Taken(q) < e) /\ (b < e <=> Posted(p) < e)
  BY <1>1, <1>2, <1>3, <1>5, <1>6, Links
<1>8. e <= Posted(p)
  BY <1>1, <1>4, <1>5, <1>7
<1>9. Posted(p) <= Taken(p)
  <2>1. /\ at[p] \in 1..(2 * Exchanges + 2) /\ sending[p] \in BOOLEAN
        /\ sending[p] => \E f \in 1..Exchanges : at[p] = 2 * f
    BY <1>1, SendingPlace DEF InvPlaces
  <2>2. CASE sending[p]
    <3>1. PICK f \in 1..Exchanges : at[p] = 2 * f
      BY <2>1, <2>2
    <3>2. Posted(p) = f /\ Taken(p) = f
      BY <1>1, <2>2, <3>1, Counts DEF Posted, Taken
    <3> QED
      BY <1>1, <3>2
  <2>3. CASE ~sending[p]
    <3>1. Posted(p) = (at[p] - 1) \div 2
      BY <1>1, <2>1, <2>3 DEF Posted
    <3> QED
      BY <1>1, <2>1, <3>1 DEF Taken
  <2> QED
    BY <2>2, <2>3
<1>10. Taken(p) \in 0..Exchanges
  BY <1>1, Ranges
<1> QED
  BY <1>1, <1>5, <1>8, <1>9, <1>10

\* A worker at the end of its script has taken every exchange.
LEMMA AllTaken ==
  ASSUME InvPlaces, NEW p \in Ranks, at[p] = 2 * Exchanges + 2
  PROVE  \A e \in 1..Exchanges : e <= Taken(p)
<1>1. Exchanges \in Nat \ {0}
  BY ScriptShape DEF InvPlaces
<1> QED
  BY <1>1 DEF Taken

\* The prefix a rank received is out of the rank before.
LEMMA PrefixIsOut ==
  ASSUME TorchInv, program = "allscan", NEW i \in Keys, NEW j \in Values
  PROVE  \A p \in Ranks : \A e \in 1..Exchanges :
           i \in BlockRows(Block(e)) /\ e <= Taken(p) =>
             got[p].prefix[i][j] = IF p = 0 THEN 0 ELSE Out(Scans, i, j)[p - 1]
<1> DEFINE Good(p) == \A e \in 1..Exchanges :
             i \in BlockRows(Block(e)) /\ e <= Taken(p) =>
               got[p].prefix[i][j] = IF p = 0 THEN 0 ELSE Out(Scans, i, j)[p - 1]
           S == {p \in Nat : p \in Ranks => Good(p)}
<1>1. /\ program \in Programs /\ InvGot /\ P \in Nat \ {0} /\ Ranks = 0..(P - 1)
  BY ShapeAssumption DEF TorchInv, InvPlaces, Ranks
<1>2. \A e \in 1..Exchanges : What(e) = "prefix"
  <2>1. Ups = Exchanges
    BY DEF Ups, Exchanges
  <2>2. Exchanges \in Nat
    BY <1>1, ScriptShape
  <2>3. \A e \in 1..Exchanges : Up(What(e))
    BY <1>1, <2>1, <2>2, ScriptShape
  <2> QED
    BY <2>3 DEF Up
<1>3. \A q \in Ranks, e \in 1..Exchanges :
        i \in BlockRows(Block(e)) =>
          got[q].prefix[i] = IF q - 1 \in Ranks /\ e <= Taken(q) THEN Sent(q - 1, e)[i] ELSE Zero[i]
  <2> TAKE q \in Ranks, e \in 1..Exchanges
  <2>1. Source(q, What(e)) = q - 1
    BY <1>2 DEF Source, Up
  <2>2. Has(q, e, q - 1)
    BY <1>1, <2>1, GotHas
  <2> QED
    BY <1>2, <2>2 DEF Has
<1>4. 0 \in S
  <2>1. 0 - 1 \notin Ranks
    BY <1>1
  <2>2. Zero[i][j] = 0
    BY DEF Zero
  <2> QED
    BY <1>1, <1>3, <2>1, <2>2
<1>5. ASSUME NEW n \in Nat, n \in S PROVE n + 1 \in S
  <2> SUFFICES ASSUME n + 1 \in Ranks, NEW e \in 1..Exchanges,
                      i \in BlockRows(Block(e)), e <= Taken(n + 1)
               PROVE  got[n + 1].prefix[i][j] = Out(Scans, i, j)[n]
    OBVIOUS
  <2>1. n \in Ranks /\ (n + 1) - 1 = n
    BY <1>1
  <2>2. got[n + 1].prefix[i] = Sent(n, e)[i]
    BY <1>3, <2>1
  <2>3. e <= Taken(n)
    <3>1. n = Source(n + 1, What(e))
      BY <1>2, <2>1 DEF Source, Up
    <3> QED
      BY <2>1, <3>1, TakenBefore
  <2>4. got[n].prefix[i][j] = IF n = 0 THEN 0 ELSE Out(Scans, i, j)[n - 1]
    BY <1>5, <2>1, <2>3
  <2>5. Sent(n, e)[i][j] =
          (got[n].scan.S_total[i][j] + got[n].scan.g_total[i] * got[n].prefix[i][j]) % Prime
    <3>1. Sent(n, e) = Outgoing(n, "prefix", Block(e))
      BY <1>2 DEF Sent
    <3> QED
      BY <3>1 DEF Outgoing, Matrix
  <2>6. got[n].scan.g_total[i] \in Int
    <3>1. input \in Inputs
      BY DEF TorchInv, InvPlaces
    <3>2. got[n].scan = gla_chunk_scan(input, n)
      BY <1>1, <2>1 DEF InvGot, Fresh
    <3> QED
      BY <2>1, <3>1, <3>2, DecayTyped
  <2>7. Out(Scans, i, j)[n] =
          (got[n].scan.S_total[i][j]
             + (IF n = 0 THEN 0 ELSE got[n].scan.g_total[i] * Out(Scans, i, j)[n - 1])) % Prime
    BY <2>1, OutScan DEF Scans
  <2>8. n = 0 => got[n].scan.g_total[i] * 0 = 0
    BY <2>6
  <2> QED
    BY <2>2, <2>4, <2>5, <2>7, <2>8
<1> HIDE DEF S
<1>6. Nat \subseteq S
  BY <1>4, <1>5, SetInduction
<1> QED
  BY <1>1, <1>6 DEF S

LEMMA GradsTyped ==
  ASSUME TorchInv, program = "allscan_backward", NEW p \in Ranks, NEW i \in Keys, NEW j \in Values
  PROVE  /\ got[p].g_out[i][j] \in Int
         /\ got[p].prefix = FwdRecv(Scans)[p]
<1>1. program \in Programs /\ input \in Inputs /\ InvGot
  BY DEF TorchInv, InvPlaces
<1>2. {What(e) : e \in 1..Exchanges} \subseteq {"adjoint"}
  BY <1>1, ScriptShape
<1>3. /\ got[p].g_out = Fresh(program, input)[p].g_out
      /\ got[p].prefix = Fresh(program, input)[p].prefix
  BY <1>1, <1>2 DEF InvGot
<1>4. \A q \in Ranks : got[q].scan = gla_chunk_scan(input, q)
  BY <1>1 DEF InvGot, Fresh
<1>5. Scans = [q \in Ranks |-> gla_chunk_scan(input, q)]
  BY <1>4 DEF Scans
<1>6. /\ Fresh(program, input)[p].g_out = MakeGradInputs(input, p)
      /\ Fresh(program, input)[p].prefix = FwdRecv(Scans)[p]
  BY <1>5 DEF Fresh
<1>7. MakeGradInputs(input, p)[i][j] \in Int
  <2>1. p * L \in Tokens
    <3>1. 0 \in Chunks /\ 0 \in Rows
      BY ShapeAssumption DEF Chunks, Rows
    <3>2. Token(p, 0, 0) \in Tokens
      BY <3>1, TokenTyped
    <3>3. C \in Nat /\ N \in Nat /\ p \in Nat
      BY ShapeAssumption DEF Ranks
    <3>4. PICK l \in Nat : l = L
      BY <3>3 DEF L
    <3>5. p * l \in Nat /\ p * l + 0 * C + 0 = p * l
      BY <3>3, <3>4
    <3> QED
      BY <3>2, <3>4, <3>5 DEF Token
  <2>2. input.k \in [Tokens -> [Keys -> Int]] /\ input.dO \in [Tokens -> [Values -> Int]]
    BY <1>1, InputAssumption
  <2>3. input.k[p * L][i] \in Int /\ input.dO[p * L][j] \in Int
    BY <2>1, <2>2
  <2>4. PICK x \in Int, y \in Int : x = input.k[p * L][i] /\ y = input.dO[p * L][j]
    BY <2>3
  <2>5. MakeGradInputs(input, p)[i][j] = (x * y) % Prime
    BY <2>4 DEF MakeGradInputs, Matrix
  <2>6. x * y \in Int
    OBVIOUS
  <2> QED
    BY <2>5, <2>6, Field
<1> QED
  BY <1>3, <1>6, <1>7

\* What a rank hands down is the adjoint of its state.
LEMMA AdjointIs ==
  ASSUME TorchInv, program = "allscan_backward", NEW i \in Keys, NEW j \in Values
  PROVE  \A p \in Ranks : \A e \in 1..Exchanges :
           i \in BlockRows(Block(e)) /\ e <= Taken(p) =>
             D(got[p], i, j) = Adjoint(Scans, Grads, i, j)[p]
<1> DEFINE A == Adjoint(Scans, Grads, i, j)
           Good(p) == \A e \in 1..Exchanges :
             i \in BlockRows(Block(e)) /\ e <= Taken(p) =>
               D(got[p], i, j) = A[p] /\ A[p] \in Int
           S == {n \in Nat : P - 1 - n \in Ranks => Good(P - 1 - n)}
<1>1. /\ program \in Programs /\ input \in Inputs /\ InvGot /\ P \in Nat \ {0} /\ Ranks = 0..(P - 1)
  BY ShapeAssumption DEF TorchInv, InvPlaces, Ranks
<1>2. \A e \in 1..Exchanges : What(e) = "adjoint"
  BY <1>1, ScriptShape
<1>3. \A q \in Ranks, e \in 1..Exchanges :
        i \in BlockRows(Block(e)) =>
          got[q].adjoint[i] = IF q + 1 \in Ranks /\ e <= Taken(q) THEN Sent(q + 1, e)[i] ELSE Zero[i]
  <2> TAKE q \in Ranks, e \in 1..Exchanges
  <2>1. Source(q, What(e)) = q + 1
    BY <1>2 DEF Source, Up
  <2>2. Has(q, e, q + 1)
    BY <1>1, <2>1, GotHas
  <2> QED
    BY <1>2, <2>2 DEF Has
<1>4. \A q \in Ranks :
        A[q] = (got[q].g_out[i][j]
                  + (IF q = P - 1 THEN 0 ELSE got[q + 1].scan.g_total[i] * A[q + 1])) % Prime
  <2> TAKE q \in Ranks
  <2>0. PICK scan, g_out : scan = Scans /\ g_out = Grads
    OBVIOUS
  <2>1. A[q] = (Grads[q][i][j] + (IF q = P - 1 THEN 0 ELSE Scans[q + 1].g_total[i] * A[q + 1])) % Prime
    <3>1. IsAdjoint(scan, g_out, i, j, q)
      BY AdjointScan
    <3> QED
      BY <2>0, <3>1 DEF IsAdjoint
  <2>2. q # P - 1 => q + 1 \in Ranks
    BY <1>1
  <2> HIDE DEF A
  <2> QED
    BY <2>1, <2>2 DEF Grads, Scans
<1>5. \A q \in Ranks : got[q].g_out[i][j] \in Int
  BY GradsTyped
<1> HIDE DEF A
<1>6. 0 \in S
  <2>1. PICK q : q = P - 1
    OBVIOUS
  <2>2. q \in Ranks /\ q + 1 \notin Ranks /\ P - 1 - 0 = q
    BY <1>1, <2>1
  <2>3. A[q] = (got[q].g_out[i][j] + 0) % Prime
    BY <1>4, <2>1, <2>2
  <2>4. A[q] \in Int
    <3>1. got[q].g_out[i][j] + 0 \in Int
      BY <1>5, <2>2
    <3> QED
      BY <2>3, <3>1, Field
  <2>5. Zero[i][j] = 0
    BY DEF Zero
  <2>6. Good(q)
    BY <1>3, <2>2, <2>3, <2>4, <2>5 DEF D
  <2> QED
    BY <2>2, <2>6
<1>7. ASSUME NEW n \in Nat, n \in S PROVE n + 1 \in S
  <2>1. PICK q : q = P - 1 - (n + 1)
    OBVIOUS
  <2> SUFFICES ASSUME q \in Ranks, NEW e \in 1..Exchanges, i \in BlockRows(Block(e)), e <= Taken(q)
               PROVE  D(got[q], i, j) = A[q] /\ A[q] \in Int
    BY <2>1
  <2>2. q + 1 \in Ranks /\ q # P - 1 /\ P - 1 - n = q + 1
    BY <1>1, <2>1
  <2>3. e <= Taken(q + 1)
    <3>1. q + 1 = Source(q, What(e))
      BY <1>2 DEF Source, Up
    <3> QED
      BY <2>2, <3>1, TakenBefore
  <2>4. D(got[q + 1], i, j) = A[q + 1] /\ A[q + 1] \in Int
    BY <1>7, <2>2, <2>3
  <2>5. Sent(q + 1, e)[i][j] = (got[q + 1].scan.g_total[i] * D(got[q + 1], i, j)) % Prime
    <3>1. Sent(q + 1, e) = Outgoing(q + 1, "adjoint", Block(e))
      BY <1>2 DEF Sent
    <3> QED
      BY <3>1 DEF Outgoing, Matrix
  <2>6. got[q + 1].scan.g_total[i] \in Int
    <3>1. got[q + 1].scan = gla_chunk_scan(input, q + 1)
      BY <1>1, <2>2 DEF InvGot, Fresh
    <3> QED
      BY <1>1, <2>2, <3>1, DecayTyped
  <2>7. PICK y \in Int : y = got[q + 1].scan.g_total[i] * A[q + 1]
    BY <2>4, <2>6
  <2>8. PICK x \in Int : x = got[q].g_out[i][j]
    BY <1>5
  <2>9. got[q].adjoint[i][j] = y % Prime
    BY <1>3, <2>2, <2>4, <2>5, <2>7
  <2>10. D(got[q], i, j) = (x + (y % Prime)) % Prime
    BY <2>9, <2>8 DEF D
  <2>11. A[q] = (x + y) % Prime
    BY <1>4, <2>2, <2>7, <2>8
  <2>12. A[q] \in Int
    <3>1. x + y \in Int
      OBVIOUS
    <3> QED
      BY <2>11, <3>1, Field
  <2> QED
    BY <2>10, <2>11, <2>12, ModAdd
<1> HIDE DEF S
<1>8. Nat \subseteq S
  BY <1>6, <1>7, SetInduction
<1>9. ASSUME NEW p \in Ranks PROVE Good(p)
  <2>1. PICK n \in Nat : p = P - 1 - n
    <3>1. P - 1 - p \in Nat /\ p = P - 1 - (P - 1 - p)
      BY <1>1
    <3> QED
      BY <3>1
  <2>2. n \in S
    BY <1>8
  <2> QED
    BY <2>1, <2>2 DEF S
<1> QED
  BY <1>9 DEF A

\* The parent of the AllScan baselines collects expected_allscan and
\* expected_allscan_backward, from whichever workers deliver.
THEOREM AllScanReference ==
  Spec => [](program \in {"allscan", "allscan_backward"} => CollectedIsReference)
<1>1. ASSUME TorchInv, program = "allscan" PROVE CollectedIsReference
  <2> SUFFICES ASSUME NEW p \in DOMAIN collected
               PROVE  collected[p] = ExpectedAllScan(Scans)[p]
    BY <1>1 DEF CollectedIsReference, Scans
  <2>1. p \in Ranks /\ at[p] = 2 * Exchanges + 2 /\ collected[p] = Owed(p)
    BY <1>1 DEF TorchInv, InvResults
  <2>2. program \in Programs /\ InvPlaces /\ InvGot /\ input \in Inputs
    BY <1>1 DEF TorchInv, InvPlaces
  <2>3. Owed(p) = [i \in Keys |-> [j \in Values |->
          (got[p].scan.S_total[i][j] + got[p].scan.g_total[i] * got[p].prefix[i][j]) % Prime]]
    BY <1>1 DEF Owed, Result, Matrix, Total
  <2>4. ASSUME NEW i \in Keys, NEW j \in Values
        PROVE  (got[p].scan.S_total[i][j] + got[p].scan.g_total[i] * got[p].prefix[i][j]) % Prime
                 = Out(Scans, i, j)[p]
    <3>1. PICK e \in 1..Exchanges : i \in BlockRows(Block(e))
      BY <2>2, ScriptShape DEF Covered
    <3>2. e <= Taken(p)
      BY <2>1, <2>2, AllTaken
    <3>3. got[p].prefix[i][j] = IF p = 0 THEN 0 ELSE Out(Scans, i, j)[p - 1]
      BY <1>1, <2>1, <3>1, <3>2, PrefixIsOut
    <3>4. got[p].scan = gla_chunk_scan(input, p)
      BY <2>1, <2>2 DEF InvGot, Fresh
    <3>5. got[p].scan.g_total[i] \in Int
      BY <2>1, <2>2, <3>4, DecayTyped
    <3>6. got[p].scan.g_total[i] * 0 = 0
      BY <3>5
    <3>7. Out(Scans, i, j)[p] =
            (got[p].scan.S_total[i][j]
               + (IF p = 0 THEN 0 ELSE got[p].scan.g_total[i] * Out(Scans, i, j)[p - 1])) % Prime
      BY <2>1, OutScan DEF Scans
    <3> QED
      BY <3>3, <3>6, <3>7
  <2>5. ExpectedAllScan(Scans)[p] = [i \in Keys |-> [j \in Values |-> Out(Scans, i, j)[p]]]
    BY <2>1 DEF ExpectedAllScan
  <2> QED
    BY <2>1, <2>3, <2>4, <2>5
<1>2. ASSUME TorchInv, program = "allscan_backward" PROVE CollectedIsReference
  <2> DEFINE dS == ExpectedState(Scans, Grads)
  <2> SUFFICES ASSUME NEW p \in DOMAIN collected
               PROVE  collected[p] = <<dS[p], ExpectedDecay(dS, FwdRecv(Scans))[p]>>
    BY <1>2 DEF CollectedIsReference, Scans, Grads
  <2>1. p \in Ranks /\ at[p] = 2 * Exchanges + 2 /\ collected[p] = Owed(p)
    BY <1>2 DEF TorchInv, InvResults
  <2>2. program \in Programs /\ InvPlaces
    BY <1>2 DEF TorchInv, InvPlaces
  <2> DEFINE d == [i \in Keys |-> [j \in Values |-> D(got[p], i, j)]]
             dgamma == [i \in Keys |->
                         IF p = 0 THEN 0
                         ELSE SumOf(DV, [j \in 0..(DV - 1) |-> d[i][j] * got[p].prefix[i][j]])]
  <2>3. Owed(p) = <<d, dgamma>>
    BY <1>2 DEF Owed, Result, Matrix, Total
  <2>4. ASSUME NEW i \in Keys, NEW j \in Values
        PROVE  D(got[p], i, j) = Adjoint(Scans, Grads, i, j)[p]
    <3>1. PICK e \in 1..Exchanges : i \in BlockRows(Block(e))
      BY <2>2, ScriptShape DEF Covered
    <3>2. e <= Taken(p)
      BY <2>1, <2>2, AllTaken
    <3> QED
      BY <1>2, <2>1, <3>1, <3>2, AdjointIs
  <2>5. dS[p] = d
    BY <2>1, <2>4 DEF ExpectedState
  <2>6. got[p].prefix = FwdRecv(Scans)[p]
    <3>1. 0 \in Keys /\ 0 \in Values
      BY ShapeAssumption DEF Keys, Values
    <3> QED
      BY <1>2, <2>1, <3>1, GradsTyped
  <2>7. ExpectedDecay(dS, FwdRecv(Scans))[p] =
          [i \in Keys |->
            IF p = 0 THEN 0
            ELSE SumOf(DV, [j \in 0..(DV - 1) |-> dS[p][i][j] * FwdRecv(Scans)[p][i][j]])]
    <3> HIDE DEF dS
    <3> QED
      BY <2>1 DEF ExpectedDecay, Total
  <2> HIDE DEF dS, d
  <2> QED
    BY <2>1, <2>3, <2>5, <2>6, <2>7
<1>3. TorchInv => (program \in {"allscan", "allscan_backward"} => CollectedIsReference)
  BY <1>1, <1>2
<1> QED
  BY <1>3, TorchInvariant, PTL
=============================================================================
