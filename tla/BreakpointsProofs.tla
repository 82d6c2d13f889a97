------------------------- MODULE BreakpointsProofs -------------------------
(***************************************************************************)
(* Theorems about Breakpoints, for any threads, any table of distinct      *)
(* addresses and any distance of a single step.                            *)
(***************************************************************************)
EXTENDS Breakpoints, TLAPS

\* The entries set_bps() has passed.
Written == {Table[i] : i \in 1..walk}

\* The table holds the driver's byte of every entry passed, and an int3 is
\* nowhere else, whatever the threads do.
Walked ==
  /\ \A p \in Written : orig_byte[p] = "orig"
  /\ \A p \in Points \ Written : byte[p] = "orig"
  /\ last_hit \in Written \union {None}
  /\ \A t \in Threads : at[t].loc # "run" => at[t].point \in Written

\* Undisturbed, one thread at most is at a breakpoint, and last_hit is its own.
Alone ==
  ~disturbed =>
    /\ \A t, u \in Threads : at[t].loc # "run" /\ at[u].loc # "run" => t = u
    /\ \A t \in Threads : at[t].loc \in {"taken", "step", "rearm"} => last_hit = at[t].point

IInv == TypeOK /\ Walked /\ Alone /\ RearmedOneAtATime

\* What the table holds.
LEMMA TableFacts ==
  /\ Len(Table) \in Nat \ {0}
  /\ Points = {Table[i] : i \in 1..Len(Table)}
  /\ Points \subseteq Nat
  /\ None \notin Points
<1>1. Len(Table) \in Nat \ {0} /\ DOMAIN Table = 1..Len(Table)
  BY BreakpointsAssumption
<1>2. \A i \in 1..Len(Table) : Table[i] \in Nat
  BY BreakpointsAssumption, <1>1
<1> QED
  BY BreakpointsAssumption, <1>1, <1>2 DEF Points, ToSet

\* The walk stays in the table, and what it has not reached is not written.
LEMMA WrittenFacts ==
  ASSUME TypeOK
  PROVE  /\ Written \subseteq Points
         /\ walk \in 0..(Len(Table) - 1)
            => /\ Table[walk + 1] \in Points \ Written
               /\ {Table[i] : i \in 1..(walk + 1)} = Written \union {Table[walk + 1]}
<1>1. walk \in Int /\ walk <= Len(Table) /\ Len(Table) \in Nat /\ DOMAIN Table = 1..Len(Table)
  BY TableFacts, BreakpointsAssumption DEF TypeOK
<1>2. Written \subseteq Points
  BY <1>1, TableFacts DEF Written
<1>3. ASSUME walk \in 0..(Len(Table) - 1)
      PROVE  /\ Table[walk + 1] \in Points \ Written
             /\ {Table[i] : i \in 1..(walk + 1)} = Written \union {Table[walk + 1]}
  <2>1. Table[walk + 1] \in Points
    BY <1>1, <1>3, TableFacts
  <2>2. \A i \in 1..walk : Table[i] # Table[walk + 1]
    BY <1>1, <1>3, BreakpointsAssumption
  <2>3. 1..(walk + 1) = (1..walk) \union {walk + 1}
    BY <1>3
  <2> QED
    BY <2>1, <2>2, <2>3 DEF Written
<1> QED
  BY <1>2, <1>3

\* Before set_bps() nothing is written and no thread is at a breakpoint.
LEMMA InitIInv == Init => IInv
<1> SUFFICES ASSUME Init PROVE IInv
  OBVIOUS
<1>1. Table[1] \in Points
  BY TableFacts
<1>2. Written = {}
  BY DEF Written, Init
<1>3. TypeOK
  BY <1>1, TableFacts DEF TypeOK, Init
<1>4. Walked /\ Alone /\ RearmedOneAtATime
  BY <1>2 DEF Walked, Alone, RearmedOneAtATime, Init
<1> QED
  BY <1>3, <1>4 DEF IInv

\* set_bps() takes the driver's byte of an entry it has not written before.
LEMMA SetNextPreserves ==
  ASSUME IInv, SetNext
  PROVE  IInv'
<1> DEFINE q == Table[walk + 1]
<1>1. TypeOK /\ Walked /\ Alone /\ RearmedOneAtATime
  BY DEF IInv
<1>2. q \in Points \ Written /\ Written' = Written \union {q} /\ Written \subseteq Points
  BY <1>1, WrittenFacts DEF Written, SetNext
<1>3. byte[q] = "orig" /\ byte' = [byte EXCEPT ![q] = "int3"]
      /\ orig_byte' = [orig_byte EXCEPT ![q] = "orig"]
  BY <1>1, <1>2 DEF Walked, SetNext
<1>4. TypeOK'
  BY <1>1, <1>2, <1>3, TableFacts DEF TypeOK, SetNext
<1>5. Walked'
  BY <1>1, <1>2, <1>3 DEF Walked, TypeOK, SetNext
<1>6. Alone'
  BY <1>1 DEF Alone, SetNext
<1>7. RearmedOneAtATime'
  <2> SUFFICES ASSUME ~disturbed, NEW i \in 1..(walk + 1), byte'[Table[i]] = "orig"
               PROVE  /\ last_hit = Table[i]
                      /\ \E t \in Threads : /\ at[t].loc \in {"step", "rearm"}
                                            /\ at[t].point = Table[i]
    BY <1>1 DEF RearmedOneAtATime, SetNext
  <2>1. i # walk + 1
    BY <1>1, <1>2, <1>3 DEF TypeOK
  <2>2. i \in 1..walk /\ Table[i] # q /\ Table[i] \in Points
    BY <2>1, <1>2 DEF SetNext, Written
  <2>3. byte[Table[i]] = "orig"
    BY <2>2, <1>1, <1>3 DEF TypeOK
  <2> QED
    BY <2>2, <2>3, <1>1 DEF RearmedOneAtATime
<1> QED
  BY <1>4, <1>5, <1>6, <1>7 DEF IInv

\* A thread that meets a breakpoint undisturbed meets it alone, with every
\* breakpoint in the code.
LEMMA TrapPreserves ==
  ASSUME IInv, NEW t \in Threads, NEW p \in Points, Trap(t, p)
  PROVE  IInv'
<1>1. TypeOK /\ Walked /\ Alone /\ RearmedOneAtATime /\ Written' = Written
  BY DEF IInv, Trap, Written
<1>2. at' = [at EXCEPT ![t] = [loc |-> "trapped", point |-> p]]
  BY DEF Trap, Move
<1>3. p \in Written
  BY <1>1 DEF Walked, Trap
<1>4. TypeOK'
  BY <1>1, <1>2 DEF TypeOK, Trap
<1>5. Walked'
  BY <1>1, <1>2, <1>3 DEF Walked, TypeOK, Trap
<1>6. ASSUME ~disturbed'
      PROVE  ~disturbed /\ \A u \in Threads : at[u].loc = "run"
  BY <1>6 DEF Trap
<1>7. Alone'
  BY <1>1, <1>2, <1>6 DEF Alone, TypeOK
<1>8. RearmedOneAtATime'
  BY <1>1, <1>6 DEF RearmedOneAtATime, Trap
<1> QED
  BY <1>4, <1>5, <1>7, <1>8 DEF IInv

\* The filter notes the breakpoint the thread has met.
LEMMA TakePreserves ==
  ASSUME IInv, NEW t \in Threads, Take(t)
  PROVE  IInv'
<1>1. TypeOK /\ Walked /\ Alone /\ RearmedOneAtATime /\ Written' = Written
  BY DEF IInv, Take, Written
<1>2. /\ at' = [at EXCEPT ![t] = [loc |-> "taken", point |-> at[t].point]]
      /\ last_hit' = at[t].point /\ at[t].point \in Points \intersect Written
  BY <1>1 DEF Take, Move, Walked, TypeOK
<1>3. TypeOK'
  BY <1>1, <1>2 DEF TypeOK, Take
<1>4. Walked'
  BY <1>1, <1>2 DEF Walked, TypeOK, Take
<1>5. Alone'
  BY <1>1, <1>2 DEF Alone, TypeOK, Take
<1>6. RearmedOneAtATime'
  BY <1>1, <1>2 DEF RearmedOneAtATime, Alone, Take
<1> QED
  BY <1>3, <1>4, <1>5, <1>6 DEF IInv

\* The driver's byte is put back at the breakpoint last_hit names.
LEMMA RestorePreserves ==
  ASSUME IInv, NEW t \in Threads, Restore(t)
  PROVE  IInv'
<1> DEFINE p == at[t].point
<1>1. TypeOK /\ Walked /\ Alone /\ RearmedOneAtATime /\ Written' = Written
  BY DEF IInv, Restore, Written
<1>2. p \in Points \intersect Written /\ orig_byte[p] = "orig"
  BY <1>1 DEF Restore, Walked, TypeOK
<1>3. /\ at' = [at EXCEPT ![t] = [loc |-> "step", point |-> p]]
      /\ byte' = [byte EXCEPT ![p] = "orig"]
  BY <1>2 DEF Restore, Move
<1>4. TypeOK'
  BY <1>1, <1>2, <1>3 DEF TypeOK, Restore
<1>5. Walked'
  BY <1>1, <1>2, <1>3 DEF Walked, TypeOK, Restore
<1>6. Alone'
  BY <1>1, <1>3 DEF Alone, TypeOK, Restore
<1>7. RearmedOneAtATime'
  <2> SUFFICES ASSUME ~disturbed, NEW i \in 1..walk, byte'[Table[i]] = "orig"
               PROVE  /\ last_hit = Table[i]
                      /\ \E u \in Threads : /\ at'[u].loc \in {"step", "rearm"}
                                            /\ at'[u].point = Table[i]
    BY <1>1 DEF RearmedOneAtATime, Restore
  <2>1. last_hit = p
    BY <1>1 DEF Alone, Restore
  <2>2. Table[i] = p
    BY <2>1, <1>1, <1>3 DEF RearmedOneAtATime, TypeOK, Written
  <2>3. at'[t].loc = "step" /\ at'[t].point = p
    BY <1>1, <1>3 DEF TypeOK
  <2> QED
    BY <2>1, <2>2, <2>3
<1> QED
  BY <1>4, <1>5, <1>6, <1>7 DEF IInv

\* A single step that stays near leaves the thread with the int3 to write back.
LEMMA StepPreserves ==
  ASSUME IInv, NEW t \in Threads, NEW addr \in Successors(at[t].point), Step(t, addr)
  PROVE  IInv'
<1> DEFINE p == at[t].point
<1>1. TypeOK /\ Walked /\ Alone /\ RearmedOneAtATime /\ Written' = Written
  BY DEF IInv, Step, Written
<1>2. p \in Points \intersect Written
  BY <1>1 DEF Step, Walked, TypeOK
<1>3. PICK loc \in {"run", "trapped", "rearm"} :
        at' = [at EXCEPT ![t] = [loc |-> loc, point |-> p]]
  BY DEF Step, Move
<1>4. TypeOK'
  BY <1>1, <1>2, <1>3 DEF TypeOK, Step
<1>5. Walked'
  BY <1>1, <1>2, <1>3 DEF Walked, TypeOK, Step
<1>6. ~disturbed' => ~disturbed
  BY DEF Step
<1>7. Alone'
  BY <1>1, <1>3, <1>6 DEF Alone, TypeOK, Step
<1>8. RearmedOneAtATime'
  <2> SUFFICES ASSUME ~disturbed', NEW i \in 1..walk, byte[Table[i]] = "orig"
               PROVE  /\ last_hit = Table[i]
                      /\ \E u \in Threads : /\ at'[u].loc \in {"step", "rearm"}
                                            /\ at'[u].point = Table[i]
    BY <1>1, <1>6 DEF RearmedOneAtATime, Step
  <2>1. last_hit = Table[i] /\ last_hit = p
    BY <1>1, <1>6 DEF RearmedOneAtATime, Alone, Step
  <2>2. p \in Int /\ addr \in Int /\ p # None
    BY <1>2, TableFacts, BreakpointsAssumption DEF Successors
  <2>3. addr - p < Near
    <3>1. byte[p] # "int3"
      BY <2>1
    <3>2. ~(addr - p >= Near)
      BY <3>1 DEF Step
    <3> QED
      BY <2>2, <3>2, BreakpointsAssumption
  <2>4. Move(t, "rearm", p)
    BY <2>1, <2>2, <2>3 DEF Step, Rearms
  <2>5. at'[t].loc = "rearm" /\ at'[t].point = p
    BY <2>4, <1>1 DEF TypeOK, Move
  <2> QED
    BY <2>1, <2>5
<1> QED
  BY <1>4, <1>5, <1>7, <1>8 DEF IInv

\* The int3 is written back, and last_hit is not NULL when a thread is alone.
LEMMA RearmPreserves ==
  ASSUME IInv, NEW t \in Threads, Rearm(t)
  PROVE  IInv'
<1>1. TypeOK /\ Walked /\ Alone /\ RearmedOneAtATime /\ Written' = Written
  BY DEF IInv, Rearm, Written
<1>2. CASE last_hit = None
  <2>1. disturbed
    BY <1>1, <1>2, TableFacts DEF Alone, TypeOK, Rearm
  <2>2. TypeOK'
    BY <1>1, <1>2 DEF TypeOK, Rearm
  <2>3. Walked'
    BY <1>1, <1>2 DEF Walked, Rearm
  <2>4. Alone' /\ RearmedOneAtATime'
    BY <2>1 DEF Alone, RearmedOneAtATime, Rearm
  <2> QED
    BY <2>2, <2>3, <2>4 DEF IInv
<1>3. CASE last_hit # None
  <2>1. /\ at' = [at EXCEPT ![t] = [loc |-> "run", point |-> at[t].point]]
        /\ byte' = [byte EXCEPT ![last_hit] = "int3"] /\ last_hit' = None
        /\ last_hit \in Points \intersect Written
    BY <1>1, <1>3 DEF Rearm, Move, TypeOK, Walked
  <2>2. TypeOK'
    BY <1>1, <1>3, <2>1 DEF TypeOK, Rearm
  <2>3. Walked'
    BY <1>1, <2>1 DEF Walked, TypeOK, Rearm
  <2>4. Alone'
    BY <1>1, <2>1 DEF Alone, TypeOK, Rearm
  <2>5. RearmedOneAtATime'
    <3> SUFFICES ASSUME ~disturbed
                 PROVE  process # "filter" /\ \A i \in 1..walk : byte'[Table[i]] # "orig"
      BY <1>1, <1>3 DEF RearmedOneAtATime, Rearm
    <3> QED
      BY <1>1, <2>1 DEF RearmedOneAtATime, TypeOK, Rearm, Written
  <2> QED
    BY <2>2, <2>3, <2>4, <2>5 DEF IInv
<1> QED
  BY <1>2, <1>3

\* The calls of set_bps() and what ends the process change no byte.
LEMMA OthersPreserve ==
  ASSUME IInv,
         SetBps \/ Overrun \/ (\E t \in Threads : OtherException(t)) \/ UNCHANGED vars
  PROVE  IInv'
<1>1. TypeOK /\ Walked /\ Alone /\ RearmedOneAtATime
  BY DEF IInv
<1>2. CASE SetBps
  <2>1. Written' = {} /\ Written = {} /\ walk' = 0
    BY <1>2 DEF SetBps, Written
  <2>2. TypeOK'
    BY <1>1, <1>2, TableFacts DEF TypeOK, SetBps
  <2>3. Walked' /\ Alone' /\ RearmedOneAtATime'
    BY <1>1, <1>2, <2>1 DEF Walked, Alone, RearmedOneAtATime, SetBps
  <2> QED
    BY <2>2, <2>3 DEF IInv
<1>3. CASE Overrun \/ (\E t \in Threads : OtherException(t)) \/ UNCHANGED vars
  <2>1. /\ process' \in {process, "table", "exception"}
        /\ UNCHANGED <<walk, byte, orig_byte, last_hit, at, disturbed>>
    BY <1>3 DEF Overrun, OtherException, vars
  <2>2. TypeOK' /\ Walked' /\ Alone' /\ RearmedOneAtATime'
    BY <1>1, <2>1 DEF TypeOK, Walked, Alone, RearmedOneAtATime, Written
  <2> QED
    BY <2>2 DEF IInv
<1> QED
  BY <1>2, <1>3

LEMMA NextPreservesIInv == IInv /\ [Next]_vars => IInv'
  BY SetNextPreserves, TrapPreserves, TakePreserves, RestorePreserves, StepPreserves,
     RearmPreserves, OthersPreserve DEF Next

LEMMA IInvAlways == Spec => []IInv
  BY InitIInv, NextPreservesIInv, PTL DEF Spec

\* What the table holds as a byte of the driver is never an int3 of its own,
\* however the threads run into the breakpoints of breakpoints.c.
THEOREM TypeCorrect == Spec => []TypeOK
  BY IInvAlways, PTL DEF IInv

\* Threads that meet breakpoints one at a time and leave them by short jumps
\* never lose one, nor make the filter follow a NULL last_hit.
THEOREM RearmCorrect == Spec => []RearmedOneAtATime
  BY IInvAlways, PTL DEF IInv
=============================================================================
