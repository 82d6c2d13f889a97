---------------------------- MODULE Breakpoints ----------------------------
(***************************************************************************)
(* breakpoints.c: int3 breakpoints in the code of the driver.              *)
(*                                                                         *)
(* A thread that meets an int3 runs BreakpointExceptionFilter(): the byte  *)
(* of the driver is put back, the thread executes that one instruction     *)
(* with the trap flag set, and the single-step exception runs the filter   *)
(* again, which writes the int3 back.  What is to be written back is in    *)
(* last_hit, one variable for all threads, read and written without a      *)
(* lock.  It is read three times by the second half, as the makefile       *)
(* builds without optimisation.                                            *)
(***************************************************************************)
EXTENDS Integers, Sequences, SequencesExt

CONSTANTS
  Threads,     \* threads of the driver and the program
  Table,       \* addresses of breakpoints[], in order
  Near,        \* how far a single step may get: 100 bytes in the code
  None         \* NULL

Points == ToSet(Table)

\* breakpoints[] has entries, each of an address of its own.
ASSUME BreakpointsAssumption ==
  /\ Table \in Seq(Nat) /\ Table # <<>>
  /\ \A i, j \in DOMAIN Table : Table[i] = Table[j] => i = j
  /\ Near \in Nat \ {0} /\ None \notin Nat

VARIABLES
  walk,        \* entries set_bps() has passed, -1 before it is called
  process,     \* "up", or what ended it: "table", "exception" or "filter"
  byte,        \* what is in the code at each address: "orig" or "int3"
  orig_byte,   \* what the table holds as the byte of the driver
  last_hit,
  at,          \* where each thread is, and the breakpoint it has met
  disturbed    \* history: two threads met breakpoints at a time, or one
               \* left a breakpoint by a long jump

vars == <<walk, process, byte, orig_byte, last_hit, at, disturbed>>

Move(t, loc, p) == at' = [at EXCEPT ![t] = [loc |-> loc, point |-> p]]

(***************************************************************************)
(* set_bps()                                                               *)
(***************************************************************************)
\* "set_bps was never meant to be called twice": a second call does nothing.
SetBps_Again ==
  /\ process = "up" /\ walk \in {-1, Len(Table)}
  /\ walk' = 0
  /\ UNCHANGED <<process, byte, orig_byte, last_hit, at, disturbed>>
SetBps ==
  /\ process = "up" /\ walk = -1
  /\ walk' = 0
  /\ UNCHANGED <<process, byte, orig_byte, last_hit, at, disturbed>>

SetNext ==
  /\ process = "up" /\ walk \in 0..(Len(Table) - 1)
  /\ LET p == Table[walk + 1]
     IN  /\ orig_byte' = [orig_byte EXCEPT ![p] = byte[p]]
         /\ byte' = [byte EXCEPT ![p] = "int3"]
  /\ walk' = walk + 1
  /\ UNCHANGED <<process, last_hit, at, disturbed>>

\* breakpoints[] has no entry with address 0, and the loop goes on with what
\* the linker put there.  If that is not 0 it is no address of the driver.
Overrun ==
  /\ process = "up" /\ walk = Len(Table)
  /\ process' = "table"
  /\ UNCHANGED <<walk, byte, orig_byte, last_hit, at, disturbed>>

(***************************************************************************)
(* A thread meets a breakpoint                                             *)
(***************************************************************************)
Trap(t, p) ==
  /\ process = "up" /\ at[t].loc = "run" /\ byte[p] = "int3"
  /\ Move(t, "trapped", p)
  /\ disturbed' = (disturbed \/ \E u \in Threads \ {t} : at[u].loc # "run")
  /\ UNCHANGED <<walk, process, byte, orig_byte, last_hit>>

\* last_hit = b
Take(t) ==
  /\ process = "up" /\ at[t].loc = "trapped"
  /\ last_hit' = at[t].point
  /\ Move(t, "taken", at[t].point)
  /\ UNCHANGED <<walk, process, byte, orig_byte, disturbed>>

\* *addr = b->orig_byte, the handler, and SetThreadContext(), which resumes
\* the thread with the trap flag set.
Restore(t) ==
  /\ process = "up" /\ at[t].loc = "taken"
  /\ byte' = [byte EXCEPT ![at[t].point] = orig_byte[at[t].point]]
  /\ Move(t, "step", at[t].point)
  /\ UNCHANGED <<walk, process, orig_byte, last_hit, disturbed>>

\* addr - last_hit->address < 100, a difference of pointers: any address
\* before the breakpoint is near.
Rearms_Unsigned(addr) == last_hit # None /\ addr - last_hit \in 0..(Near - 1)
Rearms(addr) == last_hit # None /\ addr - last_hit < Near

\* The single step takes the thread to addr.  If another thread has written
\* the int3 back before, the thread meets it again.
Step(t, addr) ==
  /\ process = "up" /\ at[t].loc = "step"
  /\ IF byte[at[t].point] = "int3"
       THEN Move(t, "trapped", at[t].point) /\ UNCHANGED disturbed
       ELSE /\ Move(t, IF Rearms(addr) THEN "rearm" ELSE "run", at[t].point)
            /\ disturbed' = (disturbed \/ addr - at[t].point >= Near)
  /\ UNCHANGED <<walk, process, byte, orig_byte, last_hit>>

\* *last_hit->address = 0xcc; last_hit = NULL
Rearm(t) ==
  /\ process = "up" /\ at[t].loc = "rearm"
  /\ IF last_hit = None
       THEN process' = "filter" /\ UNCHANGED <<byte, last_hit, at>>
       ELSE /\ byte' = [byte EXCEPT ![last_hit] = "int3"]
            /\ last_hit' = None
            /\ Move(t, "run", at[t].point)
            /\ UNCHANGED process
  /\ UNCHANGED <<walk, orig_byte, disturbed>>

\* Any other exception of the driver: the filter passes it on.
OtherException(t) ==
  /\ process = "up" /\ at[t].loc = "run" /\ walk >= 0
  /\ process' = "exception"
  /\ UNCHANGED <<walk, byte, orig_byte, last_hit, at, disturbed>>

\* An instruction falls through, jumps back, or jumps far ahead.
Successors(p) == {p + 1, p - 1, p + Near}

Init ==
  /\ walk = -1 /\ process = "up" /\ last_hit = None /\ disturbed = FALSE
  /\ byte = [p \in Points |-> "orig"] /\ orig_byte = [p \in Points |-> "none"]
  /\ at \in [Threads -> {[loc |-> "run", point |-> Table[1]]}]

Next ==
  \/ SetBps \/ SetNext \/ Overrun
  \/ \E t \in Threads :
       \/ \E p \in Points : Trap(t, p)
       \/ Take(t) \/ Restore(t)
       \/ \E addr \in Successors(at[t].point) : Step(t, addr)
       \/ Rearm(t) \/ OtherException(t)

Spec == Init /\ [][Next]_vars

(***************************************************************************)
(* Properties                                                              *)
(***************************************************************************)
\* The types; what the table holds as the byte of the driver is never an int3
\* of its own, with which no thread would get past the breakpoint.
TypeOK ==
  /\ walk \in -1..Len(Table)
  /\ process \in {"up", "table", "exception", "filter"}
  /\ byte \in [Points -> {"orig", "int3"}] /\ orig_byte \in [Points -> {"none", "orig"}]
  /\ last_hit \in Points \union {None}
  /\ at \in [Threads -> [loc : {"run", "trapped", "taken", "step", "rearm"}, point : Points]]

\* As long as the threads meet breakpoints one at a time and leave them by
\* short jumps, a breakpoint is gone from the code only while the thread that
\* met it is on its way past it, and the filter does not fail.  With two threads
\* at breakpoints the filter loses them, as it has one last_hit for all.
RearmedOneAtATime ==
  ~disturbed =>
    /\ \A i \in 1..walk :
         byte[Table[i]] = "orig" =>
           /\ last_hit = Table[i]
           /\ \E t \in Threads : at[t].loc \in {"step", "rearm"} /\ at[t].point = Table[i]
    /\ process # "filter"
=============================================================================
