---------------------------- MODULE Wdf2Commands ----------------------------
(***************************************************************************)
(* enroll and identify of hello_v2_main(), over wdf2_dispatch_ioctl().     *)
(*                                                                         *)
(* The request and its memory objects are locals of that function.  It     *)
(* returns when EvtIoDeviceControl does: if the driver only queued the     *)
(* request, the status is the zero of the constructor, a success, and the  *)
(* driver later completes a request whose frame is gone.  The destructor   *)
(* of the request deletes two memory objects that are on the stack, which  *)
(* the heap may take for what it is or abort on.                           *)
(***************************************************************************)
EXTENDS Wdf2Host

CONSTANT MaxTries    \* bound of the sample loop: 70 in the code

ASSUME Wdf2CommandsAssumption == MaxTries \in Nat \ {0}

VARIABLES
  pc,          \* location of the command
  cmd,         \* "enroll" or "identify"
  t,           \* samples tried
  code,        \* exit code, -1 before
  pending,     \* requests the driver has queued
  answer,      \* how the driver answered the commit, "none" before
  stored       \* the driver stored the record of this enrolment

outcome == <<answer, stored>>
command == <<pc, cmd, t, code, pending, outcome>>
vars == <<hostVars, command>>

Requests == {"led", "create", "capture", "update", "commit", "templates", "match"}
Over == {"exit", "crashed"}

\* What EvtIoDeviceControl does with a request, if there is one to call.  The
\* status 1 is a success to every test here; a commit answered with it has not
\* been written, which only the UMDF 1 program takes for a failure.
Answers == IF queue = "ioctl" THEN {"ok", "one", "failed", "pended"} ELSE {"failed"}

\* return req.status
Status(a) == CASE a = "failed" -> -1 [] a = "one" -> 1 [] OTHER -> 0

Answered(a) == pending' = IF a = "pended" THEN pending \union {pc} ELSE pending
Goto(loc) == pc' = loc /\ UNCHANGED code
Exit(n) == pc' = "exit" /\ code' = n
NextTry_OffByOne == /\ t' = t + 1
                    /\ Goto(IF t + 1 <= MaxTries THEN "capture" ELSE "commit")
NextTry == /\ t' = t + 1
           /\ Goto(IF t + 1 < MaxTries THEN "capture" ELSE "commit")

\* hello_v2_main() dispatches the command after the start-up callbacks,
\* whatever they achieved.
Command ==
  /\ pc = "start" /\ stage = "ready"
  /\ Goto("led") /\ cmd' \in {"enroll", "identify"}
  /\ UNCHANGED <<hostVars, t, pending, outcome>>

\* The status of SET_LED_STATE is ignored, and the light is left on.
Led ==
  /\ pc = "led"
  /\ \E a \in Answers : Answered(a)
  /\ Goto(IF cmd = "enroll" THEN "create" ELSE "capture")
  /\ UNCHANGED <<hostVars, cmd, t, outcome>>

CreateEnrollment ==
  /\ pc = "create"
  /\ \E a \in Answers :
       /\ Answered(a)
       /\ IF Status(a) < 0 THEN Exit(1) ELSE Goto("capture")
  /\ UNCHANGED <<hostVars, cmd, t, outcome>>

\* A buffer that was not filled reads SensorStatus 0, which is no rejection.
CaptureSample ==
  /\ pc = "capture" /\ cmd = "enroll"
  /\ \E a \in Answers, sensor \in {"accept", "reject"} :
       /\ Answered(a)
       /\ IF Status(a) < 0 \/ (a # "pended" /\ sensor = "reject")
            THEN NextTry ELSE Goto("update") /\ UNCHANGED t
  /\ UNCHANGED <<hostVars, cmd, outcome>>

\* info is 0 if the driver has not answered; the loop is left with the commit.
UpdateEnrollment ==
  /\ pc = "update"
  /\ \E a \in Answers, full \in BOOLEAN, more \in BOOLEAN :
       /\ Answered(a)
       /\ IF Status(a) >= 0 /\ a # "pended" /\ full /\ more
            THEN NextTry ELSE Goto("commit") /\ UNCHANGED t
  /\ UNCHANGED <<hostVars, cmd, outcome>>

CommitEnrollment_Ignored ==
  /\ pc = "commit"
  /\ \E a \in Answers :
       Answered(a) /\ answer' = a /\ stored' = (a = "ok") /\ Exit(0)
  /\ UNCHANGED <<hostVars, cmd, t>>
CommitEnrollment ==
  /\ pc = "commit"
  /\ \E a \in Answers :
       /\ Answered(a) /\ answer' = a /\ stored' = (a = "ok")
       /\ Exit(IF Status(a) >= 0 THEN 0 ELSE 1)
  /\ UNCHANGED <<hostVars, cmd, t>>

\* identify: SensorStatus is printed and not looked at.
CaptureForMatch ==
  /\ pc = "capture" /\ cmd = "identify"
  /\ \E a \in Answers :
       Answered(a) /\ IF Status(a) < 0 THEN Exit(1) ELSE Goto("templates")
  /\ UNCHANGED <<hostVars, cmd, t, outcome>>

SetTemplateList ==
  /\ pc = "templates"
  /\ \E a \in Answers :
       Answered(a) /\ IF Status(a) < 0 THEN Exit(1) ELSE Goto("match")
  /\ UNCHANGED <<hostVars, cmd, t, outcome>>

IdentifyFeatureSet ==
  /\ pc = "match"
  /\ \E a \in Answers : Answered(a) /\ Exit(IF Status(a) >= 0 THEN 0 ELSE 1)
  /\ UNCHANGED <<hostVars, cmd, t, outcome>>

\* ~Wdf2Request() after the driver has acted on the request.
DeleteStackMemory ==
  /\ pc \in Requests /\ queue = "ioctl"
  /\ pc' = "crashed"
  /\ stored' \in (IF pc = "commit" THEN {FALSE, TRUE} ELSE {stored})
  /\ UNCHANGED <<hostVars, cmd, t, code, pending, answer>>

\* WdfRequestComplete() or WdfRequestCompleteWithInformation() from a thread
\* of the driver: it writes to a frame that is gone.  What that does to the
\* frame in its place is left at nothing or a crash.
CompleteLater(i) ==
  /\ i \in pending /\ pc \notin Over
  /\ pending' = pending \ {i} /\ pc' \in {pc, "crashed"}
  /\ UNCHANGED <<hostVars, cmd, t, code, outcome>>

Main ==
  \/ Command \/ Led \/ CreateEnrollment \/ CaptureSample \/ UpdateEnrollment
  \/ CommitEnrollment \/ CaptureForMatch \/ SetTemplateList \/ IdentifyFeatureSet

Init ==
  /\ HostInit
  /\ pc = "start" /\ cmd = "enroll" /\ t = 0 /\ code = -1
  /\ pending = {} /\ answer = "none" /\ stored = FALSE

Next ==
  \/ Main \/ DeleteStackMemory
  \/ \E i \in Requests : CompleteLater(i)
  \/ pc \notin Over /\ Framework /\ UNCHANGED command

Fairness == \A r \in Threads : WF_vars(pc \notin Over /\ Reader(r) /\ UNCHANGED command)
Spec == Init /\ [][Next]_vars /\ Fairness

(***************************************************************************)
(* Properties                                                              *)
(***************************************************************************)
\* The types; a reader thread exists only with a callback and an open sensor,
\* and the samples stay within the loop.
TypeOK ==
  /\ stage \in {"bind", "driver", "device", "ready"} /\ queue \in {"none", "null", "ioctl"}
  /\ thread \in [Threads -> {"none", "read", "deliver"}]
  /\ bulkIn \in {"none", "device", "interface", "pipe"}
  /\ Running => callback /\ handle /\ bulkIn = "pipe"
  /\ pc \in {"start"} \union Requests \union Over /\ t \in 0..MaxTries
  /\ pc \in {"capture", "update"} => t < MaxTries
  /\ pending \subseteq Requests /\ code \in {-1, 0, 1}
  /\ answer \in {"none", "ok", "one", "failed", "pended"}

\* The exit code of enroll against the device: a failure code means that
\* nothing was stored, and a stored record is reported.  A success without one
\* is wrong, and comes of two answers only: the driver had queued the commit,
\* or answered it with status 1, the failed write hello.cc:1999 rules out.
ExitCodeOfEnroll ==
  pc = "exit" /\ cmd = "enroll" =>
    /\ stored => code = 0
    /\ code = 0 /\ ~stored => "commit" \in pending \/ answer = "one"

\* Once a reader runs, a packet that arrives is handed to the driver, however
\* reads fail in between, unless the program ends.
PacketsDelivered ==
  \A p \in Packets :
    (Running /\ sent >= p) ~>
      (p \in {delivered[i] : i \in DOMAIN delivered} \union {taken[i] : i \in DOMAIN taken}
       \/ pc \in Over)
=============================================================================
