------------------------------- MODULE Enroll -------------------------------
(***************************************************************************)
(* The enroll command of hello.cc: enroll(), calibrate(),                  *)
(* discardEnrollment() and commitEnrollment() on the main thread, the      *)
(* driver completing each request from its own thread, and a user who      *)
(* touches the sensor, changes fingers between runs and presses Ctrl+C.    *)
(*                                                                         *)
(* pc names the request that is outstanding: a host step handles the       *)
(* completed request and issues the next one, a driver step completes it.  *)
(* Only the answers the host branches on are kept.                         *)
(***************************************************************************)
EXTENDS Integers

CONSTANTS
  Fingers,     \* the fingers the user may present
  MaxTries,    \* bound of the sample loop: 70 in the code
  MaxRuns      \* how often the program is started; bounds the model

ASSUME EnrollAssumption == MaxTries \in Nat \ {0} /\ MaxRuns \in Nat

VARIABLES
  pc,          \* outstanding request or host location, see Locations
  res,         \* completion of that request, "pending" until the driver answers
  t,           \* loop counter of enroll()
  interrupted, \* enroll_interrupted, set by the SIGINT handler
  handler,     \* SIGINT disposition: "default" or "discard"
  outcome,     \* how the run ended
  session,     \* device: is an enrolment session open
  template,    \* device: progress of the session's template
  stored,      \* device: the records of the on-chip database
  run, finger, \* number of the run and the finger presented in it
  check,       \* answer to CHECK_FOR_DUPLICATE in this run
  intTry       \* history: value of t when Ctrl+C was pressed, -1 if it was not

host == <<pc, res, t, interrupted, handler, outcome>>
device == <<session, template, stored>>
vars == <<host, device, run, finger, check, intTry>>

Waits == {"calibrate", "create", "capture", "update", "checkDup", "commit",
          "fallback", "discard"}
Locations == Waits \union {"loop", "release", "exit"}
Results == {"none", "pending", "ok", "failed", "reject", "more", "error",
            "one", "unique", "dup"}
Outcomes == {"none", "stored", "failed", "duplicate", "discarded", "killed"}
Records == [run : 1..MaxRuns, finger : Fingers,
            template : {"partial", "complete"},
            check : {"none", "failed", "unique", "dup"}]

(***************************************************************************)
(* Requests: OnDeviceIoControl, then "while(!req.complete) Sleep(200)".    *)
(***************************************************************************)
Issue(op) == pc' = op /\ res' = "pending"
Leave(loc) == pc' = loc /\ res' = "none"
Answered(op) == pc = op /\ res \notin {"none", "pending"}

\* HostRequest::Complete and CompleteWithInformation.
Complete(op, r) ==
  /\ pc = op /\ res = "pending"
  /\ res' = r
  /\ UNCHANGED <<pc, t, interrupted, handler, outcome, run, finger, intTry>>

(***************************************************************************)
(* enroll()                                                                *)
(***************************************************************************)
\* SUCCEEDED() holds of the value 1 as well: the code maps it to E_FAIL.
CommitSucceeded_StatusOne(r) == r \in {"ok", "one"}
CommitSucceeded(r) == r = "ok"

Return(o) ==
  /\ Leave("release")
  /\ outcome' = o

\* main() starts, reads the sensor status, and enroll() begins.
Start ==
  /\ pc = "exit" /\ run < MaxRuns
  /\ run' = run + 1
  /\ finger' \in Fingers
  /\ \E needed \in BOOLEAN : Issue(IF needed THEN "calibrate" ELSE "create")
  /\ t' = 0 /\ interrupted' = FALSE /\ handler' = "default"
  /\ outcome' = "none" /\ check' = "none" /\ intTry' = -1
  /\ UNCHANGED device

\* calibrate() reports a failure and returns; enroll() carries on either way.
AfterCalibrate ==
  /\ Answered("calibrate")
  /\ Issue("create")
  /\ UNCHANGED <<t, interrupted, handler, outcome, device, run, finger, check, intTry>>

\* A failed CREATE_ENROLLMENT aborts; otherwise the SIGINT handler is installed.
AfterCreate ==
  /\ Answered("create")
  /\ \/ res = "failed" /\ Return("failed") /\ UNCHANGED handler
     \/ res = "ok" /\ Leave("loop") /\ handler' = "discard" /\ UNCHANGED outcome
  /\ UNCHANGED <<t, interrupted, device, run, finger, check, intTry>>

\* Top of the for loop: bound first, then the interrupt flag.
WantsDiscard_Never == FALSE
WantsDiscard == interrupted

LoopDone_OffByOne == t > MaxTries
LoopDone == t >= MaxTries

LoopTop_SkipsCheck ==
  /\ pc = "loop"
  /\ Issue(IF LoopDone THEN "commit"
           ELSE IF WantsDiscard THEN "discard" ELSE "capture")
  /\ UNCHANGED <<t, interrupted, handler, outcome, device, run, finger, check, intTry>>

LoopTop ==
  /\ pc = "loop"
  /\ Issue(IF LoopDone THEN "checkDup"
           ELSE IF WantsDiscard THEN "discard" ELSE "capture")
  /\ UNCHANGED <<t, interrupted, handler, outcome, device, run, finger, check, intTry>>

\* Counting of "continue" and of the end of the loop body.
NextTry_NotCounted == t' = t
NextTry == t' = t + 1

\* A failed or rejected capture is retried, a good one is added to the template.
AfterCapture ==
  /\ Answered("capture")
  /\ \/ res \in {"failed", "reject"} /\ Leave("loop") /\ NextTry
     \/ res = "ok" /\ Issue("update") /\ UNCHANGED t
  /\ UNCHANGED <<interrupted, handler, outcome, device, run, finger, check, intTry>>

\* MORE_DATA goes round again; failure, completion and template errors all break.
AfterUpdate ==
  /\ Answered("update")
  /\ \/ res = "more" /\ Leave("loop") /\ NextTry
     \/ res # "more" /\ Issue("checkDup") /\ UNCHANGED t
  /\ UNCHANGED <<interrupted, handler, outcome, device, run, finger, check, intTry>>

\* The early return on a duplicate leaves the SIGINT handler installed.
StopsOnDuplicate_Never(r) == FALSE
StopsOnDuplicate(r) == r = "dup"

AfterCheckDup ==
  /\ Answered("checkDup")
  /\ \/ StopsOnDuplicate(res) /\ Return("duplicate") /\ UNCHANGED handler
     \/ /\ ~StopsOnDuplicate(res)
        /\ Issue("commit") /\ handler' = "default" /\ UNCHANGED outcome
  /\ UNCHANGED <<t, interrupted, device, run, finger, check, intTry>>

\* commitEnrollment(): typed input first, an 8 byte input when that FAILED().
AfterCommit ==
  /\ Answered("commit")
  /\ \/ res = "failed" /\ Issue("fallback") /\ UNCHANGED outcome
     \/ res # "failed" /\ Return(IF CommitSucceeded(res) THEN "stored" ELSE "failed")
  /\ UNCHANGED <<t, interrupted, handler, device, run, finger, check, intTry>>

AfterFallback ==
  /\ Answered("fallback")
  /\ Return(IF CommitSucceeded(res) THEN "stored" ELSE "failed")
  /\ UNCHANGED <<t, interrupted, handler, device, run, finger, check, intTry>>

\* discardEnrollment() only prints its status; the handler is then reset.
AfterDiscardHandler_Kept == handler
AfterDiscardHandler == "default"

AfterDiscard ==
  /\ Answered("discard")
  /\ Return("discarded")
  /\ handler' = AfterDiscardHandler
  /\ UNCHANGED <<t, interrupted, device, run, finger, check, intTry>>

\* main() after the command: OnReleaseHardware, return 0.
Release ==
  /\ pc = "release"
  /\ Leave("exit")
  /\ UNCHANGED <<t, interrupted, handler, outcome, device, run, finger, check, intTry>>

Host == AfterCalibrate \/ AfterCreate \/ LoopTop \/ AfterCapture \/ AfterUpdate
        \/ AfterCheckDup \/ AfterCommit \/ AfterFallback \/ AfterDiscard \/ Release

(***************************************************************************)
(* The driver and the sensor, as the code above uses them.                 *)
(***************************************************************************)
AnswerCalibrate ==
  /\ \E r \in {"ok", "failed"} : Complete("calibrate", r)
  /\ UNCHANGED <<device, check>>

\* A session left over by an earlier run may be replaced.
AnswerCreate ==
  /\ \/ Complete("create", "ok") /\ session' = "open" /\ template' = "partial"
     \/ Complete("create", "failed") /\ UNCHANGED <<session, template>>
  /\ UNCHANGED <<stored, check>>

\* The user touches the sensor.
AnswerCapture ==
  /\ \E r \in {"ok", "reject", "failed"} : Complete("capture", r)
  /\ UNCHANGED <<device, check>>

AnswerUpdate ==
  /\ \/ Complete("update", "ok") /\ template' = "complete"
     \/ \E r \in {"more", "failed", "error"} :
          Complete("update", r) /\ UNCHANGED template
  /\ UNCHANGED <<session, stored, check>>

\* A complete template is recognised; an incomplete one may be missed.
Enrolled(f) == \E r \in stored : r.finger = f

AnswerCheckDup ==
  /\ \E r \in {"failed"}
           \union (IF Enrolled(finger) THEN {"dup"} ELSE {"unique"})
           \union (IF template # "complete" THEN {"unique"} ELSE {}) :
       Complete("checkDup", r) /\ check' = r
  /\ UNCHANGED device

\* Storing ends the session; status 1 is a write that failed in the firmware.
AnswerCommit(op) ==
  /\ \/ /\ session = "open" /\ Complete(op, "ok")
        /\ stored' = stored \union
             {[run |-> run, finger |-> finger, template |-> template, check |-> check]}
        /\ session' = "none" /\ template' = "none"
     \/ \E r \in {"failed", "one"} : Complete(op, r) /\ UNCHANGED device
  /\ UNCHANGED check

AnswerDiscard ==
  /\ \/ Complete("discard", "ok") /\ session' = "none" /\ template' = "none"
     \/ Complete("discard", "failed") /\ UNCHANGED <<session, template>>
  /\ UNCHANGED <<stored, check>>

Driver == AnswerCalibrate \/ AnswerCreate \/ AnswerUpdate \/ AnswerCheckDup
          \/ AnswerCommit("commit") \/ AnswerCommit("fallback") \/ AnswerDiscard

(***************************************************************************)
(* Ctrl+C.  The C runtime runs the handler on a thread of its own and may  *)
(* reset the disposition first; the default disposition ends the process,  *)
(* and the driver it hosts, leaving the device as it is.                   *)
(***************************************************************************)
CtrlCHandled ==
  /\ pc # "exit" /\ handler = "discard"
  /\ interrupted' = TRUE
  /\ handler' \in {"discard", "default"}
  /\ intTry' = IF intTry = -1 THEN t ELSE intTry
  /\ UNCHANGED <<pc, res, t, outcome, device, run, finger, check>>

CtrlCKills ==
  /\ pc # "exit" /\ handler = "default"
  /\ Leave("exit")
  /\ outcome' = IF outcome = "none" THEN "killed" ELSE outcome
  /\ UNCHANGED <<t, interrupted, handler, device, run, finger, check, intTry>>

Init ==
  /\ pc = "exit" /\ res = "none" /\ t = 0
  /\ interrupted = FALSE /\ handler = "default" /\ outcome = "none"
  /\ session = "none" /\ template = "none" /\ stored = {}
  /\ run = 0 /\ finger \in Fingers /\ check = "none" /\ intTry = -1

Next == Start \/ Host \/ Driver \/ AnswerCapture \/ CtrlCHandled \/ CtrlCKills

\* The host polls, so it always goes on; the driver answers what it is sent.
Fairness == WF_vars(Host) /\ WF_vars(Driver)
Spec == Init /\ [][Next]_vars /\ Fairness

\* As Spec, for a user who keeps touching the sensor.
TouchSpec == Spec /\ WF_vars(AnswerCapture)

-----------------------------------------------------------------------------
(***************************************************************************)
(* Properties                                                              *)
(***************************************************************************)
\* The types of the host's, the device's and the history variables.
TypeOK ==
  /\ pc \in Locations /\ res \in Results
  /\ t \in 0..MaxTries /\ intTry \in -1..MaxTries
  /\ interrupted \in BOOLEAN /\ handler \in {"default", "discard"}
  /\ outcome \in Outcomes
  /\ session \in {"none", "open"} /\ template \in {"none", "partial", "complete"}
  /\ stored \subseteq Records
  /\ run \in 0..MaxRuns /\ finger \in Fingers
  /\ check \in {"none", "failed", "unique", "dup"}

StoredBy(n) == {r \in stored : r.run = n}

\* "Enrollment commit successful" is printed exactly for the runs that left a
\* record on the device, through retry, status 1 and every early return.
OutcomeMatchesDatabase ==
  /\ outcome = "stored" => StoredBy(run) # {}
  /\ outcome \in {"failed", "duplicate", "discarded"} => StoredBy(run) = {}

\* A finger whose template was complete is stored again only by a run whose
\* duplicate check failed: enroll() commits on a failed check.
DuplicateOnlyIfCheckFailed ==
  \A r, s \in stored :
    /\ r.run < s.run /\ r.finger = s.finger
    /\ s.template = "complete"
    => s.check = "failed"

\* Ctrl+C is acted on at the next sample: no capture is started after it, and a
\* record is stored in spite of it only if it arrived in the last sample.
PromptInterrupt ==
  /\ pc = "capture" /\ interrupted => t = intTry
  /\ StoredBy(run) # {} /\ interrupted => intTry \in {t, MaxTries - 1}

\* Only the return on a duplicate (hello.cc:2254) leaves enroll() with its
\* handler installed; that return does, and nothing takes the handler back.
HandlerRestored ==
  pc = "release" /\ handler = "discard" => outcome = "duplicate"

\* The steps of the program are steps of the enrolment protocol of the engine:
\* check after the last sample, store after the check, one store per session.
Protocol == INSTANCE EnrollProtocol
              WITH Records <- Records, session <- session, template <- template,
                   check <- check, stored <- stored
FollowsProtocol == Protocol!Spec

\* With a user who keeps touching the sensor every run ends, even if the
\* template never becomes complete.
Terminates == pc # "exit" ~> pc = "exit"

\* Comment "Discard enrollment on Ctrl+C": once the handler has run, this run
\* leaves no record.
CtrlCDiscards == interrupted => StoredBy(run) = {}
=============================================================================
