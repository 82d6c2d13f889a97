---------------------------- MODULE EnrollProofs ----------------------------
(***************************************************************************)
(* Theorems about Enroll, for any fingers, loop bound and number of runs.  *)
(* IInv is the inductive invariant: each conjunct group says what one part *)
(* of the program has established by the time pc reaches a location.       *)
(***************************************************************************)
EXTENDS Enroll, TLAPS

BeforeCheck == {"calibrate", "create", "loop", "capture", "update", "discard"}
Committing == {"commit", "fallback"}

\* The loop body runs with t below its bound, a started run has a number.
Bounds ==
  /\ pc \in {"capture", "update", "discard"} => t < MaxTries
  /\ pc # "exit" => run > 0
  /\ \A r \in stored : r.run <= run

\* The device's session is open while the host samples, checks and commits.
Sessions ==
  /\ session = "open" => template # "none"
  /\ pc \in {"loop", "capture", "update", "checkDup"} => session = "open"
  /\ pc = "create" /\ res = "ok" => session = "open"
  /\ pc = "discard" /\ res = "pending" => session = "open"

\* What the duplicate check has established.
Checks ==
  /\ pc \in BeforeCheck => check = "none"
  /\ pc = "checkDup" => check = IF res = "pending" THEN "none" ELSE res
  /\ pc \in Committing => check \in {"failed", "unique"}
  /\ /\ pc \in {"checkDup"} \union Committing
     /\ check = "unique" /\ template = "complete"
     => ~Enrolled(finger)

\* When this run has left a record.
Outcome ==
  /\ pc \in BeforeCheck \union {"checkDup"} \union Committing => outcome = "none"
  /\ pc \in BeforeCheck \union {"checkDup"} => StoredBy(run) = {}
  /\ pc \in Committing => (StoredBy(run) # {} <=> res = "ok")

\* The answers each request can have.
Answers ==
  /\ pc = "create" => res \in {"pending", "ok", "failed"}
  /\ pc = "capture" => res \in {"pending", "ok", "reject", "failed"}
  /\ pc = "checkDup" => res \in {"pending", "failed", "unique", "dup"}
  /\ pc \in Committing => res \in {"pending", "ok", "failed", "one"}

\* Ctrl+C and the location at which it arrived.
Interrupts ==
  /\ interrupted <=> intTry # -1
  /\ pc \in {"calibrate", "create"} => ~interrupted
  /\ pc \in {"capture", "update"} /\ interrupted => t = intTry
  /\ pc = "loop" /\ interrupted => intTry \in {t, t - 1}
  /\ (pc \in {"checkDup"} \union Committing \/ StoredBy(run) # {}) /\ interrupted
     => intTry \in {t, MaxTries - 1}

Handlers ==
  /\ pc \in {"calibrate", "create"} \union Committing => handler = "default"
  /\ HandlerRestored

IInv ==
  /\ TypeOK /\ Bounds /\ Sessions /\ Checks /\ Outcome /\ Answers
  /\ Interrupts /\ Handlers
  /\ OutcomeMatchesDatabase /\ DuplicateOnlyIfCheckFailed

-----------------------------------------------------------------------------
(* The initial state satisfies the invariant: no run has started. *)
LEMMA InitIInv == Init => IInv
  <1> SUFFICES ASSUME Init PROVE IInv
    OBVIOUS
  <1> USE DEF Init
  <1>1. TypeOK
    <2>1. t \in 0..MaxTries /\ intTry \in -1..MaxTries /\ run \in 0..MaxRuns
      BY EnrollAssumption
    <2> QED
      BY <2>1 DEF TypeOK, Locations, Waits, Results, Outcomes
  <1>2. Bounds /\ Sessions /\ Checks /\ Answers
    BY DEF Bounds, Sessions, Checks, Answers, BeforeCheck, Committing
  <1>3. StoredBy(run) = {}
    BY DEF StoredBy
  <1>4. Outcome /\ OutcomeMatchesDatabase
    BY <1>3 DEF Outcome, OutcomeMatchesDatabase, BeforeCheck, Committing
  <1>5. Interrupts /\ Handlers
    BY <1>3 DEF Interrupts, Handlers, HandlerRestored, Committing
  <1>6. DuplicateOnlyIfCheckFailed
    BY DEF DuplicateOnlyIfCheckFailed
  <1> QED
    BY <1>1, <1>2, <1>4, <1>5, <1>6 DEF IInv

(* A commit that stores adds this run's only record; one that fails adds none. *)
LEMMA CommitIInv ==
  ASSUME IInv, NEW op \in Committing, AnswerCommit(op)
  PROVE  IInv'
  <1> DEFINE new == [run |-> run, finger |-> finger, template |-> template,
                     check |-> check]
  <1> USE DEF AnswerCommit, Complete, Committing
  <1>1. StoredBy(run) = {} /\ check \in {"failed", "unique"} /\ run > 0
    BY DEF IInv, Outcome, Checks, Bounds
  <1>2. CASE session = "open" /\ res' = "ok" /\ stored' = stored \union {new}
    <2>1. new \in Records
      BY <1>1, <1>2 DEF IInv, TypeOK, Sessions, Records
    <2>2. TypeOK' /\ Bounds'
      BY <1>2, <2>1 DEF IInv, TypeOK, Bounds, Locations, Waits, Results
    <2>3. Sessions' /\ Checks' /\ Answers' /\ Handlers'
      BY <1>1, <1>2 DEF IInv, TypeOK, Sessions, Checks, Answers, Handlers,
                        HandlerRestored, BeforeCheck
    <2>4. new \in StoredBy(run)'
      BY <1>2 DEF StoredBy
    <2>5. Outcome' /\ Interrupts' /\ OutcomeMatchesDatabase'
      BY <1>2, <2>4 DEF IInv, Outcome, Interrupts, OutcomeMatchesDatabase, BeforeCheck
    <2>7. DuplicateOnlyIfCheckFailed'
      BY <1>1, <1>2 DEF IInv, TypeOK, DuplicateOnlyIfCheckFailed, Checks, Bounds,
                        Enrolled, Records
    <2> QED
      BY <2>2, <2>3, <2>5, <2>7 DEF IInv
  <1>3. CASE res' \in {"failed", "one"} /\ UNCHANGED device
    BY <1>1, <1>3 DEF device, IInv, TypeOK, Bounds, Sessions, Checks, Outcome, Answers,
       Interrupts, Handlers, HandlerRestored, OutcomeMatchesDatabase,
       DuplicateOnlyIfCheckFailed, StoredBy, Enrolled, BeforeCheck, Locations, Waits,
       Results
  <1> QED
    BY <1>2, <1>3

(* Every step preserves it. *)
LEMMA NextIInv == IInv /\ [Next]_vars => IInv'
  <1> SUFFICES ASSUME IInv, [Next]_vars PROVE IInv'
    OBVIOUS
  <1> USE EnrollAssumption
      DEF IInv, TypeOK, Bounds, Sessions, Checks, Outcome, Answers, Interrupts,
          Handlers, HandlerRestored, OutcomeMatchesDatabase,
          DuplicateOnlyIfCheckFailed, StoredBy, Enrolled, BeforeCheck, Committing,
          Locations, Waits, Results, Outcomes, Records,
          vars, host, device, Issue, Leave, Answered, Complete, Return
  <1>1. CASE Start
    <2> USE <1>1 DEF Start
    <2>1. StoredBy(run + 1) = {}
      OBVIOUS
    <2>2. run' \in 1..MaxRuns /\ t' \in 0..MaxTries /\ intTry' \in -1..MaxTries
      OBVIOUS
    <2>3. pc' \in {"calibrate", "create"} /\ res' = "pending"
      OBVIOUS
    <2>4. TypeOK'
      <3>1. stored' \subseteq Records /\ finger' \in Fingers
        OBVIOUS
      <3>2. /\ session' \in {"none", "open"}
            /\ template' \in {"none", "partial", "complete"}
        OBVIOUS
      <3>3. interrupted' = FALSE /\ handler' = "default" /\ outcome' = "none" /\ check' = "none"
        OBVIOUS
      <3>4. run' \in 0..MaxRuns
        BY ONLY EnrollAssumption, <2>2
      <3> QED
        BY ONLY <2>2, <2>3, <3>1, <3>2, <3>3, <3>4
           DEF TypeOK, Locations, Waits, Results, Outcomes
    <2>5. Bounds'
      BY <2>2, <2>3
    <2>6. Sessions' /\ Checks' /\ Answers' /\ Handlers'
      OBVIOUS
    <2>7. Outcome' /\ Interrupts' /\ OutcomeMatchesDatabase'
      BY <2>1
    <2>8. DuplicateOnlyIfCheckFailed'
      OBVIOUS
    <2> QED
      BY <2>4, <2>5, <2>6, <2>7, <2>8
  <1>2. CASE AfterCalibrate
    BY <1>2 DEF AfterCalibrate
  <1>3. CASE AfterCreate
    <2>1. CASE res = "failed"
      BY <1>3, <2>1 DEF AfterCreate
    <2>2. CASE res = "ok"
      <3>1. pc' = "loop" /\ handler' = "discard"
        BY <1>3, <2>2 DEF AfterCreate
      <3>2. session = "open" /\ res' = "none"
        BY <1>3, <2>2 DEF AfterCreate
      <3>3. UNCHANGED <<t, interrupted, outcome, device, run, finger, check, intTry>>
        BY <1>3, <2>2 DEF AfterCreate
      <3>4. TypeOK' /\ Bounds'
        BY ONLY IInv, <1>3, <3>1, <3>2, <3>3
           DEF IInv, TypeOK, Bounds, device, AfterCreate, Answered, Locations, Waits, Results
      <3>5. Sessions' /\ Checks' /\ Answers' /\ Handlers'
        BY <1>3, <3>1, <3>2, <3>3 DEF AfterCreate
      <3>6. Outcome' /\ Interrupts' /\ OutcomeMatchesDatabase'
        BY <1>3, <3>1, <3>2, <3>3 DEF AfterCreate
      <3>7. DuplicateOnlyIfCheckFailed'
        BY <3>3
      <3> QED
        BY ONLY <3>4, <3>5, <3>6, <3>7 DEF IInv
    <2> QED
      BY <1>3, <2>1, <2>2 DEF AfterCreate
  <1>4. CASE LoopTop
    BY <1>4 DEF LoopTop, LoopDone, WantsDiscard
  <1>5. CASE AfterCapture
    BY <1>5 DEF AfterCapture, NextTry
  <1>6. CASE AfterUpdate
    BY <1>6 DEF AfterUpdate, NextTry
  <1>7. CASE AfterCheckDup
    BY <1>7 DEF AfterCheckDup, StopsOnDuplicate
  <1>8. CASE AfterCommit
    BY <1>8 DEF AfterCommit, CommitSucceeded
  <1>9. CASE AfterFallback
    BY <1>9 DEF AfterFallback, CommitSucceeded
  <1>10. CASE AfterDiscard
    BY <1>10 DEF AfterDiscard, AfterDiscardHandler
  <1>11. CASE Release
    BY <1>11 DEF Release
  <1>12. CASE AnswerCalibrate
    BY <1>12 DEF AnswerCalibrate
  <1>13. CASE AnswerCreate
    BY <1>13 DEF AnswerCreate
  <1>14. CASE AnswerCapture
    BY <1>14 DEF AnswerCapture
  <1>15. CASE AnswerUpdate
    BY <1>15 DEF AnswerUpdate
  <1>16. CASE AnswerCheckDup
    BY <1>16 DEF AnswerCheckDup
  <1>17. CASE AnswerCommit("commit")
    BY <1>17, CommitIInv DEF Committing
  <1>18. CASE AnswerCommit("fallback")
    BY <1>18, CommitIInv DEF Committing
  <1>19. CASE AnswerDiscard
    BY <1>19 DEF AnswerDiscard
  <1>20. CASE CtrlCHandled
    BY <1>20 DEF CtrlCHandled
  <1>21. CASE CtrlCKills
    BY <1>21 DEF CtrlCKills
  <1>22. CASE UNCHANGED vars
    BY <1>22
  <1> QED
    BY <1>1, <1>2, <1>3, <1>4, <1>5, <1>6, <1>7, <1>8, <1>9, <1>10, <1>11, <1>12, <1>13, <1>14, <1>15, <1>16, <1>17, <1>18, <1>19, <1>20, <1>21, <1>22 DEF Next, Host, Driver

-----------------------------------------------------------------------------
(* The program keeps to its types: in particular the sample loop never goes  *)
(* past its bound, however captures fail, are rejected or are interrupted.   *)
THEOREM TypeCorrect == Spec => []TypeOK
  <1>1. IInv => TypeOK
    BY DEF IInv
  <1> QED
    BY <1>1, InitIInv, NextIInv, PTL DEF Spec

(* enroll() reports success exactly when the run left a record, and no run   *)
(* that reports a failure, a duplicate or a discard has left one.            *)
THEOREM OutcomeCorrect == Spec => []OutcomeMatchesDatabase
  <1>1. IInv => OutcomeMatchesDatabase
    BY DEF IInv
  <1> QED
    BY <1>1, InitIInv, NextIInv, PTL DEF Spec

(* A finger enrolled with a complete template is enrolled a second time only *)
(* by a run whose CHECK_FOR_DUPLICATE failed.                                *)
THEOREM DuplicateCorrect == Spec => []DuplicateOnlyIfCheckFailed
  <1>1. IInv => DuplicateOnlyIfCheckFailed
    BY DEF IInv
  <1> QED
    BY <1>1, InitIInv, NextIInv, PTL DEF Spec

(* After Ctrl+C enroll() starts no further capture, and stores a record only *)
(* if the signal arrived during the last sample.                             *)
THEOREM InterruptCorrect == Spec => []PromptInterrupt
  <1>1. IInv => PromptInterrupt
    BY DEF IInv, Interrupts, PromptInterrupt
  <1> QED
    BY <1>1, InitIInv, NextIInv, PTL DEF Spec

(* Every way out of enroll() but the one on a duplicate resets the handler.  *)
THEOREM HandlerCorrect == Spec => []HandlerRestored
  <1>1. IInv => HandlerRestored
    BY DEF IInv, Handlers
  <1> QED
    BY <1>1, InitIInv, NextIInv, PTL DEF Spec

-----------------------------------------------------------------------------
(* The first state of the program is the first state of the protocol. *)
LEMMA InitRefines == Init => Protocol!Init
  BY DEF Init, Protocol!Init

(* Every step of the program is a step of the protocol or leaves its state   *)
(* alone: the invariant supplies the guards the protocol asks for.           *)
LEMMA NextRefines == IInv /\ [Next]_vars => [Protocol!Next]_(Protocol!vars)
  <1> SUFFICES ASSUME IInv, [Next]_vars
               PROVE  Protocol!Next \/ UNCHANGED Protocol!vars
    OBVIOUS
  <1> USE DEF Protocol!Next, Protocol!vars, device, Complete
  <1>1. CASE Start
    BY <1>1 DEF Start, Protocol!NewRun
  <1>2. CASE Host
    BY <1>2 DEF Host, AfterCalibrate, AfterCreate, LoopTop, AfterCapture, AfterUpdate,
                AfterCheckDup, AfterCommit, AfterFallback, AfterDiscard, Release
  <1>3. CASE AnswerCreate
    <2>1. check = "none"
      BY <1>3 DEF AnswerCreate, IInv, Checks, BeforeCheck
    <2> QED
      BY <1>3, <2>1 DEF AnswerCreate, Protocol!Begin
  <1>4. CASE AnswerUpdate
    <2>1. check = "none" /\ session = "open"
      BY <1>4 DEF AnswerUpdate, IInv, Checks, Sessions, BeforeCheck
    <2> QED
      BY <1>4, <2>1 DEF AnswerUpdate, Protocol!Sample, Protocol!Collecting
  <1>5. CASE AnswerCheckDup
    <2>1. check = "none" /\ session = "open"
      BY <1>5 DEF AnswerCheckDup, IInv, Checks, Sessions
    <2>2. check' \in {"failed", "unique", "dup"}
      BY <1>5 DEF AnswerCheckDup
    <2> QED
      BY <1>5, <2>1, <2>2 DEF AnswerCheckDup, Protocol!Check, Protocol!Collecting
  <1>6. ASSUME NEW op \in Committing, AnswerCommit(op)
        PROVE  Protocol!Next \/ UNCHANGED Protocol!vars
    <2> DEFINE new == [run |-> run, finger |-> finger, template |-> template,
                       check |-> check]
    <2>1. check \in {"failed", "unique"} /\ StoredBy(run) = {} /\ run > 0
      BY <1>6 DEF AnswerCommit, IInv, Checks, Outcome, Bounds, Committing
    <2>2. CASE /\ session = "open" /\ stored' = stored \union {new}
               /\ session' = "none" /\ template' = "none" /\ UNCHANGED check
      <3>1. new \in Records
        BY <2>1, <2>2 DEF IInv, TypeOK, Sessions, Records
      <3>2. new \notin stored
        BY <2>1 DEF StoredBy
      <3> QED
        BY <2>1, <2>2, <3>1, <3>2 DEF Protocol!Store
    <2>3. CASE UNCHANGED <<device, check>>
      BY <2>3
    <2> QED
      BY <1>6, <2>2, <2>3 DEF AnswerCommit
  <1>7. CASE AnswerDiscard
    <2>1. check = "none" /\ (res = "pending" => session = "open")
      BY <1>7 DEF AnswerDiscard, IInv, Checks, Sessions, BeforeCheck
    <2> QED
      BY <1>7, <2>1 DEF AnswerDiscard, Protocol!Drop, Protocol!Collecting
  <1>8. CASE AnswerCalibrate \/ AnswerCapture \/ CtrlCHandled \/ CtrlCKills
    BY <1>8 DEF AnswerCalibrate, AnswerCapture, CtrlCHandled, CtrlCKills
  <1>9. CASE UNCHANGED vars
    BY <1>9 DEF vars
  <1> QED
    BY <1>1, <1>2, <1>3, <1>4, <1>5, <1>6, <1>7, <1>8, <1>9
       DEF Next, Driver, Committing

(* enroll(), with its retries, early returns and Ctrl+C, implements the      *)
(* enrolment protocol.                                                       *)
THEOREM EnrollImplementsProtocol == Spec => FollowsProtocol
  BY InitIInv, NextIInv, InitRefines, NextRefines, PTL
     DEF Spec, FollowsProtocol, Protocol!Spec
=============================================================================
