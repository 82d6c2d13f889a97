---------------------------- MODULE SensorEnroll ----------------------------
(***************************************************************************)
(* The enroll command of the native driver: BiometricSensor.enroll(),      *)
(* _enroll_one_sample(), _commit_enrollment(), discard_enrollment(),       *)
(* restart_session() and the exception handlers of main(), against the     *)
(* sensor and a user who touches it, lets go, stays away or presses        *)
(* Ctrl+C.                                                                 *)
(*                                                                         *)
(* A step sends a command and takes its answer; commands whose answer the  *)
(* code does not look at are folded into the step they follow.  An answer  *)
(* that is lost is None to the code; the device has executed the command.  *)
(***************************************************************************)
EXTENDS Integers

CONSTANTS
  MaxAttempts,   \* of the sample loop: 50 in the code
  MaxCount,      \* highest value of the device's progress counters
  Limit          \* plateaus and errors tolerated: 3 in the code

ASSUME SensorEnrollAssumption ==
  MaxAttempts \in Nat \ {0} /\ MaxCount \in Nat /\ Limit \in Nat \ {0}

None == -1       \* Python's None in a tracker

VARIABLES
  pc,            \* location
  attempt,       \* i of the sample loop
  prevProgress,  \* _prev_enroll_progress, the pair as one counter
  prevCnt,       \* _prev_enroll_cnt
  plateau,       \* _enroll_plateau
  errors,        \* _enroll_errors
  active,        \* _enroll_active
  outcome,       \* how the command ended
  session,       \* device: an enrolment session is open
  count,         \* device: progress made in the session
  committed,     \* device: the record is in the database
  unchanged,     \* history: consecutive evaluated samples without a change
  formats,       \* history: formats of the evaluated answers
  at             \* history: location of the first Ctrl+C, "none" before

trackers == <<prevProgress, prevCnt, plateau, errors>>
device == <<session, count, committed>>
history == <<unchanged, formats>>
vars == <<pc, attempt, trackers, active, outcome, device, history, at>>

Sampling == {"capture", "armed", "captured", "status"}
Committing == {"template", "payload", "query", "ack", "notify"}
Running == {"begin", "discard", "restart"} \union Sampling \union Committing
Locations == Running \union {"commitFailed", "abort", "cancel", "close", "exit", "crashed"}
Terminal == {"full", "plateau", "unproductive", "exhausted"}
Outcomes == Terminal \union {"none", "begin", "true", "interrupted", "alert",
                             "runtime", "attribute"}

Formats == {"full", "short", "bare"}

(***************************************************************************)
(* enroll()                                                                *)
(***************************************************************************)
\* A lost answer to ENROLL_BEGIN returns False; the trackers are reset.
EnrollBegin ==
  /\ pc = "begin"
  /\ session' \in BOOLEAN
  /\ \/ pc' = "close" /\ outcome' = "begin" /\ UNCHANGED <<trackers, active>>
     \/ /\ pc' = "capture" /\ active' = TRUE
        /\ prevProgress' = None /\ prevCnt' = None /\ plateau' = 0 /\ errors' = 0
        /\ UNCHANGED outcome
  /\ UNCHANGED <<attempt, count, committed, history, at>>

\* "continue" and the end of the loop body; the loop ends after MaxAttempts.
NextAttempt_NotCounted ==
  pc' = "capture" /\ UNCHANGED <<attempt, outcome>>

NextAttempt ==
  IF attempt < MaxAttempts
    THEN pc' = "capture" /\ attempt' = attempt + 1 /\ UNCHANGED outcome
    ELSE pc' = "discard" /\ outcome' = "exhausted" /\ UNCHANGED attempt

\* A terminal error code: count the records, discard, restart the session.
Stop_NoDiscard(code) == pc' = "close" /\ outcome' = code /\ UNCHANGED attempt
Stop(code) == pc' = "discard" /\ outcome' = code /\ UNCHANGED attempt

(***************************************************************************)
(* _enroll_one_sample()                                                    *)
(***************************************************************************)
\* No finger returns at once; a lost answer is only printed.
Capture ==
  /\ pc = "capture"
  /\ \/ pc' = "armed" /\ UNCHANGED <<attempt, outcome>>
     \/ NextAttempt
  /\ UNCHANGED <<trackers, active, device, history, at>>

\* Interrupt 1, then four queries; the read times out after 60 s.
Armed ==
  /\ pc = "armed"
  /\ \/ pc' = "captured" /\ UNCHANGED <<attempt, outcome>>
     \/ NextAttempt
  /\ UNCHANGED <<trackers, active, device, history, at>>

\* Interrupt 2 or its timeout, then three queries: the sensor has measured.
Captured ==
  /\ pc = "captured"
  /\ pc' = "status"
  /\ count' \in IF session THEN {count, count + 1} \cap 0..MaxCount ELSE {count}
  /\ UNCHANGED <<attempt, trackers, active, outcome, session, committed, history, at>>

StatusLost ==
  /\ pc = "status"
  /\ NextAttempt
  /\ UNCHANGED <<trackers, active, device, history, at>>

\* A GUID: enrolment is complete, and no longer to be discarded.
ActiveInCommit == FALSE

StatusComplete ==
  /\ pc = "status" /\ session /\ count > 0
  /\ active' = ActiveInCommit
  /\ pc' = "template"
  /\ UNCHANGED <<attempt, trackers, outcome, device, history, at>>

(***************************************************************************)
(* The progress trackers.  "full" answers carry sample_cnt and             *)
(* progress_sum, "short" ones only sample_cnt, "bare" ones neither.        *)
(***************************************************************************)
Changed(format) ==
  CASE format = "full"  -> prevProgress = None \/ count # prevProgress
    [] format = "short" -> prevCnt = None \/ count > prevCnt
    [] format = "bare"  -> FALSE

Track(format) ==
  /\ prevProgress' = IF format = "full" THEN count ELSE prevProgress
  /\ prevCnt' = IF format = "short" THEN count ELSE prevCnt
  /\ plateau' = IF format = "bare" \/ (format = "short" /\ prevCnt = None) THEN plateau
                ELSE IF Changed(format) THEN 0 ELSE plateau + 1

\* ">= 3", on plateaus and on errors
Enough_OffByOne(n) == n > Limit
Enough(n) == n >= Limit

\* A change clears the error count.
ErrorsAfter_Kept(changed) == IF changed THEN errors ELSE errors + 1
ErrorsAfter(changed) == IF changed THEN 0 ELSE errors + 1

StatusProgress ==
  /\ pc = "status"
  /\ \E format \in Formats, full \in BOOLEAN :
       LET changed == Changed(format)
       IN /\ Track(format)
          /\ unchanged' = IF changed THEN 0 ELSE unchanged + 1
          /\ formats' = formats \union {format}
          /\ \/ full /\ Stop("full") /\ UNCHANGED errors
             \/ /\ ~full /\ ~changed /\ Enough(plateau')
                /\ Stop("plateau") /\ UNCHANGED errors
             \/ /\ ~full /\ (changed \/ ~Enough(plateau'))
                /\ errors' = ErrorsAfter(changed)
                /\ IF ~changed /\ Enough(errors') THEN Stop("unproductive") ELSE NextAttempt
  /\ UNCHANGED <<active, device, at>>

(***************************************************************************)
(* discard_enrollment() and restart_session() after a terminal error       *)
(***************************************************************************)
\* 9604 ends the session, whatever becomes of its answer.
Discard ==
  /\ pc = "discard"
  /\ session' = FALSE
  /\ pc' = "restart"
  /\ UNCHANGED <<attempt, trackers, active, outcome, count, committed, history, at>>

\* _enroll_active is cleared once the session is back.
Restart ==
  /\ pc = "restart"
  /\ active' = FALSE
  /\ pc' = "close"
  /\ UNCHANGED <<attempt, trackers, outcome, device, history, at>>

(***************************************************************************)
(* _commit_enrollment()                                                    *)
(***************************************************************************)
CommitTemplate ==
  /\ pc = "template"
  /\ pc' \in {"payload", "commitFailed"}
  /\ UNCHANGED <<attempt, trackers, active, outcome, device, history, at>>

\* Only a lost answer fails the step: the status in the answer is not read.
CommitPayload ==
  /\ pc = "payload"
  /\ committed' \in BOOLEAN
  /\ pc' \in {"query", "commitFailed"}
  /\ UNCHANGED <<attempt, trackers, active, outcome, session, count, history, at>>

CommitQuery ==
  /\ pc = "query"
  /\ pc' \in {"ack", "commitFailed"}
  /\ UNCHANGED <<attempt, trackers, active, outcome, device, history, at>>

\* 9604 again: it releases the session.
CommitAck ==
  /\ pc = "ack"
  /\ session' = FALSE
  /\ pc' \in {"notify", "commitFailed"}
  /\ UNCHANGED <<attempt, trackers, active, outcome, count, committed, history, at>>

CommitNotify ==
  /\ pc = "notify"
  /\ pc' = "close" /\ outcome' = "true"
  /\ UNCHANGED <<attempt, trackers, active, device, history, at>>

\* "len(self.self.storage_query_all())"
CommitFailed ==
  /\ pc = "commitFailed"
  /\ pc' = "crashed" /\ outcome' = "attribute"
  /\ UNCHANGED <<attempt, trackers, active, device, history, at>>

(***************************************************************************)
(* Exceptions and main()                                                   *)
(***************************************************************************)
\* KeyboardInterrupt or USBError reaches main()'s handler: discard or reset.
NeedsAbort_Never == FALSE
NeedsAbort == active

Interrupt ==
  /\ pc \in Running
  /\ pc' = IF NeedsAbort THEN "abort" ELSE "cancel"
  /\ outcome' = "interrupted"
  /\ at' = pc
  /\ UNCHANGED <<attempt, trackers, active, device, history>>

Abort ==
  /\ pc = "abort"
  /\ session' = FALSE
  /\ pc' = "close"
  /\ UNCHANGED <<attempt, trackers, active, outcome, count, committed, history, at>>

\* cancel_session() resets the USB device; that does not end a session.
Cancel ==
  /\ pc = "cancel"
  /\ pc' = "close"
  /\ UNCHANGED <<attempt, trackers, active, outcome, device, history, at>>

\* TlsAlertError: close() and exit(1).  discard_enrollment() swallows it.
FatalAlert ==
  /\ pc \in Running \ {"discard"}
  /\ pc' = "close" /\ outcome' = "alert"
  /\ UNCHANGED <<attempt, trackers, active, device, history, at>>

\* RuntimeError or AssertionError, e.g. an alert that does not decrypt, is
\* caught nowhere; a second Ctrl+C in the handlers ends the program likewise.
Crash ==
  /\ pc \in (Running \ {"discard"}) \union {"abort", "cancel", "close"}
  /\ pc' = "crashed" /\ outcome' = "runtime"
  /\ UNCHANGED <<attempt, trackers, active, device, history, at>>

Close ==
  /\ pc = "close"
  /\ pc' = "exit"
  /\ UNCHANGED <<attempt, trackers, active, outcome, device, history, at>>

Init ==
  /\ pc = "begin" /\ attempt = 1
  /\ prevProgress = None /\ prevCnt = None /\ plateau = 0 /\ errors = 0
  /\ active = FALSE /\ outcome = "none"
  /\ session = FALSE /\ count = 0 /\ committed = FALSE
  /\ unchanged = 0 /\ formats = {} /\ at = "none"

Host == EnrollBegin \/ Capture \/ Armed \/ Captured \/ StatusLost \/ StatusComplete
        \/ StatusProgress \/ Discard \/ Restart \/ CommitTemplate \/ CommitPayload
        \/ CommitQuery \/ CommitAck \/ CommitNotify \/ CommitFailed \/ Abort \/ Cancel
        \/ Close

Next == Host \/ Interrupt \/ FatalAlert \/ Crash

\* Transfers and interrupt reads return or time out: the program goes on even
\* if nobody ever touches the sensor.
Spec == Init /\ [][Next]_vars /\ WF_vars(Host)

-----------------------------------------------------------------------------
(***************************************************************************)
(* Properties                                                              *)
(***************************************************************************)
\* Types and bounds of the loop and of the trackers.
TypeOK ==
  /\ pc \in Locations /\ attempt \in 1..MaxAttempts
  /\ prevProgress \in None..MaxCount /\ prevCnt \in None..MaxCount
  /\ plateau \in 0..Limit /\ errors \in 0..Limit
  /\ active \in BOOLEAN /\ outcome \in Outcomes
  /\ session \in BOOLEAN /\ count \in 0..MaxCount /\ committed \in BOOLEAN
  /\ unchanged \in 0..MaxAttempts /\ formats \subseteq Formats
  /\ at \in Running \union {"none"}

\* After a full database, unproductive captures, a plateau and the last attempt
\* the command leaves no enrolment session and no record behind.  For a plateau
\* this is what the code does ("Aborting", code 0x0002, DISCARD), not what its
\* comments say: "When both plateau, the device has extracted enough data"
\* (sensor.py:3043; 2093 has it "ready to finalize") and "3 consecutive no-change
\* -> enrollment complete" (3079) would have the samples committed.
TerminalLeavesNothing ==
  pc \in {"close", "exit"} /\ outcome \in Terminal => ~session /\ ~committed

\* Ctrl+C leaves a session open only if it came before the loop or during the
\* commit: in between, wherever it strikes, the session is discarded, and the
\* session of a record on its way never is.
InterruptDiscards ==
  /\ pc = "exit" /\ outcome = "interrupted" /\ session
     => at \in {"begin"} \union Committing
  /\ committed => pc # "abort" /\ outcome \notin Terminal

\* The code gives up on "3 consecutive unproductive captures - aborting"
\* (sensor.py:3098), and likewise on "3 consecutive no-change", which line 3079
\* takes for "enrollment complete".  Whatever the verdict should be, no sample
\* that made progress came in between.  The first holds however the answers'
\* formats were mixed; the second of a device that keeps to one format, as the
\* first answer of the other format counts as a change without resetting
\* _enroll_plateau.
AbortsConsecutive ==
  /\ outcome = "unproductive" => unchanged >= Limit
  /\ outcome = "plateau" /\ (\A f, g \in formats : f = g) => unchanged >= Limit

\* The command ends although nobody touches the sensor and answers are lost: a
\* capture without a finger uses up an attempt, where the docstring of enroll()
\* (sensor.py:3106) has errors "skipped without counting".
Terminates == <>(pc \in {"exit", "crashed"})
=============================================================================
