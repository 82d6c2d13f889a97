------------------------- MODULE SensorEnrollProofs -------------------------
(***************************************************************************)
(* Theorems about SensorEnroll, for any number of attempts, any limit of   *)
(* unproductive samples and any range of the device's counters.            *)
(***************************************************************************)
EXTENDS SensorEnroll, TLAPS

\* The sample loop: the error counter counts the unchanged samples, one of
\* them per attempt, and neither counter has reached its limit.
Loop ==
  /\ unchanged <= attempt
  /\ pc \in Sampling => /\ plateau < Limit /\ errors < Limit
                        /\ errors = unchanged /\ unchanged < attempt
  /\ pc = "begin" => unchanged = 0 /\ formats = {}

\* The first answer with a sample counter is known to be the first.  With one
\* format no plateau is longer than the run of unchanged samples.
Alike == \A f, g \in formats : f = g
Plateaus ==
  pc \in Sampling =>
    /\ prevCnt = None => "short" \notin formats
    /\ Alike => plateau <= unchanged
    /\ formats = {} => plateau = 0

\* Where an exception discards: from the first sample until the session is
\* back, and not before or in a commit.
Handling ==
  /\ pc \in Sampling \union {"discard", "restart"} => active
  /\ pc \in {"begin"} \union Committing => ~active

\* Where a record can exist.
Records ==
  committed => /\ pc \notin {"begin", "discard", "restart", "abort", "template", "payload"}
               /\ pc \notin Sampling /\ outcome \notin Terminal

\* How far a command is that has an outcome, and what it has left behind.
Outcome ==
  /\ pc \in Running => outcome \in Terminal \union {"none"}
  /\ outcome \in Terminal => pc \in {"discard", "restart", "close", "exit"}
  /\ outcome \in Terminal /\ pc # "discard" => ~session
  /\ outcome = "interrupted" => pc \in {"abort", "cancel", "close", "exit"}
  /\ outcome = "interrupted" /\ session /\ pc # "abort" => at \in {"begin"} \union Committing

IInv == TypeOK /\ Loop /\ Plateaus /\ Handling /\ Records /\ Outcome /\ AbortsConsecutive
USE SensorEnrollAssumption

(***************************************************************************)
(* Lemmas                                                                  *)
(***************************************************************************)
\* A step that evaluates no answer keeps what is known of the trackers if the
\* loop goes on with the same or a later attempt, or ends.
LEMMA NotEvaluated ==
  ASSUME IInv, UNCHANGED <<trackers, history>>, attempt' \in {attempt, attempt + 1},
         attempt' <= MaxAttempts, pc' \in Locations \ {"begin"},
         pc' \in Sampling => pc \in Sampling,
         outcome' \notin {"unproductive", "plateau"} \/ outcome' = outcome
  PROVE  Loop' /\ Plateaus' /\ AbortsConsecutive'
  BY DEF IInv, TypeOK, Loop, Plateaus, Alike, AbortsConsecutive, trackers, history

\* What evaluating an answer does to the trackers.
LEMMA Evaluated ==
  ASSUME IInv, NEW f \in Formats, Track(f), pc = "status",
         unchanged' = (IF Changed(f) THEN 0 ELSE unchanged + 1),
         formats' = formats \union {f}
  PROVE  /\ prevProgress' \in None..MaxCount /\ prevCnt' \in None..MaxCount
         /\ plateau' \in 0..Limit /\ unchanged' \in 0..attempt
         /\ prevCnt' = None => "short" \notin formats'
         /\ Alike' => plateau' <= unchanged'
         /\ Changed(f) => plateau' < Limit
  <1>1. /\ plateau \in 0..(Limit - 1) /\ unchanged \in 0..(attempt - 1) /\ count \in 0..MaxCount
        /\ prevProgress \in None..MaxCount /\ prevCnt \in None..MaxCount
        /\ attempt \in Nat /\ Limit \in Nat /\ MaxCount \in Nat
    BY DEF IInv, TypeOK, Loop, Sampling
  <1>2. /\ prevCnt = None => "short" \notin formats
        /\ Alike => plateau <= unchanged
        /\ formats = {} => plateau = 0
    BY DEF IInv, Plateaus, Sampling
  <1>3. Alike' => Alike /\ formats \subseteq {f}
    BY DEF Alike
  <1>4. CASE f = "full"
    <2>1. Changed(f) <=> prevProgress = None \/ count # prevProgress
      BY <1>4 DEF Changed
    <2>2. /\ prevProgress' = count /\ prevCnt' = prevCnt
          /\ plateau' = IF Changed(f) THEN 0 ELSE plateau + 1
      BY <1>4 DEF Track
    <2>3. /\ plateau' \in 0..Limit /\ unchanged' \in 0..attempt
          /\ prevProgress' \in None..MaxCount /\ (Changed(f) => plateau' < Limit)
      BY <1>1, <2>2 DEF None
    <2>4. Alike' => plateau' <= unchanged'
      BY <1>1, <1>2, <1>3, <2>2
    <2> QED
      BY <1>1, <1>2, <1>4, <2>2, <2>3, <2>4
  <1>5. CASE f = "short"
    <2>1. Changed(f) <=> prevCnt = None \/ count > prevCnt
      BY <1>5 DEF Changed
    <2>2. /\ prevProgress' = prevProgress /\ prevCnt' = count
          /\ plateau' = IF prevCnt = None THEN plateau ELSE IF Changed(f) THEN 0 ELSE plateau + 1
      BY <1>5 DEF Track
    <2>3. prevCnt = None /\ Alike' => plateau = 0
      BY <1>2, <1>3, <1>5
    <2>4. /\ plateau' \in 0..Limit /\ unchanged' \in 0..attempt
          /\ prevCnt' \in 0..MaxCount /\ (Changed(f) => plateau' < Limit)
      BY <1>1, <2>1, <2>2 DEF None
    <2>5. Alike' => plateau' <= unchanged'
      BY <1>1, <1>2, <1>3, <2>1, <2>2, <2>3
    <2> QED
      BY <1>1, <2>2, <2>4, <2>5 DEF None
  <1>6. CASE f = "bare"
    <2>1. ~Changed(f)
      BY <1>6 DEF Changed
    <2>2. prevProgress' = prevProgress /\ prevCnt' = prevCnt /\ plateau' = plateau
      BY <1>6 DEF Track
    <2> QED
      BY <1>1, <1>2, <1>3, <1>6, <2>1, <2>2
  <1> QED
    BY <1>4, <1>5, <1>6 DEF Formats

(***************************************************************************)
(* The inductive invariant                                                 *)
(***************************************************************************)
LEMMA Ranges ==
  /\ None \in None..MaxCount /\ 0 \in 0..Limit /\ 0 \in 0..MaxCount /\ 0 \in 0..MaxAttempts
  /\ 1 \in 1..MaxAttempts /\ 0 < Limit
  BY DEF None

LEMMA InitIInv == Init => IInv
  <1> SUFFICES ASSUME Init PROVE IInv
    OBVIOUS
  <1> USE DEF Locations, Running, Sampling, Committing, Terminal, Outcomes, trackers, device,
              history
  <1>1. TypeOK
    BY Ranges DEF Init, TypeOK
  <1>2. Loop
    BY DEF Init, Loop
  <1>3. Plateaus
    BY DEF Init, Plateaus
  <1>4. Handling
    BY DEF Init, Handling
  <1>5. Records
    BY DEF Init, Records
  <1>6. Outcome
    BY DEF Init, Outcome
  <1>7. AbortsConsecutive
    BY DEF Init, AbortsConsecutive
  <1> QED
    BY <1>1, <1>2, <1>3, <1>4, <1>5, <1>6, <1>7 DEF IInv

\* Types, and what does not depend on the trackers.
Rest == TypeOK /\ Handling /\ Records /\ Outcome

LEMMA BeginKeepsIInv == IInv /\ EnrollBegin => IInv'
  <1> SUFFICES ASSUME IInv, EnrollBegin PROVE IInv'
    OBVIOUS
  <1> USE DEF Locations, Running, Sampling, Committing, Terminal, Outcomes, trackers, device,
              history
  <1>1. TypeOK'
    BY Ranges DEF EnrollBegin, IInv, TypeOK
  <1>2. Loop'
    BY DEF EnrollBegin, IInv, TypeOK, Loop, Alike
  <1>3. Plateaus'
    BY DEF EnrollBegin, IInv, Loop, Plateaus
  <1>4. Handling'
    BY DEF EnrollBegin, IInv, Handling
  <1>5. Records'
    BY DEF EnrollBegin, IInv, Records
  <1>6. Outcome'
    BY DEF EnrollBegin, IInv, Outcome
  <1>7. AbortsConsecutive'
    BY DEF EnrollBegin, IInv, AbortsConsecutive
  <1> QED
    BY <1>1, <1>2, <1>3, <1>4, <1>5, <1>6, <1>7 DEF IInv

LEMMA SamplingKeepsIInv ==
  ASSUME IInv, Capture \/ Armed \/ Captured \/ StatusLost \/ StatusComplete
  PROVE  IInv'
  <1> USE DEF Locations, Running, Sampling, Committing, Terminal, Outcomes, trackers, device,
              history
  <1>1. Rest'
    <2>1. CASE Capture
      <3>1. TypeOK'
        BY <2>1 DEF Capture, NextAttempt, IInv, TypeOK
      <3>2. Handling'
        BY <2>1 DEF Capture, NextAttempt, IInv, TypeOK, Handling
      <3>3. Records'
        BY <2>1 DEF Capture, NextAttempt, IInv, TypeOK, Records
      <3>4. Outcome'
        BY <2>1 DEF Capture, NextAttempt, IInv, TypeOK, Outcome
      <3> QED
        BY <3>1, <3>2, <3>3, <3>4 DEF Rest
    <2>2. CASE Armed
      <3>1. TypeOK'
        BY <2>2 DEF Armed, NextAttempt, IInv, TypeOK
      <3>2. Handling'
        BY <2>2 DEF Armed, NextAttempt, IInv, TypeOK, Handling
      <3>3. Records'
        BY <2>2 DEF Armed, NextAttempt, IInv, TypeOK, Records
      <3>4. Outcome'
        BY <2>2 DEF Armed, NextAttempt, IInv, TypeOK, Outcome
      <3> QED
        BY <3>1, <3>2, <3>3, <3>4 DEF Rest
    <2>3. CASE Captured
      <3>1. TypeOK'
        BY <2>3 DEF Captured, IInv, TypeOK
      <3>2. Handling'
        BY <2>3 DEF Captured, IInv, TypeOK, Handling
      <3>3. Records'
        BY <2>3 DEF Captured, IInv, TypeOK, Records
      <3>4. Outcome'
        BY <2>3 DEF Captured, IInv, TypeOK, Outcome
      <3> QED
        BY <3>1, <3>2, <3>3, <3>4 DEF Rest
    <2>4. CASE StatusLost
      <3>1. TypeOK'
        BY <2>4 DEF StatusLost, NextAttempt, IInv, TypeOK
      <3>2. Handling'
        BY <2>4 DEF StatusLost, NextAttempt, IInv, TypeOK, Handling
      <3>3. Records'
        BY <2>4 DEF StatusLost, NextAttempt, IInv, TypeOK, Records
      <3>4. Outcome'
        BY <2>4 DEF StatusLost, NextAttempt, IInv, TypeOK, Outcome
      <3> QED
        BY <3>1, <3>2, <3>3, <3>4 DEF Rest
    <2>5. CASE StatusComplete
      <3>1. TypeOK'
        BY <2>5 DEF StatusComplete, ActiveInCommit, IInv, TypeOK
      <3>2. Handling'
        BY <2>5 DEF StatusComplete, ActiveInCommit, IInv, TypeOK, Handling
      <3>3. Records'
        BY <2>5 DEF StatusComplete, ActiveInCommit, IInv, TypeOK, Records
      <3>4. Outcome'
        BY <2>5 DEF StatusComplete, ActiveInCommit, IInv, TypeOK, Outcome
      <3> QED
        BY <3>1, <3>2, <3>3, <3>4 DEF Rest
    <2> QED
      BY <2>1, <2>2, <2>3, <2>4, <2>5
  <1>2. Loop' /\ Plateaus' /\ AbortsConsecutive'
    <2>1. /\ UNCHANGED <<trackers, history>> /\ attempt' \in {attempt, attempt + 1}
          /\ attempt' <= MaxAttempts /\ pc' \in Locations \ {"begin"} /\ pc \in Sampling
          /\ outcome' \in {outcome, "exhausted"}
      BY DEF Capture, Armed, Captured, StatusLost, StatusComplete, NextAttempt, IInv, TypeOK
    <2> QED
      BY <2>1, NotEvaluated
  <1> QED
    BY <1>1, <1>2 DEF IInv, Rest

LEMMA ProgressKeepsIInv == IInv /\ StatusProgress => IInv'
  <1> SUFFICES ASSUME IInv, StatusProgress PROVE IInv'
    OBVIOUS
  <1>1. PICK f \in Formats, full \in BOOLEAN :
          /\ Track(f)
          /\ unchanged' = IF Changed(f) THEN 0 ELSE unchanged + 1
          /\ formats' = formats \union {f}
          /\ \/ full /\ Stop("full") /\ UNCHANGED errors
             \/ /\ ~full /\ ~Changed(f) /\ Enough(plateau')
                /\ Stop("plateau") /\ UNCHANGED errors
             \/ /\ ~full /\ (Changed(f) \/ ~Enough(plateau'))
                /\ errors' = ErrorsAfter(Changed(f))
                /\ IF ~Changed(f) /\ Enough(errors') THEN Stop("unproductive") ELSE NextAttempt
    BY DEF StatusProgress
  <1>2. pc = "status" /\ UNCHANGED <<active, session, count, committed, at>>
    BY DEF StatusProgress, device
  <1>3. /\ prevProgress' \in None..MaxCount /\ prevCnt' \in None..MaxCount
        /\ plateau' \in 0..Limit /\ unchanged' \in 0..attempt
        /\ prevCnt' = None => "short" \notin formats'
        /\ Alike' => plateau' <= unchanged'
        /\ Changed(f) => plateau' < Limit
    BY <1>1, <1>2, Evaluated
  <1>4. /\ errors \in 0..(Limit - 1) /\ errors = unchanged /\ attempt \in 1..MaxAttempts
        /\ active /\ ~committed /\ outcome = "none"
    BY <1>2 DEF IInv, TypeOK, Loop, Handling, Records, Outcome, Sampling, Running, Terminal
  <1>5. formats' # {} /\ formats' \subseteq Formats
    BY <1>1 DEF IInv, TypeOK
  <1>6. CASE NextAttempt /\ errors' = ErrorsAfter(Changed(f)) /\ plateau' < Limit
             /\ (Changed(f) \/ ~Enough(errors'))
    <2>1. errors' \in 0..(Limit - 1) /\ errors' = unchanged'
      BY <1>1, <1>4, <1>6 DEF ErrorsAfter, Enough
    <2>2. \/ pc' = "capture" /\ attempt' = attempt + 1 /\ attempt' \in 1..MaxAttempts /\ outcome' = "none"
          \/ pc' = "discard" /\ attempt' = attempt /\ outcome' = "exhausted"
      BY <1>4, <1>6 DEF NextAttempt
    <2>3. TypeOK'
      BY <1>2, <1>3, <1>4, <1>5, <2>1, <2>2
         DEF IInv, TypeOK, Locations, Running, Sampling, Outcomes, Terminal
    <2>4. Loop' /\ Plateaus' /\ AbortsConsecutive'
      BY <1>3, <1>4, <1>5, <2>1, <2>2, <1>6 DEF Loop, Plateaus, AbortsConsecutive, Sampling
    <2>5. Handling' /\ Records' /\ Outcome'
      BY <1>2, <1>4, <2>2 DEF Handling, Records, Outcome, Sampling, Committing, Running, Terminal
    <2> QED
      BY <2>3, <2>4, <2>5 DEF IInv
  <1>7. ASSUME NEW c \in {"full", "plateau", "unproductive"}, Stop(c), errors' \in 0..Limit,
               c = "unproductive" => unchanged' >= Limit,
               c = "plateau" => plateau' >= Limit
        PROVE  IInv'
    <2>1. pc' = "discard" /\ outcome' = c /\ attempt' = attempt
      BY <1>7 DEF Stop
    <2>2. TypeOK'
      BY <1>2, <1>3, <1>4, <1>5, <1>7, <2>1
         DEF IInv, TypeOK, Locations, Running, Sampling, Outcomes, Terminal
    <2>3. Loop' /\ Plateaus'
      BY <1>3, <1>4, <2>1 DEF Loop, Plateaus, Sampling
    <2>4. AbortsConsecutive'
      BY <1>3, <1>4, <1>7, <2>1 DEF AbortsConsecutive, Alike
    <2>5. Handling' /\ Records' /\ Outcome'
      BY <1>2, <1>4, <2>1 DEF Handling, Records, Outcome, Sampling, Committing, Running, Terminal
    <2> QED
      BY <2>2, <2>3, <2>4, <2>5 DEF IInv
  <1>8. errors' = ErrorsAfter(Changed(f)) => errors' \in 0..Limit /\ errors' = unchanged'
    BY <1>1, <1>4 DEF ErrorsAfter
  <1>9. plateau' < Limit \/ Enough(plateau')
    BY <1>3 DEF Enough
  <1> QED
    BY <1>1, <1>3, <1>4, <1>6, <1>7, <1>8, <1>9 DEF Enough

\* Steps outside the sample loop evaluate nothing.
LEMMA OthersKeepIInv ==
  ASSUME IInv,
         \/ Discard \/ Restart \/ CommitTemplate \/ CommitPayload \/ CommitQuery
         \/ CommitAck \/ CommitNotify \/ CommitFailed \/ Abort \/ Cancel \/ Close
         \/ Interrupt \/ FatalAlert \/ Crash
  PROVE  IInv'
  <1> USE DEF Locations, Running, Sampling, Committing, Terminal, Outcomes, trackers, device,
              history
  <1>1. CASE Discard
    <2>1. TypeOK'
      BY <1>1 DEF Discard, IInv, TypeOK
    <2>2. Handling' /\ Records'
      BY <1>1 DEF Discard, IInv, Handling, Records, Outcome
    <2>3. Outcome'
      BY <1>1 DEF Discard, IInv, Handling, Outcome
    <2>4. Loop' /\ Plateaus' /\ AbortsConsecutive'
      BY <1>1, NotEvaluated DEF Discard, IInv, TypeOK
    <2> QED
      BY <2>1, <2>2, <2>3, <2>4 DEF IInv
  <1>2. CASE Restart
    <2>1. TypeOK'
      BY <1>2 DEF Restart, IInv, TypeOK
    <2>2. Handling' /\ Records'
      BY <1>2 DEF Restart, IInv, Handling, Records, Outcome
    <2>3. Outcome'
      BY <1>2 DEF Restart, IInv, Handling, Outcome
    <2>4. Loop' /\ Plateaus' /\ AbortsConsecutive'
      BY <1>2, NotEvaluated DEF Restart, IInv, TypeOK
    <2> QED
      BY <2>1, <2>2, <2>3, <2>4 DEF IInv
  <1>3. CASE CommitTemplate
    <2>1. TypeOK'
      BY <1>3 DEF CommitTemplate, IInv, TypeOK
    <2>2. Handling' /\ Records'
      BY <1>3 DEF CommitTemplate, IInv, Handling, Records, Outcome
    <2>3. Outcome'
      BY <1>3 DEF CommitTemplate, IInv, Handling, Outcome
    <2>4. Loop' /\ Plateaus' /\ AbortsConsecutive'
      BY <1>3, NotEvaluated DEF CommitTemplate, IInv, TypeOK
    <2> QED
      BY <2>1, <2>2, <2>3, <2>4 DEF IInv
  <1>4. CASE CommitPayload
    <2>1. TypeOK'
      BY <1>4 DEF CommitPayload, IInv, TypeOK
    <2>2. Handling' /\ Records'
      BY <1>4 DEF CommitPayload, IInv, Handling, Records, Outcome
    <2>3. Outcome'
      BY <1>4 DEF CommitPayload, IInv, Handling, Outcome
    <2>4. Loop' /\ Plateaus' /\ AbortsConsecutive'
      BY <1>4, NotEvaluated DEF CommitPayload, IInv, TypeOK
    <2> QED
      BY <2>1, <2>2, <2>3, <2>4 DEF IInv
  <1>5. CASE CommitQuery
    <2>1. TypeOK'
      BY <1>5 DEF CommitQuery, IInv, TypeOK
    <2>2. Handling' /\ Records'
      BY <1>5 DEF CommitQuery, IInv, Handling, Records, Outcome
    <2>3. Outcome'
      BY <1>5 DEF CommitQuery, IInv, Handling, Outcome
    <2>4. Loop' /\ Plateaus' /\ AbortsConsecutive'
      BY <1>5, NotEvaluated DEF CommitQuery, IInv, TypeOK
    <2> QED
      BY <2>1, <2>2, <2>3, <2>4 DEF IInv
  <1>6. CASE CommitAck
    <2>1. TypeOK'
      BY <1>6 DEF CommitAck, IInv, TypeOK
    <2>2. Handling' /\ Records'
      BY <1>6 DEF CommitAck, IInv, Handling, Records, Outcome
    <2>3. Outcome'
      BY <1>6 DEF CommitAck, IInv, Handling, Outcome
    <2>4. Loop' /\ Plateaus' /\ AbortsConsecutive'
      BY <1>6, NotEvaluated DEF CommitAck, IInv, TypeOK
    <2> QED
      BY <2>1, <2>2, <2>3, <2>4 DEF IInv
  <1>7. CASE CommitNotify
    <2>1. TypeOK'
      BY <1>7 DEF CommitNotify, IInv, TypeOK
    <2>2. Handling' /\ Records'
      BY <1>7 DEF CommitNotify, IInv, Handling, Records, Outcome
    <2>3. Outcome'
      BY <1>7 DEF CommitNotify, IInv, Handling, Outcome
    <2>4. Loop' /\ Plateaus' /\ AbortsConsecutive'
      BY <1>7, NotEvaluated DEF CommitNotify, IInv, TypeOK
    <2> QED
      BY <2>1, <2>2, <2>3, <2>4 DEF IInv
  <1>8. CASE CommitFailed
    <2>1. TypeOK'
      BY <1>8 DEF CommitFailed, IInv, TypeOK
    <2>2. Handling' /\ Records'
      BY <1>8 DEF CommitFailed, IInv, Handling, Records, Outcome
    <2>3. Outcome'
      BY <1>8 DEF CommitFailed, IInv, Handling, Outcome
    <2>4. Loop' /\ Plateaus' /\ AbortsConsecutive'
      BY <1>8, NotEvaluated DEF CommitFailed, IInv, TypeOK
    <2> QED
      BY <2>1, <2>2, <2>3, <2>4 DEF IInv
  <1>9. CASE Abort
    <2>1. TypeOK'
      BY <1>9 DEF Abort, IInv, TypeOK
    <2>2. Handling' /\ Records'
      BY <1>9 DEF Abort, IInv, Handling, Records, Outcome
    <2>3. Outcome'
      BY <1>9 DEF Abort, IInv, Handling, Outcome
    <2>4. Loop' /\ Plateaus' /\ AbortsConsecutive'
      BY <1>9, NotEvaluated DEF Abort, IInv, TypeOK
    <2> QED
      BY <2>1, <2>2, <2>3, <2>4 DEF IInv
  <1>10. CASE Cancel
    <2>1. TypeOK'
      BY <1>10 DEF Cancel, IInv, TypeOK
    <2>2. Handling' /\ Records'
      BY <1>10 DEF Cancel, IInv, Handling, Records, Outcome
    <2>3. Outcome'
      BY <1>10 DEF Cancel, IInv, Handling, Outcome
    <2>4. Loop' /\ Plateaus' /\ AbortsConsecutive'
      BY <1>10, NotEvaluated DEF Cancel, IInv, TypeOK
    <2> QED
      BY <2>1, <2>2, <2>3, <2>4 DEF IInv
  <1>11. CASE Close
    <2>1. TypeOK'
      BY <1>11 DEF Close, IInv, TypeOK
    <2>2. Handling' /\ Records'
      BY <1>11 DEF Close, IInv, Handling, Records, Outcome
    <2>3. Outcome'
      BY <1>11 DEF Close, IInv, Handling, Outcome
    <2>4. Loop' /\ Plateaus' /\ AbortsConsecutive'
      BY <1>11, NotEvaluated DEF Close, IInv, TypeOK
    <2> QED
      BY <2>1, <2>2, <2>3, <2>4 DEF IInv
  <1>12. CASE Interrupt
    <2>1. TypeOK'
      BY <1>12 DEF Interrupt, NeedsAbort, IInv, TypeOK
    <2>2. Handling' /\ Records'
      BY <1>12 DEF Interrupt, NeedsAbort, IInv, Handling, Records, Outcome
    <2>3. Outcome'
      BY <1>12 DEF Interrupt, NeedsAbort, IInv, Handling, Outcome
    <2>4. Loop' /\ Plateaus' /\ AbortsConsecutive'
      BY <1>12, NotEvaluated DEF Interrupt, NeedsAbort, IInv, TypeOK
    <2> QED
      BY <2>1, <2>2, <2>3, <2>4 DEF IInv
  <1>13. CASE FatalAlert
    <2>1. TypeOK'
      BY <1>13 DEF FatalAlert, IInv, TypeOK
    <2>2. Handling' /\ Records'
      BY <1>13 DEF FatalAlert, IInv, Handling, Records, Outcome
    <2>3. Outcome'
      BY <1>13 DEF FatalAlert, IInv, Handling, Outcome
    <2>4. Loop' /\ Plateaus' /\ AbortsConsecutive'
      BY <1>13, NotEvaluated DEF FatalAlert, IInv, TypeOK
    <2> QED
      BY <2>1, <2>2, <2>3, <2>4 DEF IInv
  <1>14. CASE Crash
    <2>1. TypeOK'
      BY <1>14 DEF Crash, IInv, TypeOK
    <2>2. Handling' /\ Records'
      BY <1>14 DEF Crash, IInv, Handling, Records, Outcome
    <2>3. Outcome'
      BY <1>14 DEF Crash, IInv, Handling, Outcome
    <2>4. Loop' /\ Plateaus' /\ AbortsConsecutive'
      BY <1>14, NotEvaluated DEF Crash, IInv, TypeOK
    <2> QED
      BY <2>1, <2>2, <2>3, <2>4 DEF IInv
  <1> QED
    BY <1>1, <1>2, <1>3, <1>4, <1>5, <1>6, <1>7, <1>8, <1>9, <1>10, <1>11, <1>12, <1>13, <1>14

LEMMA NextIInv == IInv /\ [Next]_vars => IInv'
  <1> SUFFICES ASSUME IInv, [Next]_vars PROVE IInv'
    OBVIOUS
  <1>1. CASE Next
    BY <1>1, BeginKeepsIInv, SamplingKeepsIInv, ProgressKeepsIInv, OthersKeepIInv DEF Next, Host
  <1>2. CASE UNCHANGED vars
    BY <1>2 DEF vars, trackers, device, history, IInv, TypeOK, Loop, Plateaus, Alike, Handling,
                Records, Outcome, AbortsConsecutive
  <1> QED
    BY <1>1, <1>2

LEMMA Invariant == Spec => []IInv
  BY InitIInv, NextIInv, PTL DEF Spec

(***************************************************************************)
(* Theorems                                                                *)
(***************************************************************************)
\* The loop and its trackers stay within their bounds.
THEOREM TypeCorrect == Spec => []TypeOK
  <1>1. IInv => TypeOK
    BY DEF IInv
  <1> QED
    BY Invariant, <1>1, PTL

\* A terminal error leaves no session and no record, whenever it occurs; a plateau
\* is one in the code, though its comments take it for a completed enrolment.
THEOREM TerminalCorrect == Spec => []TerminalLeavesNothing
  <1>1. IInv => TerminalLeavesNothing
    BY DEF IInv, Outcome, Records, TerminalLeavesNothing
  <1> QED
    BY Invariant, <1>1, PTL

\* Ctrl+C discards the session wherever it strikes between the first sample
\* and the commit, and never the session of a record on its way.
THEOREM InterruptCorrect == Spec => []InterruptDiscards
  <1>1. IInv => InterruptDiscards
    BY DEF IInv, Outcome, Records, InterruptDiscards
  <1> QED
    BY Invariant, <1>1, PTL

\* The command gives up only after Limit consecutive samples without progress.
THEOREM AbortCorrect == Spec => []AbortsConsecutive
  <1>1. IInv => AbortsConsecutive
    BY DEF IInv
  <1> QED
    BY Invariant, <1>1, PTL
=============================================================================
