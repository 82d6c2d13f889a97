--------------------------- MODULE IdentifyProofs ---------------------------
(***************************************************************************)
(* Theorems about Identify, for any number of polls of the capture request *)
(* and any grace period after OnCancel.                                    *)
(***************************************************************************)
EXTENDS Identify, TLAPS

Before == {"start", "dispatch"}
Polling == Before \union {"wait"}

\* identify-all has no OnCancel and no test of the sample.
Paths ==
  /\ pc \in {"start", "grace", "judge", "query", "off"} => cmd = "identify"
  /\ asked => cmd = "identify" /\ pc \notin Polling

\* The buffer is filled once, before the capture thread stores a status, and a
\* status of "ok" the thread has stored is that of a filled buffer.
Filled ==
  /\ data # "none" => thread \in {"filled", "flag", "done"}
  /\ thread = "filled" => data # "none"
  /\ thread \in {"flag", "done"} /\ status = "ok" => data # "none"

\* The request completes by its thread, or after the full wait by OnCancel.
Completed ==
  /\ complete => thread = "done" \/ waited = MaxWait
  /\ pc \notin Polling => complete \/ waited = MaxWait
  /\ pc \in Before => waited = 0

\* A request that is complete before its thread is done is one OnCancel crossed,
\* and nothing is written to a dead frame as long as the command runs.
Crossing ==
  /\ complete /\ thread # "done" => crossed
  /\ stray => pc = "returned"

\* OnCancel is given its grace period, and identify-all a sample or the full wait.
Patience ==
  /\ pc \notin Polling \union {"grace"} /\ asked /\ ~complete => grace = Grace
  /\ cmd = "all" /\ pc \in {"templates", "match"} /\ data = "none" => waited = MaxWait

IInv ==
  /\ TypeOK /\ Paths /\ Filled /\ Completed /\ Crossing /\ Patience
  /\ MatchesSample /\ GivesUpLast /\ LightLeftOnlyIfRefused

\* A light that is still on after setIndicator(OFF) is one the sensor refused.
LEMMA AsksOff ==
  ASSUME indicator \in BOOLEAN, SetIndicator(FALSE)
  PROVE  indicator' \in BOOLEAN /\ refused' \in BOOLEAN /\ (indicator' => refused')
BY Zenon DEF SetIndicator

\* Nothing is polled yet, and the thread starts with an empty buffer.
LEMMA BeforePreserves ==
  ASSUME IInv, Start \/ Dispatch
  PROVE  IInv'
<1>1. /\ TypeOK /\ Paths /\ Filled /\ Completed /\ Crossing /\ Patience
      /\ MatchesSample /\ GivesUpLast /\ LightLeftOnlyIfRefused
  BY DEF IInv
<1>2. CASE Start
  <2>1. TypeOK' /\ Paths' /\ LightLeftOnlyIfRefused'
    BY <1>1, <1>2 DEF TypeOK, Paths, LightLeftOnlyIfRefused, Locations, Polling, Before, request,
       light, driver, SetIndicator, Start
  <2>2. Filled' /\ Completed' /\ Crossing' /\ Patience' /\ MatchesSample' /\ GivesUpLast'
    BY <1>1, <1>2 DEF Filled, Completed, Patience, MatchesSample, Crossing, GivesUpLast, Polling,
       Before, request, light, driver, Start
  <2> QED
    BY <2>1, <2>2 DEF IInv
<1>3. CASE Dispatch
  <2>1. TypeOK' /\ Paths' /\ LightLeftOnlyIfRefused'
    BY <1>1, <1>3 DEF TypeOK, Paths, LightLeftOnlyIfRefused, Locations, Polling, Before, request,
       light, driver, Dispatch
  <2>2. Filled' /\ Completed' /\ Crossing' /\ Patience' /\ MatchesSample' /\ GivesUpLast'
    BY <1>1, <1>3 DEF TypeOK, Filled, Completed, Patience, MatchesSample, Crossing, GivesUpLast,
       Polling, Before, request, light, driver, Dispatch
  <2> QED
    BY <2>1, <2>2 DEF IInv
<1> QED
  BY <1>2, <1>3

\* Polling ends with the request complete or the full wait over.
LEMMA WaitPreserves ==
  ASSUME IInv, Wait \/ IdentifyTimeout \/ AllTimeout
  PROVE  IInv'
<1>1. /\ TypeOK /\ Paths /\ Filled /\ Completed /\ Crossing /\ Patience
      /\ MatchesSample /\ GivesUpLast /\ LightLeftOnlyIfRefused
  BY DEF IInv
<1>2. CASE Wait
  <2>1. TypeOK' /\ Paths' /\ LightLeftOnlyIfRefused'
    BY <1>1, <1>2, IdentifyAssumption DEF TypeOK, Paths, LightLeftOnlyIfRefused, request,
       KeepsWaiting, light, driver, Wait
  <2>2. Filled' /\ Completed' /\ Crossing' /\ Patience' /\ MatchesSample' /\ GivesUpLast'
    BY <1>1, <1>2 DEF TypeOK, Filled, Completed, Patience, MatchesSample, Crossing, GivesUpLast,
       Before, request, KeepsWaiting, light, driver, Wait
  <2> QED
    BY <2>1, <2>2 DEF IInv
<1>3. CASE IdentifyTimeout
  <2>1. crossed' \in BOOLEAN /\ stray' = stray
    <3>1. crossed' = (thread \in {"filled", "flag"}) \/ crossed' = crossed
      BY <1>3, Zenon DEF IdentifyTimeout
    <3> QED
      BY <1>1, <1>3, <3>1 DEF TypeOK, IdentifyTimeout
  <2>2. TypeOK'
    <3>1. /\ complete' \in BOOLEAN /\ status' \in {"ok", "failed", "cancelled"}
          /\ thread' \in {"waiting", "filled", "flag", "done"}
      BY <1>1, <1>3 DEF TypeOK, IdentifyTimeout
    <3>2. pc' \in {"grace", "judge"} /\ asked' \in BOOLEAN
      BY <1>1, <1>3 DEF TypeOK, IdentifyTimeout
    <3> QED
      BY <1>1, <1>3, <2>1, <3>1, <3>2 DEF TypeOK, Locations, light, IdentifyTimeout
  <2>3. Paths' /\ LightLeftOnlyIfRefused'
    BY <1>1, <1>3 DEF Paths, LightLeftOnlyIfRefused, Polling, Before, light, IdentifyTimeout
  <2>4. Filled' /\ Completed'
    BY <1>1, <1>3, IdentifyAssumption DEF TypeOK, Filled, Completed, Before, KeepsWaiting, light,
       driver, IdentifyTimeout
  <2>5. complete' /\ thread' # "done" => crossed'
    BY <1>1, <1>3 DEF TypeOK, Completed, Crossing, Before, KeepsWaiting, IdentifyTimeout
  <2>6. Crossing' /\ Patience' /\ MatchesSample' /\ GivesUpLast'
    BY <1>1, <1>3, <2>1, <2>5 DEF Paths, Patience, MatchesSample, Crossing, GivesUpLast,
       KeepsWaiting, IdentifyTimeout
  <2> QED
    BY <2>2, <2>4, <2>6, <2>3 DEF IInv
<1>4. CASE AllTimeout
  <2>1. indicator' \in BOOLEAN /\ refused' \in BOOLEAN /\ (indicator' => refused')
    BY <1>1, <1>4, AsksOff DEF TypeOK, AllTimeout
  <2>2. TypeOK' /\ Paths' /\ LightLeftOnlyIfRefused'
    BY <1>1, <1>4, <2>1 DEF TypeOK, Paths, LightLeftOnlyIfRefused, Locations, request,
       KeepsWaiting, driver, AllTimeout
  <2>3. Filled' /\ Completed'
    BY <1>1, <1>4, IdentifyAssumption DEF TypeOK, Filled, Completed, Before, request,
       KeepsWaiting, driver, AllTimeout
  <2>4. Crossing' /\ Patience' /\ MatchesSample' /\ GivesUpLast'
    BY <1>1, <1>4, IdentifyAssumption DEF TypeOK, Paths, Filled, Completed, Patience,
       MatchesSample, Crossing, GivesUpLast, request, KeepsWaiting, driver, AllTimeout
  <2> QED
    BY <2>2, <2>3, <2>4 DEF IInv
<1> QED
  BY <1>2, <1>3, <1>4

\* A capture OnCancel has not completed gets the whole grace period.
LEMMA GracePreserves ==
  ASSUME IInv, GraceWait
  PROVE  IInv'
<1>1. /\ TypeOK /\ Paths /\ Filled /\ Completed /\ Crossing /\ Patience
      /\ MatchesSample /\ GivesUpLast /\ LightLeftOnlyIfRefused
  BY DEF IInv
<1>2. TypeOK' /\ Paths' /\ LightLeftOnlyIfRefused'
  BY <1>1, IdentifyAssumption DEF TypeOK, Paths, LightLeftOnlyIfRefused, Locations, Polling,
     Before, request, GraceOver, light, driver, GraceWait
<1>3. Filled' /\ Completed'
  BY <1>1 DEF Filled, Completed, Polling, Before, request, GraceOver, light, driver, GraceWait
<1>4. Crossing' /\ Patience' /\ MatchesSample' /\ GivesUpLast'
  BY <1>1, IdentifyAssumption DEF TypeOK, Patience, MatchesSample, Crossing, GivesUpLast,
     request, GraceOver, light, driver, GraceWait
<1> QED
  BY <1>2, <1>3, <1>4 DEF IInv

\* The three tests let a sample through, and every path asks for the light to go off.
LEMMA JudgePreserves ==
  ASSUME IInv, Judge \/ Off \/ Query
  PROVE  IInv'
<1>1. /\ TypeOK /\ Paths /\ Filled /\ Completed /\ Crossing /\ Patience
      /\ MatchesSample /\ GivesUpLast /\ LightLeftOnlyIfRefused
  BY DEF IInv
<1>2. CASE Judge
  <2>1. /\ indicator' \in BOOLEAN /\ refused' \in BOOLEAN
        /\ pc' = "off" \/ (pc' = "query" /\ (indicator' => refused'))
    <3>1. CASE Usable
      BY <1>1, <1>2, <3>1, AsksOff DEF TypeOK, Judge
    <3>2. CASE ~Usable
      BY <1>1, <1>2, <3>2 DEF TypeOK, light, Judge
    <3> QED
      BY <3>1, <3>2
  <2>2. TypeOK' /\ Paths' /\ LightLeftOnlyIfRefused'
    BY <1>1, <1>2, <2>1 DEF TypeOK, Paths, LightLeftOnlyIfRefused, Locations, Polling, Before,
       request, driver, Judge
  <2>3. Filled' /\ Completed'
    BY <1>1, <1>2 DEF Filled, Completed, Polling, Before, request, Usable, driver, Judge
  <2>4. Crossing' /\ Patience' /\ MatchesSample' /\ GivesUpLast'
    BY <1>1, <1>2 DEF Patience, MatchesSample, Crossing, GivesUpLast, Polling, Before, request,
       Usable, driver, Judge
  <2> QED
    BY <2>2, <2>3, <2>4 DEF IInv
<1>3. CASE Off
  <2>1. indicator' \in BOOLEAN /\ refused' \in BOOLEAN /\ (indicator' => refused')
    BY <1>1, <1>3, AsksOff DEF TypeOK, Off
  <2>2. TypeOK' /\ Paths' /\ LightLeftOnlyIfRefused'
    BY <1>1, <1>3, <2>1 DEF TypeOK, Paths, LightLeftOnlyIfRefused, Locations, Polling, Before,
       request, driver, Off
  <2>3. Filled' /\ Completed' /\ Crossing' /\ Patience' /\ MatchesSample' /\ GivesUpLast'
    BY <1>1, <1>3 DEF Filled, Completed, Patience, MatchesSample, Crossing, GivesUpLast, Polling,
       Before, request, driver, Off
  <2> QED
    BY <2>2, <2>3 DEF IInv
<1>4. CASE Query
  <2>1. TypeOK' /\ Paths' /\ LightLeftOnlyIfRefused'
    BY <1>1, <1>4 DEF TypeOK, Paths, LightLeftOnlyIfRefused, Locations, Polling, Before, request,
       light, driver, Query
  <2>2. Filled' /\ Completed' /\ Crossing' /\ Patience' /\ MatchesSample' /\ GivesUpLast'
    BY <1>1, <1>4 DEF Paths, Filled, Completed, Patience, MatchesSample, Crossing, GivesUpLast,
       Polling, Before, request, light, driver, Query
  <2> QED
    BY <2>1, <2>2 DEF IInv
<1> QED
  BY <1>2, <1>3, <1>4

\* identify-all passes on only with the list of all templates.
LEMMA MatchPreserves ==
  ASSUME IInv, SetTemplates \/ SetAllTemplates \/ Match
  PROVE  IInv'
<1>1. /\ TypeOK /\ Paths /\ Filled /\ Completed /\ Crossing /\ Patience
      /\ MatchesSample /\ GivesUpLast /\ LightLeftOnlyIfRefused
  BY DEF IInv
<1>2. CASE SetTemplates
  <2>1. TypeOK' /\ Paths' /\ LightLeftOnlyIfRefused'
    BY <1>1, <1>2 DEF TypeOK, Paths, LightLeftOnlyIfRefused, Locations, Polling, Before, request,
       light, driver, SetTemplates
  <2>2. Filled' /\ Completed' /\ Crossing' /\ Patience' /\ MatchesSample' /\ GivesUpLast'
    BY <1>1, <1>2 DEF Filled, Completed, Patience, MatchesSample, Crossing, GivesUpLast, Polling,
       Before, request, light, driver, SetTemplates
  <2> QED
    BY <2>1, <2>2 DEF IInv
<1>3. CASE SetAllTemplates
  <2>1. TypeOK' /\ Paths' /\ LightLeftOnlyIfRefused'
    BY <1>1, <1>3 DEF TypeOK, Paths, LightLeftOnlyIfRefused, Locations, request, light, driver,
       SetAllTemplates
  <2>2. Filled' /\ Completed'
    BY <1>1, <1>3 DEF Filled, Completed, Polling, Before, request, light, driver, SetAllTemplates
  <2>3. Crossing' /\ Patience' /\ MatchesSample' /\ GivesUpLast'
    BY <1>1, <1>3 DEF Patience, MatchesSample, Crossing, GivesUpLast, Polling, Before, request,
       light, driver, SetAllTemplates
  <2> QED
    BY <2>1, <2>2, <2>3 DEF IInv
<1>4. CASE Match
  <2>1. TypeOK' /\ Paths' /\ LightLeftOnlyIfRefused'
    BY <1>1, <1>4 DEF TypeOK, Paths, LightLeftOnlyIfRefused, Locations, Polling, Before, request,
       light, driver, Match
  <2>2. Filled' /\ Completed' /\ Crossing' /\ Patience' /\ MatchesSample' /\ GivesUpLast'
    BY <1>1, <1>4 DEF Filled, Completed, Patience, MatchesSample, Crossing, GivesUpLast, Polling,
       Before, request, light, driver, Match
  <2> QED
    BY <2>1, <2>2 DEF IInv
<1> QED
  BY <1>2, <1>3, <1>4

\* The capture thread stores a status after the buffer, and the flag last.
LEMMA DriverPreserves ==
  ASSUME IInv, MarkCancelable \/ Fill \/ StoreStatus \/ StoreComplete
  PROVE  IInv'
<1>1. /\ TypeOK /\ Paths /\ Filled /\ Completed /\ Crossing /\ Patience
      /\ MatchesSample /\ GivesUpLast /\ LightLeftOnlyIfRefused
  BY DEF IInv
\* A command that has returned before its capture was done has waited in full.
<1>2. ~FrameLive /\ thread # "done" => waited = MaxWait
  BY <1>1 DEF FrameLive, Completed, Polling, Before
<1>3. CASE MarkCancelable
  <2>1. /\ TypeOK' /\ Paths' /\ Filled' /\ Completed' /\ Crossing' /\ Patience'
        /\ MatchesSample' /\ GivesUpLast' /\ LightLeftOnlyIfRefused'
    BY <1>1, <1>3 DEF TypeOK, Paths, Filled, Completed, Patience, MatchesSample, Crossing,
       GivesUpLast, LightLeftOnlyIfRefused, host, light, driver, MarkCancelable
  <2> QED
    BY <2>1 DEF IInv
<1>4. CASE Fill
  <2>1. TypeOK' /\ Paths' /\ LightLeftOnlyIfRefused'
    BY <1>1, <1>4 DEF TypeOK, Paths, LightLeftOnlyIfRefused, host, light, FrameLive, Fill
  <2>2. Filled' /\ Completed'
    BY <1>1, <1>4 DEF Filled, Completed, host, light, FrameLive, Fill
  <2>3. Crossing' /\ Patience' /\ MatchesSample' /\ GivesUpLast'
    BY <1>1, <1>2, <1>4 DEF Filled, Completed, Patience, MatchesSample, Crossing, GivesUpLast,
       host, light, FrameLive, Fill
  <2> QED
    BY <2>1, <2>2, <2>3 DEF IInv
<1>5. CASE StoreStatus
  <2>1. TypeOK' /\ Paths' /\ LightLeftOnlyIfRefused'
    BY <1>1, <1>5 DEF TypeOK, Paths, LightLeftOnlyIfRefused, host, light, FrameLive, StoreStatus
  <2>2. Filled' /\ Completed'
    BY <1>1, <1>5 DEF Filled, Completed, host, light, FrameLive, StoreStatus
  <2>3. Crossing' /\ Patience' /\ MatchesSample' /\ GivesUpLast'
    BY <1>1, <1>2, <1>5 DEF Patience, MatchesSample, Crossing, GivesUpLast, host, light,
       FrameLive, StoreStatus
  <2> QED
    BY <2>1, <2>2, <2>3 DEF IInv
<1>6. CASE StoreComplete
  <2>1. TypeOK' /\ Paths' /\ LightLeftOnlyIfRefused'
    BY <1>1, <1>6 DEF TypeOK, Paths, LightLeftOnlyIfRefused, host, light, FrameLive, StoreComplete
  <2>2. Filled' /\ Completed'
    BY <1>1, <1>6 DEF Filled, Completed, host, light, FrameLive, StoreComplete
  <2>3. Crossing' /\ Patience' /\ MatchesSample' /\ GivesUpLast'
    BY <1>1, <1>2, <1>6 DEF Patience, MatchesSample, Crossing, GivesUpLast, host, light,
       FrameLive, StoreComplete
  <2> QED
    BY <2>1, <2>2, <2>3 DEF IInv
<1> QED
  BY <1>3, <1>4, <1>5, <1>6

\* The request is constructed with S_OK and an empty buffer.
LEMMA InitIInv == Init => IInv
<1> SUFFICES ASSUME Init PROVE IInv
  OBVIOUS
<1>1. waited \in 0..MaxWait /\ grace \in 0..Grace
  BY IdentifyAssumption DEF Init
<1>2. TypeOK
  BY <1>1 DEF Init, TypeOK, Locations
<1>3. Paths /\ Filled /\ Completed /\ Crossing /\ Patience
  BY DEF Init, Paths, Filled, Completed, Crossing, Patience, Polling, Before
<1>4. MatchesSample /\ GivesUpLast /\ LightLeftOnlyIfRefused
  BY DEF Init, MatchesSample, GivesUpLast, LightLeftOnlyIfRefused
<1> QED
  BY <1>2, <1>3, <1>4 DEF IInv

LEMMA NextPreservesIInv == IInv /\ [Next]_vars => IInv'
<1> SUFFICES ASSUME IInv, [Next]_vars PROVE IInv'
  OBVIOUS
<1>1. CASE Host
  BY <1>1, BeforePreserves, WaitPreserves, GracePreserves, JudgePreserves, MatchPreserves DEF Host
<1>2. CASE Driver
  BY <1>2, DriverPreserves DEF Driver
<1>3. CASE UNCHANGED vars
  BY <1>3 DEF vars, host, request, IInv, TypeOK, Paths, Filled, Completed, Patience, Polling,
     Before, Locations, MatchesSample, Crossing, GivesUpLast, LightLeftOnlyIfRefused, light,
     driver
<1> QED
  BY <1>1, <1>2, <1>3 DEF Next

LEMMA IInvAlways == Spec => []IInv
  BY InitIInv, NextPreservesIInv, PTL DEF Spec

\* The variables of hello.cc's identify() and identifyAll() keep their types,
\* and the capture thread starts when the request is dispatched.
THEOREM TypeCorrect == Spec => []TypeOK
  BY IInvAlways, PTL DEF IInv

\* identify() matches a sample only, however a completion and OnCancel cross;
\* identify-all matches all templates, without a capture only after the full wait.
THEOREM MatchCorrect == Spec => []MatchesSample
  BY IInvAlways, PTL DEF IInv

\* The driver writes to the dead frame of a command only after the full wait, and
\* after OnCancel either after the whole grace period too or for a capture whose
\* buffer was filled when OnCancel completed it.
THEOREM GivesUpCorrect == Spec => []GivesUpLast
  BY IInvAlways, PTL DEF IInv

\* Whichever way a command returns, the sensor's light is off or the sensor has
\* refused to turn it off.
THEOREM IndicatorCorrect == Spec => []LightLeftOnlyIfRefused
  BY IInvAlways, PTL DEF IInv
=============================================================================
