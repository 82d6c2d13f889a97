------------------------------ MODULE Identify ------------------------------
(***************************************************************************)
(* The identify and identify-all commands of hello.cc: identify() with     *)
(* identifyFeatureSet(), and identifyAll(), on the main thread, against    *)
(* the driver's capture thread.                                            *)
(*                                                                         *)
(* The capture request and its buffers are locals of the command: once it  *)
(* returns, a completion by the driver writes to a dead stack frame.  The  *)
(* other requests of the commands are answered while the host waits, so    *)
(* each is one step; the capture thread runs in between.                   *)
(***************************************************************************)
EXTENDS Integers

CONSTANTS
  MaxWait,     \* polls of the capture request: 300 in the code, 60 s
  Grace        \* polls after OnCancel: 25 in the code, 5 s

ASSUME IdentifyAssumption == MaxWait \in Nat \ {0} /\ Grace \in Nat \ {0}

VARIABLES
  pc, cmd,     \* host location, and "identify" or "all"
  waited,      \* polls of the capture request so far
  grace,       \* polls since OnCancel
  list,        \* templates the engine matches against: "all" or "db"
  indicator,   \* the sensor's light is on
  complete,    \* HostRequest::complete of the capture request
  status,      \* HostRequest::completionStatus, S_OK from the constructor on
  callback,    \* HostRequest::cancelCallback is set
  data,        \* contents of the capture's output buffer
  thread,      \* location of the driver's capture thread
  asked,       \* OnCancel has been called
  crossed,     \* history: OnCancel completed a capture the thread was completing
  stray,       \* history: a completion reached a dead frame
  refused      \* history: the sensor refused to turn the light off

request == <<complete, status, callback, data>>
light == <<indicator, refused>>
host == <<pc, cmd, waited, grace, list, light>>
driver == <<thread, asked, crossed, stray>>
vars == <<host, request, driver>>

Locations == {"start", "dispatch", "wait", "grace", "judge", "query", "templates",
              "match", "off", "returned"}
FrameLive == pc # "returned"

(***************************************************************************)
(* The commands                                                            *)
(***************************************************************************)
\* setIndicator(): a status other than success is printed, nobody looks at it.
SetIndicator(on) ==
  \/ indicator' = on /\ refused' = FALSE
  \/ UNCHANGED indicator /\ refused' = ~on

\* calibrate() if needed, then setIndicator(WINBIO_INDICATOR_ON).
Start ==
  /\ pc = "start"
  /\ cmd' \in {"identify", "all"}
  /\ SetIndicator(TRUE)
  /\ pc' = "dispatch"
  /\ UNCHANGED <<waited, grace, list, request, driver>>

\* OnDeviceIoControl(IOCTL_BIOMETRIC_CAPTURE_DATA) starts the capture thread.
Dispatch ==
  /\ pc = "dispatch"
  /\ thread' = "waiting"
  /\ pc' = "wait"
  /\ UNCHANGED <<cmd, waited, grace, list, light, request, asked, crossed, stray>>

\* while(!req.complete && waitedMs < 60000) Sleep(200)
KeepsWaiting_OffByOne == ~complete /\ waited <= MaxWait
KeepsWaiting == ~complete /\ waited < MaxWait

Wait ==
  /\ pc = "wait" /\ KeepsWaiting
  /\ waited' = waited + 1
  /\ UNCHANGED <<pc, cmd, grace, list, light, request, driver>>

\* identify(): if(!req.complete), and then if(req.cancelCallback).  OnCancel
\* of a driver whose thread has not finished the capture yet either completes
\* the request, leaves that to the thread or does nothing.  If the capture is
\* finished, UnmarkCancelable() has not taken the callback back, and OnCancel
\* completes a request that the thread goes on to complete.
IdentifyTimeout ==
  /\ pc = "wait" /\ cmd = "identify" /\ ~KeepsWaiting
  /\ IF ~complete /\ callback
       THEN /\ asked' = TRUE /\ pc' = "grace"
            /\ \/ /\ complete' = TRUE /\ status' = "cancelled"
                  /\ thread' = IF thread = "waiting" THEN "done" ELSE thread
                  /\ crossed' = (thread \in {"filled", "flag"})
               \/ UNCHANGED <<complete, status, thread, crossed>>
       ELSE pc' = "judge" /\ UNCHANGED <<asked, complete, status, thread, crossed>>
  /\ UNCHANGED <<cmd, waited, grace, list, light, callback, data, stray>>

\* for(int i=0;i<25 && !req.complete;i++) Sleep(200)
GraceOver_Never == FALSE
GraceOver_AtOnce == TRUE
GraceOver == grace >= Grace

GraceWait ==
  /\ pc = "grace"
  /\ IF ~complete /\ ~GraceOver
       THEN grace' = (IF grace < Grace THEN grace + 1 ELSE grace) /\ UNCHANGED pc
       ELSE pc' = "judge" /\ UNCHANGED grace
  /\ UNCHANGED <<cmd, waited, list, light, request, driver>>

\* The three tests after the wait: pending, failed, without a sample.
Usable_StatusOnly == complete /\ status = "ok"
Usable == complete /\ status = "ok" /\ data = "sample"

Judge ==
  /\ pc = "judge"
  /\ IF Usable THEN pc' = "query" /\ SetIndicator(FALSE)
               ELSE pc' = "off" /\ UNCHANGED light
  /\ UNCHANGED <<cmd, waited, grace, list, request, driver>>

\* setIndicator(WINBIO_INDICATOR_OFF) and return.
Off_LightLeft ==
  /\ pc = "off"
  /\ pc' = "returned"
  /\ UNCHANGED <<cmd, waited, grace, list, light, request, driver>>

Off ==
  /\ pc = "off"
  /\ SetIndicator(FALSE)
  /\ pc' = "returned"
  /\ UNCHANGED <<cmd, waited, grace, list, request, driver>>

\* identifyFeatureSet(): a failed STORAGE_QUERY aborts.
Query ==
  /\ pc = "query"
  /\ pc' \in {"templates", "returned"}
  /\ UNCHANGED <<cmd, waited, grace, list, light, request, driver>>

\* SET_TEMPLATE_LIST with the records of the database; its status is printed.
SetTemplates ==
  /\ pc = "templates" /\ cmd = "identify"
  /\ list' \in {list, "db"}
  /\ pc' = "match"
  /\ UNCHANGED <<cmd, waited, grace, light, request, driver>>

\* identifyAll(): setIndicator(OFF), and only completionStatus is looked at.
AllTimeout ==
  /\ pc = "wait" /\ cmd = "all" /\ ~KeepsWaiting
  /\ SetIndicator(FALSE)
  /\ pc' = IF status = "ok" THEN "templates" ELSE "returned"
  /\ UNCHANGED <<cmd, waited, grace, list, request, driver>>

\* An empty list stands for all templates; a failure aborts.
SetAllTemplates ==
  /\ pc = "templates" /\ cmd = "all"
  /\ \/ list' = "all" /\ pc' = "match"
     \/ pc' = "returned" /\ UNCHANGED list
  /\ UNCHANGED <<cmd, waited, grace, light, request, driver>>

\* IDENTIFY_FEATURE_SET, and the result is printed.
Match ==
  /\ pc = "match"
  /\ pc' = "returned"
  /\ UNCHANGED <<cmd, waited, grace, list, light, request, driver>>

Host == Start \/ Dispatch \/ Wait \/ IdentifyTimeout \/ GraceWait \/ Judge \/ Off
        \/ Query \/ SetTemplates \/ AllTimeout \/ SetAllTemplates \/ Match

(***************************************************************************)
(* The driver's capture thread.  HostRequest::Complete() stores the status *)
(* and then the flag; the build, without optimisation, keeps that order.   *)
(***************************************************************************)
MarkCancelable ==
  /\ thread = "waiting" /\ ~callback
  /\ callback' = TRUE
  /\ UNCHANGED <<host, complete, status, data, driver>>

\* A touch fills the buffer; UnmarkCancelable() changes nothing.
Fill ==
  /\ thread = "waiting"
  /\ data' \in {"sample", "unusable"}
  /\ thread' = "filled"
  /\ stray' = (stray \/ ~FrameLive)
  /\ UNCHANGED <<host, complete, status, callback, asked, crossed>>

StoreStatus ==
  /\ \/ thread = "filled" /\ status' = "ok"
     \/ thread = "waiting" /\ status' = IF asked THEN "cancelled" ELSE "failed"
  /\ thread' = "flag"
  /\ stray' = (stray \/ ~FrameLive)
  /\ UNCHANGED <<host, complete, callback, data, asked, crossed>>

StoreComplete ==
  /\ thread = "flag"
  /\ complete' = TRUE
  /\ thread' = "done"
  /\ stray' = (stray \/ ~FrameLive)
  /\ UNCHANGED <<host, status, callback, data, asked, crossed>>

Driver == MarkCancelable \/ Fill \/ StoreStatus \/ StoreComplete

\* An earlier command of the session may have left its list, or the light on.
Init ==
  /\ pc = "start" /\ cmd = "identify" /\ waited = 0 /\ grace = 0
  /\ list \in {"all", "db"} /\ indicator \in BOOLEAN /\ refused = FALSE
  /\ complete = FALSE /\ status = "ok" /\ callback = FALSE /\ data = "none"
  /\ thread = "idle" /\ asked = FALSE /\ crossed = FALSE /\ stray = FALSE

Next == Host \/ Driver

\* Sleep() returns and the driver answers the other requests; nothing obliges
\* the user to touch the sensor or the driver to end the capture.
Spec == Init /\ [][Next]_vars /\ WF_vars(Host)

-----------------------------------------------------------------------------
(***************************************************************************)
(* Properties                                                              *)
(***************************************************************************)
\* Types; the capture thread is idle until the request is dispatched.
TypeOK ==
  /\ pc \in Locations /\ cmd \in {"identify", "all"}
  /\ waited \in 0..MaxWait /\ grace \in 0..Grace
  /\ list \in {"all", "db"} /\ indicator \in BOOLEAN /\ refused \in BOOLEAN
  /\ complete \in BOOLEAN /\ status \in {"ok", "failed", "cancelled"}
  /\ callback \in BOOLEAN /\ data \in {"none", "sample", "unusable"}
  /\ thread \in {"idle", "waiting", "filled", "flag", "done"}
  /\ asked \in BOOLEAN /\ crossed \in BOOLEAN /\ stray \in BOOLEAN
  /\ thread = "idle" <=> pc \in {"start", "dispatch"}

\* What is matched against what.  identify() matches only a sample: neither the
\* S_OK a pending request is constructed with nor a cancellation that crosses
\* the completion lets it pass an empty buffer on.  identify-all has no such
\* test and matches without a capture, but only after the full 60 s; in return
\* it never matches against the list an earlier command left.
MatchesSample ==
  /\ cmd = "identify" /\ pc \in {"query", "templates", "match"} => data = "sample"
  /\ cmd = "all" /\ pc = "match" => list = "all" /\ (data = "none" => waited = MaxWait)

\* When the driver may write to the dead frame of a command: only after the
\* full 60 s, and by identify() only after the whole grace period too if it
\* called OnCancel, with one exception.  If OnCancel completes a capture whose
\* buffer the thread has just filled, the grace loop ends at once, and what the
\* thread still stores is written after the return, without any grace.
GivesUpLast ==
  /\ stray => waited = MaxWait
  /\ stray /\ cmd = "identify" /\ asked => grace = Grace \/ crossed
  /\ pc = "returned" /\ cmd = "identify" /\ ~complete
     => waited = MaxWait /\ (asked => grace = Grace)

\* Every return has asked the sensor to turn its light off: it stays on only if
\* the sensor refused.  The code prints that refusal and never asks again.
LightLeftOnlyIfRefused ==
  pc \in {"query", "templates", "match", "returned"} /\ indicator => refused

\* Both commands return although the sensor is never touched and the driver
\* ignores OnCancel.
Returns == <>(pc = "returned")
=============================================================================
