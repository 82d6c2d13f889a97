--------------------------- MODULE EnrollProtocol ---------------------------
(***************************************************************************)
(* What an enrolment client promises the engine, whatever loop, retry or   *)
(* signal handler drives it: samples are only added to an open session,    *)
(* the duplicate check is asked after the last sample, a record is only    *)
(* stored once that check has been answered without a match, one record    *)
(* ends the session, and a session is only dropped while it is still       *)
(* collecting samples.  The process may vanish at any time.                *)
(***************************************************************************)
CONSTANT Records                 \* every record a client could store

VARIABLES
  session,                       \* "none" or "open", kept by the device
  template,                      \* how far the session's template is
  check,                         \* answer to the duplicate check of this run
  stored                         \* the records on the device

vars == <<session, template, check, stored>>

Collecting == session = "open" /\ check = "none"

Init == session = "none" /\ template = "none" /\ check = "none" /\ stored = {}

Begin ==
  /\ check = "none"
  /\ session' = "open" /\ template' = "partial"
  /\ UNCHANGED <<check, stored>>

Sample ==
  /\ Collecting
  /\ template' \in {"partial", "complete"}
  /\ UNCHANGED <<session, check, stored>>

Check ==
  /\ Collecting
  /\ check' \in {"failed", "unique", "dup"}
  /\ UNCHANGED <<session, template, stored>>

Store ==
  /\ session = "open" /\ check \in {"failed", "unique"}
  /\ \E r \in Records \ stored : stored' = stored \union {r}
  /\ session' = "none" /\ template' = "none"
  /\ UNCHANGED check

Drop ==
  /\ Collecting
  /\ session' = "none" /\ template' = "none"
  /\ UNCHANGED <<check, stored>>

NewRun == check' = "none" /\ UNCHANGED <<session, template, stored>>

Next == Begin \/ Sample \/ Check \/ Store \/ Drop \/ NewRun

Spec == Init /\ [][Next]_vars
=============================================================================
