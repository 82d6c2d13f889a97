------------------------------ MODULE HostMain ------------------------------
(***************************************************************************)
(* main() of hello.cc and hello_v2_main(): argument checks, the start-up   *)
(* of the driver through either framework, the dispatch of the command,    *)
(* the database commands, and the release of the hardware.                 *)
(*                                                                         *)
(* A callback of the driver is one step of the main thread.  ResumeIdle()  *)
(* comes from a thread of the driver, once its device has been created.    *)
(* Commands with nothing but one request and a printout are one location.  *)
(***************************************************************************)
EXTENDS FiniteSets, Integers

CONSTANTS
  Records,     \* records the on-chip database may hold
  Target,      \* the record whose GUID is given to delete-record
  OfSid,       \* the records of the SID given to delete-record
  MaxRecords   \* records a listing has room for: 128 in the code

ASSUME HostMainAssumption ==
  /\ IsFiniteSet(Records) /\ Target \in Records /\ OfSid \subseteq Records
  /\ MaxRecords \in Nat \ {0}

VARIABLES
  pc,          \* location
  cmd, arg,    \* command line
  api,         \* framework of the driver: "none", "v1" or "v2"
  device,      \* how far the driver's device has been started
  goIdle,      \* goIdle, set by ResumeIdle()
  room,        \* maxRecords of the listing under way
  shown,       \* records printed by the listing, -1 before
  code,        \* exit code, -1 before
  db,          \* records on the device
  before       \* history: records on the device when the program started

vars == <<pc, cmd, arg, api, device, goIdle, room, shown, code, db, before>>

\* identify, enroll and the others that are modules of their own or one
\* request: they do not touch the stored records named in the properties.
Plain == {"nop", "identify", "reset", "get-template", "set-led"}
V1Only == {"set-indicator", "calibrate", "discard-enrollment"}
Commands == Plain \union V1Only \union {"list-db", "clear-db", "delete-record"}

\* Arguments of delete-record; "bare" is a qualifier without its value.
Targets == {"none", "subfactor", "guid", "guid-nothex", "guid-length", "sid",
            "sid-nothex", "bare", "unknown"}
WithValue == {"set-led", "set-indicator", "get-template"}
Arguments == Targets \union {"value"}

Devices == {"none", "initialized", "added", "prepared", "failed", "d0", "released"}
V1Start == {"factory", "initialize", "breakpoints", "add", "clear", "prepare",
            "d0", "idle"}
V2Start == {"entry2", "add2", "prepare2", "d02"}
Serving == {"dispatch", "plain", "count", "query", "erase", "delete"}
Locations == {"args", "inf", "load", "release", "exit", "crashed"}
             \union V1Start \union V2Start \union Serving

Exit(n) == pc' = "exit" /\ code' = n
Goto(loc) == pc' = loc /\ UNCHANGED code

\* A driver callback: on to the next location, or out when it fails.
Callback(loc, reached, next, failure) ==
  /\ pc = loc
  /\ \/ Goto(next) /\ device' = reached
     \/ Exit(failure) /\ UNCHANGED device
  /\ UNCHANGED <<cmd, arg, api, goIdle, room, shown, db, before>>

(***************************************************************************)
(* Start-up                                                                *)
(***************************************************************************)
\* "Validate arguments early": lengths and qualifiers, not hex digits.
Accepted ==
  /\ cmd \in WithValue \union {"delete-record"} => arg # "none"
  /\ arg \notin {"guid-length", "unknown"}

CheckArguments ==
  /\ pc = "args"
  /\ IF Accepted THEN Goto("inf") ELSE Exit(3)
  /\ UNCHANGED <<cmd, arg, api, device, goIdle, room, shown, db, before>>

ParseInf ==
  /\ pc = "inf"
  /\ \/ Goto("load") /\ api' \in {"v1", "v2"}
     \/ Exit(3) /\ UNCHANGED api
  /\ UNCHANGED <<cmd, arg, device, goIdle, room, shown, db, before>>

Load ==
  /\ pc = "load"
  /\ \/ Goto(IF api = "v2" THEN "entry2" ELSE "factory")
     \/ Exit(3)
  /\ UNCHANGED <<cmd, arg, api, device, goIdle, room, shown, db, before>>

GetClassObject == Callback("factory", device, "initialize", 3)
OnInitialize == Callback("initialize", "initialized", "breakpoints", 0)

\* set_bps() walks a table that has no terminating entry.
SetBreakpoints ==
  /\ pc = "breakpoints"
  /\ pc' \in {"add", "crashed"}
  /\ UNCHANGED <<cmd, arg, api, device, goIdle, room, shown, code, db, before>>

OnDeviceAdd == Callback("add", "added", "clear", 0)

ClearIdle ==
  /\ pc = "clear"
  /\ goIdle' = FALSE
  /\ Goto("prepare")
  /\ UNCHANGED <<cmd, arg, api, device, room, shown, db, before>>

OnPrepareHardware == Callback("prepare", "prepared", "d0", 1)

OnD0Entry_Unchecked ==
  /\ pc = "d0"
  /\ Goto("idle") /\ device' \in {"d0", "prepared"}
  /\ UNCHANGED <<cmd, arg, api, goIdle, room, shown, db, before>>

OnD0Entry == Callback("d0", "d0", "idle", 1)

\* while(!goIdle) Sleep(200).  The three queries of the sensor that follow are
\* part of the step: they change nothing here, and each waits for the driver.
WaitIdle_ClearsAgain ==
  /\ pc = "idle" /\ goIdle
  /\ goIdle' = FALSE
  /\ UNCHANGED <<pc, cmd, arg, api, device, room, shown, code, db, before>>

WaitIdle ==
  /\ pc = "idle" /\ goIdle
  /\ Goto("dispatch")
  /\ UNCHANGED <<cmd, arg, api, device, goIdle, room, shown, db, before>>

FxDriverEntry == Callback("entry2", "initialized", "add2", 3)
EvtDeviceAdd == Callback("add2", "added", "prepare2", 3)

\* hello_v2_main() does not return when the hardware cannot be prepared or does
\* not enter D0; either callback may be missing.
EvtPrepareHardware ==
  /\ pc = "prepare2"
  /\ device' \in {"prepared", "failed"}
  /\ Goto("d02")
  /\ UNCHANGED <<cmd, arg, api, goIdle, room, shown, db, before>>

EvtD0Entry ==
  /\ pc = "d02"
  /\ device' \in IF device = "prepared" THEN {"d0", "prepared"} ELSE {device}
  /\ Goto("dispatch")
  /\ UNCHANGED <<cmd, arg, api, goIdle, room, shown, db, before>>

(***************************************************************************)
(* Commands.  When a command is done the UMDF 1 program goes on to release *)
(* the hardware; the UMDF 2 one returns 0 or, on a failed request, 1.      *)
(***************************************************************************)
Done(succeeded) ==
  IF api = "v1" THEN Goto("release") ELSE Exit(IF succeeded THEN 0 ELSE 1)

\* Hex digits are looked at here, and by the UMDF 1 program only.
BadHex_GuidOnly == arg = "guid-nothex"
BadHex == arg \in {"guid-nothex", "sid-nothex"}

Handler == [c \in Commands |->
  CASE c = "list-db"       -> "count"
    [] c = "clear-db"      -> "erase"
    [] c = "delete-record" -> "delete"
    [] OTHER               -> "plain"]

Dispatch ==
  /\ pc = "dispatch"
  /\ IF api = "v1" /\ cmd = "delete-record" /\ BadHex THEN Exit(3)
     ELSE IF api = "v2" /\ cmd \in V1Only THEN Exit(0)
     ELSE Goto(Handler[cmd])
  /\ UNCHANGED <<cmd, arg, api, device, goIdle, room, shown, db, before>>

Plainly ==
  /\ pc = "plain"
  /\ \E ok \in BOOLEAN : (cmd = "nop" => ok) /\ Done(ok)
  /\ UNCHANGED <<cmd, arg, api, device, goIdle, room, shown, db, before>>

\* GET_RECORD_COUNT, whose answer sizes the buffer of the query.
Room_Uncapped(n) == n
Room(n) == IF n > MaxRecords THEN MaxRecords ELSE n

CountRecords ==
  /\ pc = "count"
  /\ \/ Done(FALSE) /\ UNCHANGED room
     \/ IF db = {} THEN Done(TRUE) /\ UNCHANGED room
                   ELSE Goto("query") /\ room' = Room(Cardinality(db))
  /\ UNCHANGED <<cmd, arg, api, device, goIdle, shown, db, before>>

\* STORAGE_QUERY.  The RecordCount in the answer may count records the buffer
\* has no room for; the loop stops at either bound.
Shown_RecordCount(n) == n
Shown(n) == IF n < room THEN n ELSE room

QueryRecords ==
  /\ pc = "query"
  /\ \/ Done(FALSE) /\ UNCHANGED shown
     \/ Done(TRUE) /\ shown' = Shown(Cardinality(db))
  /\ UNCHANGED <<cmd, arg, api, device, goIdle, room, db, before>>

Erase ==
  /\ pc = "erase"
  /\ \/ Done(TRUE) /\ db' = {}
     \/ Done(FALSE) /\ db' \in SUBSET db
  /\ UNCHANGED <<cmd, arg, api, device, goIdle, room, shown, before>>

\* What the identity in the DELETE_RECORD request matches at most.  The UMDF 2
\* program always sends the wildcard, the UMDF 1 one for anything but a GUID or
\* SID with its value.
Matched ==
  IF api = "v1" /\ arg = "guid" THEN {Target}
  ELSE IF api = "v1" /\ arg = "sid" THEN OfSid
  ELSE Records

\* deleteRecord(), which the UMDF 1 program follows by a listing.
Delete ==
  /\ pc = "delete"
  /\ \E gone \in SUBSET (db \intersect Matched) : db' = db \ gone
  /\ IF api = "v1" THEN Goto("count") ELSE \E ok \in BOOLEAN : Done(ok)
  /\ UNCHANGED <<cmd, arg, api, device, goIdle, room, shown, before>>

Release_Skipped ==
  /\ pc = "release"
  /\ Exit(0)
  /\ UNCHANGED <<cmd, arg, api, device, goIdle, room, shown, db, before>>

Release ==
  /\ pc = "release"
  /\ device' = "released"
  /\ \E failed \in BOOLEAN : Exit(IF failed THEN 1 ELSE 0)
  /\ UNCHANGED <<cmd, arg, api, goIdle, room, shown, db, before>>

Host == CheckArguments \/ ParseInf \/ Load \/ GetClassObject \/ OnInitialize
        \/ SetBreakpoints \/ OnDeviceAdd \/ ClearIdle \/ OnPrepareHardware
        \/ OnD0Entry \/ WaitIdle \/ FxDriverEntry \/ EvtDeviceAdd
        \/ EvtPrepareHardware \/ EvtD0Entry \/ Dispatch \/ Plainly \/ CountRecords
        \/ QueryRecords \/ Erase \/ Delete \/ Release

\* HostDevice::ResumeIdle(), from the start of OnDeviceAdd on.  The methods of
\* the UMDF 2 device do nothing.
ResumeIdle ==
  /\ api = "v1" /\ (pc = "add" \/ device \in {"added", "prepared", "d0"})
  /\ pc \notin {"exit", "crashed"}
  /\ goIdle' = TRUE
  /\ UNCHANGED <<pc, cmd, arg, api, device, room, shown, code, db, before>>

Init ==
  /\ pc = "args" /\ cmd \in Commands
  /\ \/ arg = "none"
     \/ cmd = "delete-record" /\ arg \in Targets
     \/ cmd \in WithValue /\ arg = "value"
  /\ api = "none" /\ device = "none" /\ goIdle = FALSE
  /\ room = 0 /\ shown = -1 /\ code = -1
  /\ db \in SUBSET Records /\ before = db

Next == Host \/ ResumeIdle

\* Sleep() and the power callbacks return.  Nothing obliges the driver to resume
\* idle, or to complete a request.
PowerUp == OnPrepareHardware \/ OnD0Entry \/ WaitIdle
Spec == Init /\ [][Next]_vars /\ WF_vars(PowerUp)

-----------------------------------------------------------------------------
(***************************************************************************)
(* Properties                                                              *)
(***************************************************************************)
\* Types of the command line, the start-up and the database.
TypeOK ==
  /\ pc \in Locations /\ cmd \in Commands /\ arg \in Arguments
  /\ api \in {"none", "v1", "v2"} /\ device \in Devices /\ goIdle \in BOOLEAN
  /\ room \in 0..MaxRecords /\ shown \in -1..MaxRecords
  /\ code \in {-1, 0, 1, 3}
  /\ db \subseteq before /\ before \subseteq Records

Deleted == before \ db

\* The UMDF 1 program deletes no record that the GUID or SID it was given does
\* not name, and none at all if those are not hex digits.
DeletesOnlyNamed ==
  api = "v1" /\ cmd = "delete-record" =>
    /\ arg = "guid" => Deleted \subseteq {Target}
    /\ arg = "sid" => Deleted \subseteq OfSid
    /\ arg \in {"guid-nothex", "sid-nothex"} => Deleted = {}

\* The UMDF 1 program sends a command only to a device that entered D0 and was
\* idle, and has not been released.
ServesReadyDevice == api = "v1" /\ pc \in Serving => device = "d0" /\ goIdle

\* A UMDF 1 run that got as far as preparing the hardware exits with 0 only
\* after releasing it.
SuccessReleases ==
  api = "v1" /\ code = 0 => device \in {"none", "initialized", "released"}

\* A listing stops at the end of its buffer, and is complete if the database
\* fits into one.  list-db does not say that it stopped: what it prints before
\* the entries is the number of records the driver returned.
ListsWhatFits ==
  /\ shown <= room
  /\ shown >= 0 /\ Cardinality(db) <= MaxRecords => shown = Cardinality(db)

\* A driver that resumes idle after goIdle was cleared is waited for no longer:
\* the notification is not lost, whichever power callback it comes in, and the
\* polling loop ends.  That the queries after the loop are answered is not said.
IdleNotLost ==
  goIdle /\ pc \in {"prepare", "d0", "idle"} ~> pc \in {"dispatch", "exit"}

\* "delete-record [subfactor|guid <hex>|sid <hex>]", usage(): a GUID names the
\* record to be deleted, with either framework.
GuidNamesRecord == cmd = "delete-record" /\ arg = "guid" => Deleted \subseteq {Target}
=============================================================================
