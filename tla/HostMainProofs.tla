--------------------------- MODULE HostMainProofs ---------------------------
(***************************************************************************)
(* Safety of HostMain for any records, any GUID and SID given to           *)
(* delete-record and any room for a listing.                               *)
(***************************************************************************)
EXTENDS HostMain, FiniteSetTheorems, TLAPS

\* Each program stays on its own start-up path; a command's locations are
\* reached by that command only.
Paths ==
  /\ pc \in {"args", "inf", "load"} => device = "none"
  /\ pc \in {"args", "inf"} => api = "none"
  /\ pc = "load" => api # "none"
  /\ api = "none" => db = before
  /\ pc \in V1Start \union {"release"} => api = "v1"
  /\ pc \in V2Start => api = "v2"
  /\ pc \in Serving => api \in {"v1", "v2"}
  /\ pc = "erase" => cmd = "clear-db"
  /\ pc = "delete" /\ api = "v1" =>
       cmd = "delete-record" /\ arg \notin {"guid-nothex", "sid-nothex"}
  /\ pc # "exit" => code = -1

\* How far the UMDF 1 device has been started, per location.
Power ==
  api = "v1" =>
    /\ pc \in {"factory", "initialize"} => device = "none"
    /\ pc \in {"breakpoints", "add"} => device = "initialized"
    /\ pc \in {"clear", "prepare"} => device = "added"
    /\ pc = "d0" => device = "prepared"
    /\ pc \in {"idle", "release"} => device = "d0"
    /\ pc \in Serving => device = "d0" /\ goIdle

\* What the room and the shown records are taken from.
Listing ==
  /\ shown # -1 => pc \in {"release", "exit"}
  /\ pc = "query" \/ shown # -1 => room = Room(Cardinality(db))
  /\ shown # -1 => shown = Shown(Cardinality(db))

IInv == /\ TypeOK /\ Paths /\ Power /\ Listing
        /\ DeletesOnlyNamed /\ SuccessReleases
-----------------------------------------------------------------------------
(* A set of records has a size, and room for some of it.                    *)
LEMMA SizeAndRoom ==
  ASSUME NEW S \in SUBSET Records
  PROVE  /\ Cardinality(S) \in Nat
         /\ Room(Cardinality(S)) \in 0..MaxRecords
<1>1. Cardinality(S) \in Nat
  BY HostMainAssumption, FS_Subset, FS_CardinalityType
<1> QED BY <1>1, HostMainAssumption DEF Room

(* The program starts with every part of the invariant.                     *)
LEMMA InitIInv == Init => IInv
<1> SUFFICES ASSUME Init PROVE IInv
  OBVIOUS
<1>1. TypeOK
  <2>1. pc \in Locations /\ cmd \in Commands
    BY DEF Init, Locations
  <2>2. arg \in Arguments
    BY DEF Init, Arguments, Targets
  <2>3. device \in Devices
    BY DEF Init, Devices
  <2>4. room \in 0..MaxRecords /\ shown \in -1..MaxRecords
    BY HostMainAssumption DEF Init
  <2>5. db \subseteq before /\ before \subseteq Records
    BY DEF Init
  <2> QED BY <2>1, <2>2, <2>3, <2>4, <2>5 DEF Init, TypeOK
<1>2. Paths /\ Power
  BY DEF Init, Paths, Power, V1Start, V2Start, Serving
<1>3. Listing /\ DeletesOnlyNamed /\ SuccessReleases
  BY DEF Init, Listing, DeletesOnlyNamed, SuccessReleases, Deleted
<1> QED BY <1>1, <1>2, <1>3 DEF IInv

\* A step that leaves the records and the listing alone.
Quiet ==
  /\ UNCHANGED <<cmd, arg, room, shown, db, before>>
  /\ api' = api \/ (api = "none" /\ api' \in {"v1", "v2"})
  /\ goIdle' \in BOOLEAN
  /\ pc' \in Locations
  /\ device' = device \/ device' \in Devices
  /\ code' = code \/ code' \in {-1, 0, 1, 3}
  /\ shown = -1 \/ pc' \in {"release", "exit"}
  /\ pc' # "query"

(* Such a step disturbs only Paths, Power and SuccessReleases.              *)
LEMMA Elsewhere ==
  ASSUME IInv, Quiet
  PROVE  TypeOK' /\ Listing' /\ DeletesOnlyNamed'
<1>1. TypeOK'
  BY DEF IInv, TypeOK, Quiet
<1>2. Listing'
  BY DEF IInv, Listing, Room, Shown, Quiet
<1>3. DeletesOnlyNamed'
  BY DEF IInv, Paths, DeletesOnlyNamed, Deleted, Quiet
<1> QED BY <1>1, <1>2, <1>3

(* Start-up, the argument checks and the release.                           *)
LEMMA StartUpIInv ==
  ASSUME IInv,
         \/ CheckArguments \/ ParseInf \/ Load
         \/ GetClassObject \/ OnInitialize \/ SetBreakpoints \/ OnDeviceAdd
         \/ ClearIdle \/ OnPrepareHardware \/ OnD0Entry \/ WaitIdle
         \/ FxDriverEntry \/ EvtDeviceAdd \/ EvtPrepareHardware \/ EvtD0Entry
         \/ Release
  PROVE  IInv'
<1> USE DEF Goto, Exit, Callback
<1>1. shown = -1 \/ pc = "release"
  BY DEF IInv, Listing, CheckArguments, ParseInf, Load, GetClassObject, OnInitialize,
     SetBreakpoints, OnDeviceAdd, ClearIdle, OnPrepareHardware, OnD0Entry,
     WaitIdle, FxDriverEntry, EvtDeviceAdd, EvtPrepareHardware, EvtD0Entry, Release
<1>2. CASE CheckArguments
  <2>1. Quiet
    BY <1>1, <1>2
    DEF CheckArguments, Quiet, IInv, TypeOK, Paths, Locations, Devices,
        V1Start, V2Start, Serving
  <2>2. Paths' /\ Power' /\ SuccessReleases'
    BY <1>2
    DEF CheckArguments, IInv, Paths, Power, SuccessReleases, V1Start, V2Start, Serving
  <2> QED BY <2>1, <2>2, Elsewhere DEF IInv
<1>3. CASE ParseInf
  <2>1. Quiet
    BY <1>1, <1>3
    DEF ParseInf, Quiet, IInv, TypeOK, Paths, Locations, Devices,
        V1Start, V2Start, Serving
  <2>2. Paths' /\ Power' /\ SuccessReleases'
    BY <1>3
    DEF ParseInf, IInv, Paths, Power, SuccessReleases, V1Start, V2Start, Serving
  <2> QED BY <2>1, <2>2, Elsewhere DEF IInv
<1>4. CASE Load
  <2>1. Quiet
    BY <1>1, <1>4
    DEF Load, Quiet, IInv, TypeOK, Paths, Locations, Devices,
        V1Start, V2Start, Serving
  <2>2. Paths' /\ Power' /\ SuccessReleases'
    BY <1>4
    DEF Load, IInv, TypeOK, Paths, Power, SuccessReleases, V1Start, V2Start, Serving
  <2> QED BY <2>1, <2>2, Elsewhere DEF IInv
<1>5. CASE GetClassObject
  <2>1. Quiet
    BY <1>1, <1>5
    DEF GetClassObject, Quiet, IInv, TypeOK, Paths, Locations, Devices,
        V1Start, V2Start, Serving
  <2>2. Paths' /\ Power' /\ SuccessReleases'
    BY <1>5
    DEF GetClassObject, IInv, Paths, Power, SuccessReleases, V1Start, V2Start, Serving
  <2> QED BY <2>1, <2>2, Elsewhere DEF IInv
<1>6. CASE OnInitialize
  <2>1. Quiet
    BY <1>1, <1>6
    DEF OnInitialize, Quiet, IInv, TypeOK, Paths, Locations, Devices,
        V1Start, V2Start, Serving
  <2>2. Paths' /\ Power' /\ SuccessReleases'
    BY <1>6
    DEF OnInitialize, IInv, Paths, Power, SuccessReleases, V1Start, V2Start, Serving
  <2> QED BY <2>1, <2>2, Elsewhere DEF IInv
<1>7. CASE SetBreakpoints
  <2>1. Quiet
    BY <1>1, <1>7
    DEF SetBreakpoints, Quiet, IInv, TypeOK, Paths, Locations, Devices,
        V1Start, V2Start, Serving
  <2>2. Paths' /\ Power' /\ SuccessReleases'
    BY <1>7
    DEF SetBreakpoints, IInv, Paths, Power, SuccessReleases, V1Start, V2Start, Serving
  <2> QED BY <2>1, <2>2, Elsewhere DEF IInv
<1>8. CASE OnDeviceAdd
  <2>1. Quiet
    BY <1>1, <1>8
    DEF OnDeviceAdd, Quiet, IInv, TypeOK, Paths, Locations, Devices,
        V1Start, V2Start, Serving
  <2>2. Paths' /\ Power' /\ SuccessReleases'
    BY <1>8
    DEF OnDeviceAdd, IInv, Paths, Power, SuccessReleases, V1Start, V2Start, Serving
  <2> QED BY <2>1, <2>2, Elsewhere DEF IInv
<1>9. CASE ClearIdle
  <2>1. Quiet
    BY <1>1, <1>9
    DEF ClearIdle, Quiet, IInv, TypeOK, Paths, Locations, Devices,
        V1Start, V2Start, Serving
  <2>2. Paths' /\ Power' /\ SuccessReleases'
    BY <1>9
    DEF ClearIdle, IInv, Paths, Power, SuccessReleases, V1Start, V2Start, Serving
  <2> QED BY <2>1, <2>2, Elsewhere DEF IInv
<1>10. CASE OnPrepareHardware
  <2>1. Quiet
    BY <1>1, <1>10
    DEF OnPrepareHardware, Quiet, IInv, TypeOK, Paths, Locations, Devices,
        V1Start, V2Start, Serving
  <2>2. Paths' /\ Power' /\ SuccessReleases'
    BY <1>10
    DEF OnPrepareHardware, IInv, Paths, Power, SuccessReleases, V1Start, V2Start, Serving
  <2> QED BY <2>1, <2>2, Elsewhere DEF IInv
<1>11. CASE OnD0Entry
  <2>1. Quiet
    BY <1>1, <1>11
    DEF OnD0Entry, Quiet, IInv, TypeOK, Paths, Locations, Devices,
        V1Start, V2Start, Serving
  <2>2. Paths' /\ Power' /\ SuccessReleases'
    BY <1>11
    DEF OnD0Entry, IInv, Paths, Power, SuccessReleases, V1Start, V2Start, Serving
  <2> QED BY <2>1, <2>2, Elsewhere DEF IInv
<1>12. CASE WaitIdle
  <2>1. Quiet
    BY <1>1, <1>12
    DEF WaitIdle, Quiet, IInv, TypeOK, Paths, Locations, Devices,
        V1Start, V2Start, Serving
  <2>2. Paths' /\ Power' /\ SuccessReleases'
    BY <1>12
    DEF WaitIdle, IInv, Paths, Power, SuccessReleases, V1Start, V2Start, Serving
  <2> QED BY <2>1, <2>2, Elsewhere DEF IInv
<1>13. CASE FxDriverEntry
  <2>1. Quiet
    BY <1>1, <1>13
    DEF FxDriverEntry, Quiet, IInv, TypeOK, Paths, Locations, Devices,
        V1Start, V2Start, Serving
  <2>2. Paths' /\ Power' /\ SuccessReleases'
    BY <1>13
    DEF FxDriverEntry, IInv, Paths, Power, SuccessReleases, V1Start, V2Start, Serving
  <2> QED BY <2>1, <2>2, Elsewhere DEF IInv
<1>14. CASE EvtDeviceAdd
  <2>1. Quiet
    BY <1>1, <1>14
    DEF EvtDeviceAdd, Quiet, IInv, TypeOK, Paths, Locations, Devices,
        V1Start, V2Start, Serving
  <2>2. Paths' /\ Power' /\ SuccessReleases'
    BY <1>14
    DEF EvtDeviceAdd, IInv, Paths, Power, SuccessReleases, V1Start, V2Start, Serving
  <2> QED BY <2>1, <2>2, Elsewhere DEF IInv
<1>15. CASE EvtPrepareHardware
  <2>1. Quiet
    BY <1>1, <1>15
    DEF EvtPrepareHardware, Quiet, IInv, TypeOK, Paths, Locations, Devices,
        V1Start, V2Start, Serving
  <2>2. Paths' /\ Power' /\ SuccessReleases'
    BY <1>15
    DEF EvtPrepareHardware, IInv, Paths, Power, SuccessReleases, V1Start, V2Start, Serving
  <2> QED BY <2>1, <2>2, Elsewhere DEF IInv
<1>16. CASE EvtD0Entry
  <2>1. Quiet
    BY <1>1, <1>16
    DEF EvtD0Entry, Quiet, IInv, TypeOK, Paths, Locations, Devices,
        V1Start, V2Start, Serving
  <2>2. Paths' /\ Power' /\ SuccessReleases'
    BY <1>16
    DEF EvtD0Entry, IInv, Paths, Power, SuccessReleases, V1Start, V2Start, Serving
  <2> QED BY <2>1, <2>2, Elsewhere DEF IInv
<1>17. CASE Release
  <2>1. Quiet
    BY <1>1, <1>17
    DEF Release, Quiet, IInv, TypeOK, Paths, Locations, Devices,
        V1Start, V2Start, Serving
  <2>2. Paths' /\ Power' /\ SuccessReleases'
    BY <1>17
    DEF Release, IInv, Paths, Power, SuccessReleases, V1Start, V2Start, Serving
  <2> QED BY <2>1, <2>2, Elsewhere DEF IInv
<1> QED
  BY <1>2, <1>3, <1>4, <1>5, <1>6, <1>7, <1>8, <1>9, <1>10, <1>11, <1>12, <1>13, <1>14, <1>15, <1>16, <1>17

(* The dispatch and the commands.                                           *)
LEMMA CommandIInv ==
  ASSUME IInv,
         Dispatch \/ Plainly \/ CountRecords \/ QueryRecords \/ Erase \/ Delete
  PROVE  IInv'
<1> USE DEF Goto, Exit, Done
<1>1. CASE Dispatch
  <2>1. pc' \in {"exit", "count", "erase", "delete", "plain"}
    BY <1>1 DEF Dispatch, Handler, IInv, TypeOK
  <2>2. Quiet
    BY <1>1, <2>1
    DEF Dispatch, Quiet, IInv, TypeOK, Listing, Locations, Serving
  <2>3. /\ pc' = "erase" => cmd = "clear-db"
        /\ pc' = "delete" => cmd = "delete-record"
    BY <1>1 DEF Dispatch, Handler, IInv, TypeOK
  <2>4. Paths'
    BY <1>1, <2>1, <2>3
    DEF Dispatch, IInv, Paths, BadHex, V1Start, V2Start, Serving
  <2>5. Power' /\ SuccessReleases'
    BY <1>1, <2>1 DEF Dispatch, IInv, Paths, Power, SuccessReleases, Serving
  <2> QED BY <2>2, <2>4, <2>5, Elsewhere DEF IInv
<1>2. CASE Plainly
  <2>1. Quiet
    BY <1>2 DEF Plainly, Quiet, IInv, TypeOK, Listing, Locations
  <2>2. Paths' /\ Power' /\ SuccessReleases'
    BY <1>2
    DEF Plainly, IInv, Paths, Power, SuccessReleases, V1Start, V2Start, Serving
  <2> QED BY <2>1, <2>2, Elsewhere DEF IInv
<1>3. CASE CountRecords
  <2>1. shown = -1 /\ shown' = -1 /\ db' = db
    BY <1>3 DEF CountRecords, IInv, Listing
  <2>2. pc' \in {"release", "exit", "query"} /\ code' \in {code, 0, 1}
    BY <1>3 DEF CountRecords
  <2>3. room' \in 0..MaxRecords
    BY <1>3, SizeAndRoom DEF CountRecords, IInv, TypeOK
  <2>4. TypeOK'
    BY <1>3, <2>1, <2>2, <2>3
    DEF CountRecords, IInv, TypeOK, Locations, Serving
  <2>5. Listing'
    BY <1>3, <2>1 DEF CountRecords, Listing
  <2>6. Paths' /\ Power' /\ SuccessReleases'
    BY <1>3, <2>2
    DEF CountRecords, IInv, Paths, Power, SuccessReleases, V1Start, V2Start, Serving
  <2>7. DeletesOnlyNamed'
    BY <1>3 DEF CountRecords, IInv, DeletesOnlyNamed, Deleted
  <2> QED BY <2>4, <2>5, <2>6, <2>7 DEF IInv
<1>4. CASE QueryRecords
  <2>1. pc' \in {"release", "exit"} /\ code' \in {code, 0, 1}
    BY <1>4 DEF QueryRecords
  <2>2. Cardinality(db) \in Nat /\ room \in 0..MaxRecords
    BY SizeAndRoom DEF IInv, TypeOK
  <2>3. shown' = shown \/ shown' \in 0..MaxRecords
    BY <1>4, <2>2, HostMainAssumption DEF QueryRecords, Shown
  <2>4. TypeOK'
    BY <1>4, <2>1, <2>2, <2>3 DEF QueryRecords, IInv, TypeOK, Locations
  <2>5. Listing'
    BY <1>4, <2>1 DEF QueryRecords, IInv, Listing, Shown
  <2>6. Paths' /\ Power' /\ SuccessReleases'
    BY <1>4, <2>1
    DEF QueryRecords, IInv, Paths, Power, SuccessReleases, V1Start, V2Start, Serving
  <2>7. DeletesOnlyNamed'
    BY <1>4 DEF QueryRecords, IInv, DeletesOnlyNamed, Deleted
  <2> QED BY <2>4, <2>5, <2>6, <2>7 DEF IInv
<1>5. CASE Erase
  <2>1. /\ shown = -1 /\ shown' = -1 /\ room' = room
        /\ db' \subseteq db /\ cmd' = "clear-db" /\ api' \in {"v1", "v2"}
    BY <1>5 DEF Erase, IInv, Paths, Listing, Serving
  <2>2. pc' \in {"release", "exit"} /\ code' \in {code, 0, 1}
    BY <1>5 DEF Erase
  <2>3. TypeOK'
    BY <1>5, <2>1, <2>2 DEF Erase, IInv, TypeOK, Locations
  <2>4. Listing'
    BY <2>1, <2>2 DEF Listing
  <2>5. Paths' /\ Power' /\ SuccessReleases'
    BY <1>5, <2>1, <2>2
    DEF Erase, IInv, Paths, Power, SuccessReleases, V1Start, V2Start, Serving
  <2>6. DeletesOnlyNamed'
    BY <2>1 DEF DeletesOnlyNamed
  <2> QED BY <2>3, <2>4, <2>5, <2>6 DEF IInv
<1>6. CASE Delete
  <2>1. /\ shown = -1 /\ shown' = -1 /\ room' = room
        /\ db' \subseteq db /\ db \ db' \subseteq Matched
    BY <1>6 DEF Delete, IInv, Listing
  <2>2. pc' \in {"count", "release", "exit"} /\ code' \in {code, 0, 1}
    BY <1>6 DEF Delete
  <2>3. TypeOK'
    BY <1>6, <2>1, <2>2 DEF Delete, IInv, TypeOK, Locations, Serving
  <2>4. Listing'
    BY <2>1, <2>2 DEF Listing
  <2>5. Paths' /\ Power' /\ SuccessReleases'
    BY <1>6, <2>1, <2>2
    DEF Delete, IInv, Paths, Power, SuccessReleases, V1Start, V2Start, Serving
  <2>6. UNCHANGED <<cmd, arg, api, before>>
    BY <1>6 DEF Delete
  <2>7. api = "v1" => arg \notin {"guid-nothex", "sid-nothex"}
    BY <1>6 DEF Delete, IInv, Paths
  <2>8. DeletesOnlyNamed'
    BY <2>1, <2>6, <2>7 DEF IInv, DeletesOnlyNamed, Deleted, Matched
  <2> QED BY <2>3, <2>4, <2>5, <2>8 DEF IInv
<1> QED BY <1>1, <1>2, <1>3, <1>4, <1>5, <1>6

(* Every step keeps the invariant.                                          *)
LEMMA NextIInv == IInv /\ [Next]_vars => IInv'
<1> SUFFICES ASSUME IInv, [Next]_vars PROVE IInv'
  OBVIOUS
<1>1. CASE Host
  BY <1>1, StartUpIInv, CommandIInv DEF Host
<1>2. CASE ResumeIdle
  <2>1. /\ UNCHANGED <<pc, cmd, arg, api, device, room, shown, code, db, before>>
        /\ goIdle' = TRUE
    BY <1>2 DEF ResumeIdle
  <2>2. TypeOK'
    BY <2>1 DEF IInv, TypeOK
  <2>3. Paths' /\ Power' /\ SuccessReleases'
    BY <2>1 DEF IInv, Paths, Power, SuccessReleases
  <2>4. Listing' /\ DeletesOnlyNamed'
    BY <2>1 DEF IInv, Listing, Room, Shown, DeletesOnlyNamed, Deleted
  <2> QED BY <2>2, <2>3, <2>4 DEF IInv
<1>3. CASE UNCHANGED vars
  BY <1>3 DEF vars, IInv, TypeOK, Paths, Power, SuccessReleases, Listing, Room,
     Shown, DeletesOnlyNamed, Deleted
<1> QED BY <1>1, <1>2, <1>3 DEF Next
-----------------------------------------------------------------------------
(* The variables of main() keep their types, for any records and any room   *)
(* for a listing.                                                           *)
THEOREM TypeCorrect == Spec => []TypeOK
<1>1. IInv => TypeOK
  BY DEF IInv
<1> QED BY InitIInv, NextIInv, <1>1, PTL DEF Spec

(* delete-record under UMDF 1 deletes nothing that its GUID or SID does not *)
(* name, for any database and whatever the sensor deletes of what matches.  *)
THEOREM DeletionCorrect == Spec => []DeletesOnlyNamed
<1>1. IInv => DeletesOnlyNamed
  BY DEF IInv
<1> QED BY InitIInv, NextIInv, <1>1, PTL DEF Spec

(* Under UMDF 1 a command is sent only to a device in D0 that was idle,     *)
(* whichever callback failed and whenever ResumeIdle() came.                *)
THEOREM DispatchCorrect == Spec => []ServesReadyDevice
<1>1. IInv => ServesReadyDevice
  BY DEF IInv, Power, ServesReadyDevice
<1> QED BY InitIInv, NextIInv, <1>1, PTL DEF Spec

(* Under UMDF 1 exit code 0 means that no prepared hardware was left.       *)
THEOREM ReleaseCorrect == Spec => []SuccessReleases
<1>1. IInv => SuccessReleases
  BY DEF IInv
<1> QED BY InitIInv, NextIInv, <1>1, PTL DEF Spec

(* A listing never reads beyond the buffer it allocated, and shows every    *)
(* record of a database that fits, for any size of database and buffer.     *)
THEOREM ListingCorrect == Spec => []ListsWhatFits
<1>1. IInv => ListsWhatFits
  <2> SUFFICES ASSUME IInv PROVE ListsWhatFits
    OBVIOUS
  <2>1. Cardinality(db) \in Nat /\ room \in 0..MaxRecords /\ shown \in -1..MaxRecords
    BY SizeAndRoom DEF IInv, TypeOK
  <2> QED BY <2>1, HostMainAssumption
          DEF IInv, Listing, ListsWhatFits, Room, Shown
<1> QED BY InitIInv, NextIInv, <1>1, PTL DEF Spec
=============================================================================
