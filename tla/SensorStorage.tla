--------------------------- MODULE SensorStorage ---------------------------
(***************************************************************************)
(* The deleting commands of the native driver, sensor.py: clear-db,        *)
(* clear-db-compat, clear-local-db and delete-record, over the sensor's    *)
(* storage.                                                                *)
(*                                                                         *)
(* A GUID is stored under a manager entry of its own, and deleting the     *)
(* manager is the only way to delete the GUID; the device does not tell    *)
(* which manager owns which GUID.  A manager is therefore named here by    *)
(* the GUID it owns, a name the host steps never look at: they pick        *)
(* managers and compare the lists of GUIDs the device returns.  GUIDs in   *)
(* Own are those of the current pairing; the others are foreign.           *)
(*                                                                         *)
(* A link that is not reliable loses replies in two ways.  An empty read   *)
(* or a warning alert loses that reply only.  A record that does not       *)
(* decrypt leaves server_seq behind the device's, so that every later      *)
(* reply is lost too, while the device still executes each command.        *)
(***************************************************************************)
CONSTANTS
  Guids,        \* every GUID that can be stored
  Own,          \* those of the current pairing namespace
  Orphans       \* manager entries that own no GUID

ASSUME StorageAssumption == Own \subseteq Guids /\ Orphans \cap Guids = {}

VARIABLES
  pc, cmd,      \* location, and the command given on the command line
  target,       \* GUID given to delete-record
  guids,        \* device: GUIDs stored
  orphans,      \* device: manager entries without a GUID
  link,         \* "reliable", "lossy", or "desync" after a decryption failed
  index,        \* all_guids_set: the GUIDs as of the last look
  accessible,   \* GUIDs found accessible at the start
  left,         \* remaining_accessible
  todo,         \* managers of the current list not deleted yet
  progress,     \* has this sweep deleted one of our GUIDs
  result,       \* "none", "true", "false", or "raised" for an exception
  before        \* history: GUIDs stored when the command began

device == <<guids, orphans>>
locals == <<index, accessible, left, todo, progress>>
vars == <<pc, cmd, target, device, link, locals, result, before>>

Commands == {"clear", "erase", "compat", "delete"}
Locations == {"start", "query", "classify", "sweep", "entries", "delete", "after",
              "finalise", "verify", "done"}

(***************************************************************************)
(* tls_send() as the commands see it, and the requests built on it.        *)
(***************************************************************************)
Lost == CASE link = "reliable" -> {FALSE}
          [] link = "lossy"    -> BOOLEAN
          [] link = "desync"   -> {TRUE}
Exchange(lost) == link' \in IF lost THEN {link, "desync"} ELSE {link}

\* storage_query_all(): "return []" when the reply is lost.
QueryAll(lost) == IF lost THEN {} ELSE guids

\* fetch_record() of each GUID in S; one whose reply is lost counts as foreign.
Accessible_Any(S, lost) == {S}
Accessible(S, lost) ==
  IF link = "desync" THEN {{}}
  ELSE IF lost THEN SUBSET (S \cap Own) ELSE {S \cap Own}

\* _list_entries(); _find_managers() then asks the device about each entry.
Entries(lost) == IF lost THEN {} ELSE guids \union orphans
Managers(lost) ==
  IF link = "desync" THEN {{}}
  ELSE IF lost THEN SUBSET (guids \union orphans) ELSE {guids \union orphans}

\* a301 on the device: the entry and the GUID it owns are gone.
Remove(m) == guids' = guids \ {m} /\ orphans' = orphans \ {m}

Finish(r) == pc' = "done" /\ result' = r

\* "return not remaining"
Reports_Unverified(S) == "true"
Reports(S) == IF S = {} THEN "true" ELSE "false"

(***************************************************************************)
(* clear_local_db()                                                        *)
(***************************************************************************)
ClearQuery ==
  /\ pc = "query" /\ cmd = "clear"
  /\ \E lost \in Lost : Exchange(lost) /\ index' = QueryAll(lost)
  /\ pc' = "classify"
  /\ UNCHANGED <<cmd, target, device, accessible, left, todo, progress, result, before>>

ClearClassify ==
  /\ pc = "classify" /\ cmd = "clear"
  /\ \E lost \in Lost : Exchange(lost) /\ accessible' \in Accessible(index, lost)
  /\ left' = accessible'
  /\ IF accessible' = {} THEN Finish("true") ELSE pc' = "sweep" /\ UNCHANGED result
  /\ UNCHANGED <<cmd, target, device, index, todo, progress, before>>

\* Head of the while loop and the listing of the managers.
ClearSweep ==
  /\ pc = "sweep"
  /\ IF left = {}
       THEN pc' = "verify" /\ UNCHANGED <<link, todo, progress>>
       ELSE /\ \E lost \in Lost : Exchange(lost) /\ todo' \in Managers(lost)
            /\ pc' = IF todo' = {} THEN "verify" ELSE "delete"
            /\ progress' = FALSE
  /\ UNCHANGED <<cmd, target, device, index, accessible, left, result, before>>

\* The for loop ran out of managers without progress: break.
SweepExhausted == todo = {} /\ ~progress

ClearNoProgress_Retries ==
  /\ pc = "delete" /\ cmd = "clear" /\ SweepExhausted
  /\ pc' = "sweep"
  /\ UNCHANGED <<cmd, target, device, link, locals, result, before>>

ClearNoProgress ==
  /\ pc = "delete" /\ cmd = "clear" /\ SweepExhausted
  /\ pc' = "verify"
  /\ UNCHANGED <<cmd, target, device, link, locals, result, before>>

\* A refusal, an empty entry and a lost reply are all skipped.
ClearDelete ==
  /\ pc = "delete" /\ cmd = "clear"
  /\ \E m \in todo, lost \in Lost :
       /\ Exchange(lost)
       /\ todo' = todo \ {m}
       /\ \/ Remove(m) /\ pc' = IF lost THEN "delete" ELSE "after"
          \/ UNCHANGED device /\ pc' = "delete"
  /\ UNCHANGED <<cmd, target, index, accessible, left, progress, result, before>>

\* Abort on a foreign GUID that went; restart the sweep when one of ours went.
AbortsOnForeign_Never(gone) == FALSE
AbortsOnForeign(gone) == gone \ accessible # {}

ClearAfter ==
  /\ pc = "after" /\ cmd = "clear"
  /\ \E lost \in Lost :
       LET now  == QueryAll(lost)
           gone == index \ now
       IN /\ Exchange(lost)
          /\ \/ AbortsOnForeign(gone) /\ Finish("false")
                /\ UNCHANGED <<index, left, progress>>
             \/ /\ ~AbortsOnForeign(gone) /\ gone \cap accessible # {}
                /\ left' = left \ gone /\ index' = now /\ progress' = TRUE
                /\ pc' = "sweep" /\ UNCHANGED result
             \/ /\ ~AbortsOnForeign(gone) /\ gone \cap accessible = {}
                /\ pc' = "delete"
                /\ UNCHANGED <<index, left, progress, result>>
  /\ UNCHANGED <<cmd, target, device, accessible, todo, before>>

\* Last query and classification.
ClearVerify ==
  /\ pc = "verify" /\ cmd = "clear"
  /\ \E lost1, lost2 \in Lost :
       /\ Exchange(lost1 \/ lost2)
       /\ \E still \in Accessible(QueryAll(lost1), lost2) :
            Finish(Reports(still))
  /\ UNCHANGED <<cmd, target, device, locals, before>>

(***************************************************************************)
(* erase_database() and erase_database_compat()                            *)
(***************************************************************************)
\* clear-db deletes every entry, clear-db-compat the manager entries.
EraseList ==
  /\ pc = "entries" /\ cmd \in {"erase", "compat"}
  /\ \E lost \in Lost :
       /\ Exchange(lost)
       /\ \/ cmd = "erase" /\ todo' = Entries(lost)
          \/ cmd = "compat" /\ todo' \in Managers(lost)
  /\ pc' = "delete"
  /\ UNCHANGED <<cmd, target, device, index, accessible, left, progress, result, before>>

EraseDelete ==
  /\ pc = "delete" /\ cmd \in {"erase", "compat"}
  /\ \E m \in todo, lost \in Lost :
       /\ Exchange(lost)
       /\ todo' = todo \ {m}
       /\ Remove(m) \/ UNCHANGED device
  /\ UNCHANGED <<pc, cmd, target, index, accessible, left, progress, result, before>>

EraseDone ==
  /\ pc = "delete" /\ cmd \in {"erase", "compat"} /\ todo = {}
  /\ pc' = IF cmd = "compat" THEN "finalise" ELSE "verify"
  /\ UNCHANGED <<cmd, target, device, link, locals, result, before>>

\* _finalise_storage(): three commands, the first lost reply returns False.
CompatFinalise ==
  /\ pc = "finalise"
  /\ \E lost \in Lost :
       /\ Exchange(lost)
       /\ IF lost THEN Finish("false") ELSE pc' = "verify" /\ UNCHANGED result
  /\ UNCHANGED <<cmd, target, device, locals, before>>

EraseVerify ==
  /\ pc = "verify" /\ cmd \in {"erase", "compat"}
  /\ \E lost \in Lost :
       Exchange(lost) /\ Finish(Reports(QueryAll(lost)))
  /\ UNCHANGED <<cmd, target, device, locals, before>>

(***************************************************************************)
(* delete_record_by_guid(force=True)                                       *)
(***************************************************************************)
\* Refused when the GUID is not listed or not accessible.
DeleteQuery ==
  /\ pc = "query" /\ cmd = "delete"
  /\ \E lost1, lost2 \in Lost :
       /\ Exchange(lost1 \/ lost2)
       /\ \E found \in Accessible(QueryAll(lost1) \cap {target}, lost2) :
            IF found = {} THEN Finish("false") ELSE pc' = "entries" /\ UNCHANGED result
  /\ UNCHANGED <<cmd, target, device, locals, before>>

ProbeList ==
  /\ pc = "entries" /\ cmd = "delete"
  /\ \E lost \in Lost : Exchange(lost) /\ todo' \in Managers(lost)
  /\ pc' = "delete"
  /\ UNCHANGED <<cmd, target, device, index, accessible, left, progress, result, before>>

ProbeDelete ==
  /\ pc = "delete" /\ cmd = "delete"
  /\ \E m \in todo, lost \in Lost :
       /\ Exchange(lost)
       /\ todo' = todo \ {m}
       /\ \/ Remove(m) /\ pc' = IF lost THEN "delete" ELSE "after"
          \/ UNCHANGED device /\ pc' = "delete"
  /\ UNCHANGED <<cmd, target, index, accessible, left, progress, result, before>>

\* The probe ends when the target is no longer listed.
TargetGone(S) == target \notin S

ProbeAfter ==
  /\ pc = "after" /\ cmd = "delete"
  /\ \E lost \in Lost :
       /\ Exchange(lost)
       /\ IF TargetGone(QueryAll(lost))
            THEN Finish("true") ELSE pc' = "delete" /\ UNCHANGED result
  /\ UNCHANGED <<cmd, target, device, locals, before>>

ProbeExhausted ==
  /\ pc = "delete" /\ cmd = "delete" /\ todo = {}
  /\ Finish("false")
  /\ UNCHANGED <<cmd, target, device, link, locals, before>>

(***************************************************************************)
(* main()                                                                  *)
(***************************************************************************)
\* A command of a session that has just been connected.  A run before it may
\* have left any GUIDs and orphaned entries.
Begin ==
  /\ pc = "start"
  /\ cmd' \in Commands
  /\ pc' = IF cmd' \in {"clear", "delete"} THEN "query" ELSE "entries"
  /\ UNCHANGED <<target, device, link, locals, result, before>>

\* Ctrl+C, a USB error or a fatal alert leaves the command by an exception.
Raise ==
  /\ pc \notin {"start", "done"}
  /\ Finish("raised")
  /\ UNCHANGED <<cmd, target, device, link, locals, before>>

Init ==
  /\ pc = "start" /\ cmd = "none" /\ target \in Guids
  /\ guids \in SUBSET Guids /\ orphans \in SUBSET Orphans /\ before = guids
  /\ link \in {"reliable", "lossy"} /\ index = {} /\ accessible = {} /\ left = {} /\ todo = {}
  /\ progress = FALSE /\ result = "none"

Host == ClearQuery \/ ClearClassify \/ ClearSweep \/ ClearNoProgress \/ ClearDelete
        \/ ClearAfter \/ ClearVerify \/ EraseList \/ EraseDelete \/ EraseDone
        \/ CompatFinalise \/ EraseVerify \/ DeleteQuery \/ ProbeList \/ ProbeDelete
        \/ ProbeAfter \/ ProbeExhausted

Next == Begin \/ Host \/ Raise

\* A control transfer returns or times out, so the program always goes on.
Spec == Init /\ [][Next]_vars /\ WF_vars(Host)

-----------------------------------------------------------------------------
(***************************************************************************)
(* Properties                                                              *)
(***************************************************************************)
\* Types; what the host believes accessible is its own, and what is left to
\* delete was found accessible.
TypeOK ==
  /\ pc \in Locations /\ cmd \in Commands \union {"none"} /\ target \in Guids
  /\ guids \subseteq Guids /\ before \subseteq Guids /\ orphans \subseteq Orphans
  /\ link \in {"reliable", "lossy", "desync"} /\ index \subseteq Guids
  /\ accessible \subseteq Own /\ left \subseteq accessible
  /\ todo \subseteq Guids \union Orphans /\ progress \in BOOLEAN
  /\ result \in {"none", "true", "false", "raised"}

Goal == [clear  |-> guids \cap Own = {},
         erase  |-> guids = {},
         compat |-> guids = {},
         delete |-> target \notin guids]

ForeignLost == (before \ guids) \ Own

\* With reliable replies a command that returns True has done its work, which
\* for clear-local-db is to have spared the foreign GUIDs too, and delete-record
\* returns False only if a record of ours is still there.
ReportTruthful ==
  link = "reliable" =>
    /\ result = "true" => Goal[cmd]
    /\ result = "true" /\ cmd = "clear" => ForeignLost = {}
    /\ result = "false" /\ cmd = "delete" /\ target \in before \cap Own
       => target \in guids

\* With reliable replies a command destroys nothing more once it should stop:
\* delete-record when its target has gone, whichever managers it had to probe
\* first, clear-local-db at the first foreign GUID it has destroyed.
StopsInTime ==
  [][link = "reliable"
     /\ \/ cmd = "delete" /\ target \in before \ guids
        \/ cmd = "clear" /\ ForeignLost # {}
     => UNCHANGED device]_vars

\* Every command ends, whatever the device refuses and whichever replies are
\* lost: each sweep of clear-local-db deletes one of our GUIDs or is the last.
Terminates == pc # "start" ~> pc = "done"
=============================================================================
