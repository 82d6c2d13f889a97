------------------------ MODULE SensorStorageProofs ------------------------
(***************************************************************************)
(* Theorems about SensorStorage, for any GUIDs stored, any pairing and any *)
(* orphaned managers.  What a report of success rests on is that the host  *)
(* knows the device: over a reliable link its index is the list of GUIDs   *)
(* stored, except between a deletion and the query after it.               *)
(***************************************************************************)
EXTENDS SensorStorage, TLAPS

\* Which command can be where; a result ends it.
Paths ==
  /\ pc \in {"classify", "sweep"} => cmd = "clear"
  /\ pc = "finalise" => cmd = "compat"
  /\ pc # "done" => result = "none"
  /\ pc \in {"start", "query", "classify"} => guids = before

\* clear-local-db: the index is what is stored, and nothing foreign was lost
\* up to the index; a deletion that was not looked at yet comes on top.
Indexed ==
  link = "reliable" /\ cmd = "clear" =>
    /\ pc \in {"classify", "sweep", "delete", "verify"} => index = guids
    /\ pc = "after" => guids \subseteq index
    /\ pc \in {"sweep", "delete", "after", "verify"} => before \ index \subseteq Own

\* delete-record: the probe goes on only while the target is stored.
Probing ==
  link = "reliable" /\ cmd = "delete" /\ pc \in {"entries", "delete"} => target \in guids

IInv == TypeOK /\ Paths /\ Indexed /\ Probing /\ ReportTruthful
USE StorageAssumption

(***************************************************************************)
(* Lemmas: what the host learns from one exchange                          *)
(***************************************************************************)
\* Whatever is lost, an answer shows nothing that is not there, and a link
\* does not become reliable again.
LEMMA Answers ==
  ASSUME TypeOK, NEW lost \in Lost
  PROVE  /\ lost \in BOOLEAN
         /\ QueryAll(lost) \subseteq Guids
         /\ Entries(lost) \subseteq Guids \union Orphans
         /\ \A M \in Managers(lost) : M \subseteq Guids \union Orphans
         /\ \A S : \A A \in Accessible(S, lost) : A \subseteq Own
  <1>1. lost \in BOOLEAN
    BY DEF TypeOK, Lost
  <1>2. QueryAll(lost) \subseteq Guids /\ Entries(lost) \subseteq Guids \union Orphans
    BY DEF TypeOK, QueryAll, Entries
  <1>3. \A M \in Managers(lost) : M \subseteq Guids \union Orphans
    BY DEF TypeOK, Managers
  <1>4. \A S : \A A \in Accessible(S, lost) : A \subseteq Own
    BY DEF Accessible
  <1> QED
    BY <1>1, <1>2, <1>3, <1>4

LEMMA Links ==
  ASSUME TypeOK, NEW lost \in BOOLEAN, Exchange(lost)
  PROVE  link' \in {"reliable", "lossy", "desync"} /\ (link' = "reliable" => link = "reliable")
  BY DEF TypeOK, Exchange

\* A reliable link shows what is there.
LEMMA Reliable ==
  ASSUME link = "reliable", NEW lost \in Lost
  PROVE  /\ ~lost
         /\ QueryAll(lost) = guids
         /\ \A S : Accessible(S, lost) = {S \cap Own}
  <1>1. ~lost
    BY DEF Lost
  <1> QED
    BY <1>1 DEF QueryAll, Accessible

(***************************************************************************)
(* The inductive invariant                                                 *)
(***************************************************************************)
LEMMA InitIInv == Init => IInv
  <1> SUFFICES ASSUME Init PROVE IInv
    OBVIOUS
  <1>1. TypeOK
    BY DEF Init, TypeOK, Locations
  <1>2. Paths /\ Indexed /\ Probing /\ ReportTruthful
    BY DEF Init, Paths, Indexed, Probing, ReportTruthful
  <1> QED
    BY <1>1, <1>2 DEF IInv

\* clear-local-db: the index follows the device from query to query.
LEMMA ClearKeepsIInv ==
  ASSUME IInv,
         \/ ClearQuery \/ ClearClassify \/ ClearSweep \/ ClearNoProgress \/ ClearDelete
         \/ ClearAfter \/ ClearVerify
  PROVE  IInv'
  <1>0. TypeOK /\ Paths /\ Indexed /\ Probing /\ ReportTruthful
    BY DEF IInv
  <1>1. CASE ClearQuery
    <2>1. TypeOK'
      BY <1>0, <1>1, Answers, Links DEF ClearQuery, TypeOK, Locations, Commands, device
    <2>2. Paths'
      BY <1>0, <1>1 DEF ClearQuery, Paths, device
    <2>3. Indexed'
      BY <1>0, <1>1, Answers, Links, Reliable DEF ClearQuery, Indexed, Paths, TypeOK, device
    <2>4. Probing'
      BY <1>0, <1>1, Answers, Links, Reliable DEF ClearQuery, Probing, Paths, TypeOK, device
    <2>5. ReportTruthful'
      BY <1>0, <1>1, Answers, Links, Reliable
         DEF ClearQuery, ReportTruthful, Indexed, Probing, Paths, TypeOK, Goal,
             ForeignLost, device
    <2> QED
      BY <2>1, <2>2, <2>3, <2>4, <2>5 DEF IInv
  <1>2. CASE ClearClassify
    <2>1. TypeOK'
      BY <1>0, <1>2, Answers, Links
         DEF ClearClassify, TypeOK, Locations, Commands, Finish, device
    <2>2. Paths'
      BY <1>0, <1>2 DEF ClearClassify, Paths, Finish, device
    <2>3. Indexed'
      BY <1>0, <1>2, Answers, Links, Reliable
         DEF ClearClassify, Indexed, Paths, TypeOK, Finish, device
    <2>4. Probing'
      BY <1>0, <1>2, Answers, Links, Reliable
         DEF ClearClassify, Probing, Paths, TypeOK, Finish, device
    <2>5. ReportTruthful'
      <3> SUFFICES ASSUME link' = "reliable" PROVE ReportTruthful'
        BY DEF ReportTruthful
      <3>1. /\ cmd' = "clear" /\ UNCHANGED <<guids, before>> /\ guids = before
            /\ result' = "none" \/ (result' = "true" /\ guids \cap Own = {})
        BY <1>0, <1>2, Answers, Links, Reliable
           DEF ClearClassify, Paths, Indexed, Finish, device
      <3>2. (Goal[cmd])' <=> guids' \cap Own = {}
        BY <3>1 DEF Goal
      <3>3. ForeignLost' = {}
        BY <3>1 DEF ForeignLost
      <3> QED
        BY <3>1, <3>2, <3>3 DEF ReportTruthful
    <2> QED
      BY <2>1, <2>2, <2>3, <2>4, <2>5 DEF IInv
  <1>3. CASE ClearSweep
    <2>1. TypeOK'
      BY <1>0, <1>3, Answers, Links DEF ClearSweep, TypeOK, Locations, Commands, device
    <2>2. Paths'
      BY <1>0, <1>3 DEF ClearSweep, Paths, device
    <2>3. Indexed'
      BY <1>0, <1>3, Answers, Links, Reliable DEF ClearSweep, Indexed, Paths, TypeOK, device
    <2>4. Probing'
      BY <1>0, <1>3, Answers, Links, Reliable DEF ClearSweep, Probing, Paths, TypeOK, device
    <2>5. ReportTruthful'
      BY <1>0, <1>3, Answers, Links, Reliable
         DEF ClearSweep, ReportTruthful, Indexed, Probing, Paths, TypeOK, Goal,
             ForeignLost, device
    <2> QED
      BY <2>1, <2>2, <2>3, <2>4, <2>5 DEF IInv
  <1>4. CASE ClearNoProgress
    <2>1. TypeOK'
      BY <1>0, <1>4, Answers, Links
         DEF ClearNoProgress, TypeOK, Locations, Commands, device, locals
    <2>2. Paths'
      BY <1>0, <1>4 DEF ClearNoProgress, Paths, device, locals
    <2>3. Indexed'
      BY <1>0, <1>4, Answers, Links, Reliable
         DEF ClearNoProgress, Indexed, Paths, TypeOK, SweepExhausted, device, locals
    <2>4. Probing'
      BY <1>0, <1>4, Answers, Links, Reliable
         DEF ClearNoProgress, Probing, Paths, TypeOK, device, locals
    <2>5. ReportTruthful'
      BY <1>0, <1>4, Answers, Links, Reliable
         DEF ClearNoProgress, ReportTruthful, Indexed, Probing, Paths, TypeOK, Goal,
             ForeignLost, device, locals
    <2> QED
      BY <2>1, <2>2, <2>3, <2>4, <2>5 DEF IInv
  <1>5. CASE ClearDelete
    <2>1. TypeOK'
      BY <1>0, <1>5, Answers, Links
         DEF ClearDelete, TypeOK, Locations, Commands, Remove, device
    <2>2. Paths'
      BY <1>0, <1>5 DEF ClearDelete, Paths, device
    <2>3. Indexed'
      BY <1>0, <1>5, Answers, Links, Reliable
         DEF ClearDelete, Indexed, Paths, TypeOK, Remove, device
    <2>4. Probing'
      BY <1>0, <1>5, Answers, Links, Reliable
         DEF ClearDelete, Probing, Paths, TypeOK, Remove, device
    <2>5. ReportTruthful'
      BY <1>0, <1>5, Answers, Links, Reliable
         DEF ClearDelete, ReportTruthful, Indexed, Probing, Paths, TypeOK, Goal,
             ForeignLost, device
    <2> QED
      BY <2>1, <2>2, <2>3, <2>4, <2>5 DEF IInv
  <1>6. CASE ClearAfter
    <2>1. TypeOK'
      BY <1>0, <1>6, Answers, Links
         DEF ClearAfter, TypeOK, Locations, Commands, Finish, device
    <2>2. Paths'
      BY <1>0, <1>6 DEF ClearAfter, Paths, Finish, device
    <2>3. Indexed'
      <3> SUFFICES ASSUME link' = "reliable" PROVE Indexed'
        BY DEF Indexed
      <3>1. link = "reliable" /\ pc = "after" /\ cmd = "clear" /\ UNCHANGED <<cmd, guids, before>>
        BY <1>0, <1>6, Answers, Links DEF ClearAfter, device
      <3>2. guids \subseteq index /\ before \ index \subseteq Own /\ accessible \subseteq Own
        BY <1>0, <3>1 DEF Indexed, TypeOK
      <3>3. \/ pc' = "done"
            \/ index' = guids /\ index \ guids \subseteq accessible
            \/ UNCHANGED index /\ index \ guids = {}
        BY <1>0, <1>6, <3>1, Reliable DEF ClearAfter, Finish, AbortsOnForeign
      <3>4. CASE pc' = "done"
        BY <3>4 DEF Indexed
      <3>5. CASE index' = guids /\ before \ guids \subseteq Own
        BY <3>1, <3>5 DEF Indexed
      <3> QED
        BY <3>2, <3>3, <3>4, <3>5
    <2>4. Probing'
      BY <1>0, <1>6, Answers, Links, Reliable
         DEF ClearAfter, Probing, Paths, TypeOK, Finish, device
    <2>5. ReportTruthful'
      BY <1>0, <1>6, Answers, Links, Reliable
         DEF ClearAfter, ReportTruthful, Indexed, Probing, Paths, TypeOK, Goal,
             ForeignLost, Finish, device
    <2> QED
      BY <2>1, <2>2, <2>3, <2>4, <2>5 DEF IInv
  <1>7. CASE ClearVerify
    <2>1. TypeOK'
      BY <1>0, <1>7, Answers, Links
         DEF ClearVerify, TypeOK, Locations, Commands, Finish, Reports, device, locals
    <2>2. Paths'
      BY <1>0, <1>7 DEF ClearVerify, Paths, Finish, device, locals
    <2>3. Indexed'
      BY <1>0, <1>7, Answers, Links, Reliable
         DEF ClearVerify, Indexed, Paths, TypeOK, Finish, device, locals
    <2>4. Probing'
      BY <1>0, <1>7, Answers, Links, Reliable
         DEF ClearVerify, Probing, Paths, TypeOK, Finish, device, locals
    <2>5. ReportTruthful'
      <3> SUFFICES ASSUME link' = "reliable" PROVE ReportTruthful'
        BY DEF ReportTruthful
      <3>0. PICK lost1 \in Lost, lost2 \in Lost :
              /\ Exchange(lost1 \/ lost2)
              /\ \E still \in Accessible(QueryAll(lost1), lost2) : Finish(Reports(still))
        BY <1>7 DEF ClearVerify
      <3>1. /\ pc = "verify" /\ cmd = "clear" /\ cmd' = "clear" /\ UNCHANGED <<guids, before>>
            /\ result' = Reports(guids \cap Own) /\ link = "reliable"
        <4>1. lost1 \in BOOLEAN /\ lost2 \in BOOLEAN
          BY <1>0, Answers
        <4>2. link = "reliable"
          BY <1>0, <3>0, <4>1, Links
        <4>3. Accessible(QueryAll(lost1), lost2) = {guids \cap Own}
          BY <4>2, Reliable
        <4> QED
          BY <1>7, <3>0, <4>2, <4>3 DEF ClearVerify, Finish, device
      <3>2. result' = "true" <=> guids' \cap Own = {}
        BY <3>1 DEF Reports
      <3>3. (Goal[cmd])' <=> guids' \cap Own = {}
        BY <3>1 DEF Goal
      <3>4. ForeignLost' = {}
        BY <1>0, <3>1 DEF Indexed, ForeignLost
      <3> QED
        BY <3>1, <3>2, <3>3, <3>4 DEF ReportTruthful
    <2> QED
      BY <2>1, <2>2, <2>3, <2>4, <2>5 DEF IInv
  <1> QED
    BY <1>1, <1>2, <1>3, <1>4, <1>5, <1>6, <1>7

\* clear-db and clear-db-compat.
LEMMA EraseKeepsIInv ==
  ASSUME IInv, EraseList \/ EraseDelete \/ EraseDone \/ CompatFinalise \/ EraseVerify
  PROVE  IInv'
  <1>0. TypeOK /\ Paths /\ Indexed /\ Probing /\ ReportTruthful
    BY DEF IInv
  <1>1. CASE EraseList
    <2>1. TypeOK'
      BY <1>0, <1>1, Answers, Links DEF EraseList, TypeOK, Locations, Commands, device
    <2>2. Paths'
      BY <1>0, <1>1 DEF EraseList, Paths, device
    <2>3. Indexed'
      BY <1>0, <1>1, Answers, Links, Reliable DEF EraseList, Indexed, Paths, TypeOK, device
    <2>4. Probing'
      BY <1>0, <1>1, Answers, Links, Reliable DEF EraseList, Probing, Paths, TypeOK, device
    <2>5. ReportTruthful'
      BY <1>0, <1>1, Answers, Links, Reliable
         DEF EraseList, ReportTruthful, Indexed, Probing, Paths, TypeOK, Goal, ForeignLost,
             device
    <2> QED
      BY <2>1, <2>2, <2>3, <2>4, <2>5 DEF IInv
  <1>2. CASE EraseDelete
    <2>1. TypeOK'
      BY <1>0, <1>2, Answers, Links
         DEF EraseDelete, TypeOK, Locations, Commands, Remove, device
    <2>2. Paths'
      BY <1>0, <1>2 DEF EraseDelete, Paths, device
    <2>3. Indexed'
      BY <1>0, <1>2, Answers, Links, Reliable
         DEF EraseDelete, Indexed, Paths, TypeOK, Remove, device
    <2>4. Probing'
      BY <1>0, <1>2, Answers, Links, Reliable
         DEF EraseDelete, Probing, Paths, TypeOK, Remove, device
    <2>5. ReportTruthful'
      BY <1>0, <1>2, Answers, Links, Reliable
         DEF EraseDelete, ReportTruthful, Indexed, Probing, Paths, TypeOK, Goal,
             ForeignLost, device
    <2> QED
      BY <2>1, <2>2, <2>3, <2>4, <2>5 DEF IInv
  <1>3. CASE EraseDone
    <2>1. TypeOK'
      BY <1>0, <1>3, Answers, Links
         DEF EraseDone, TypeOK, Locations, Commands, device, locals
    <2>2. Paths'
      BY <1>0, <1>3 DEF EraseDone, Paths, device, locals
    <2>3. Indexed'
      BY <1>0, <1>3, Answers, Links, Reliable
         DEF EraseDone, Indexed, Paths, TypeOK, device, locals
    <2>4. Probing'
      BY <1>0, <1>3, Answers, Links, Reliable
         DEF EraseDone, Probing, Paths, TypeOK, device, locals
    <2>5. ReportTruthful'
      BY <1>0, <1>3, Answers, Links, Reliable
         DEF EraseDone, ReportTruthful, Indexed, Probing, Paths, TypeOK, Goal, ForeignLost,
             device, locals
    <2> QED
      BY <2>1, <2>2, <2>3, <2>4, <2>5 DEF IInv
  <1>4. CASE CompatFinalise
    <2>1. TypeOK'
      BY <1>0, <1>4, Answers, Links
         DEF CompatFinalise, TypeOK, Locations, Commands, Finish, device, locals
    <2>2. Paths'
      BY <1>0, <1>4 DEF CompatFinalise, Paths, Finish, device, locals
    <2>3. Indexed'
      BY <1>0, <1>4, Answers, Links, Reliable
         DEF CompatFinalise, Indexed, Paths, TypeOK, Finish, device, locals
    <2>4. Probing'
      BY <1>0, <1>4, Answers, Links, Reliable
         DEF CompatFinalise, Probing, Paths, TypeOK, Finish, device, locals
    <2>5. ReportTruthful'
      BY <1>0, <1>4, Answers, Links, Reliable
         DEF CompatFinalise, ReportTruthful, Indexed, Probing, Paths, TypeOK, Goal,
             ForeignLost, Finish, device, locals
    <2> QED
      BY <2>1, <2>2, <2>3, <2>4, <2>5 DEF IInv
  <1>5. CASE EraseVerify
    <2>1. TypeOK'
      BY <1>0, <1>5, Answers, Links
         DEF EraseVerify, TypeOK, Locations, Commands, Finish, Reports, device, locals
    <2>2. Paths'
      BY <1>0, <1>5 DEF EraseVerify, Paths, Finish, device, locals
    <2>3. Indexed'
      BY <1>0, <1>5, Answers, Links, Reliable
         DEF EraseVerify, Indexed, Paths, TypeOK, Finish, device, locals
    <2>4. Probing'
      BY <1>0, <1>5, Answers, Links, Reliable
         DEF EraseVerify, Probing, Paths, TypeOK, Finish, device, locals
    <2>5. ReportTruthful'
      <3> SUFFICES ASSUME link' = "reliable" PROVE ReportTruthful'
        BY DEF ReportTruthful
      <3>1. result' = Reports(guids) /\ UNCHANGED <<cmd, guids>>
        BY <1>0, <1>5, Answers, Links, Reliable DEF EraseVerify, Finish, device
      <3>2. result' = "true" <=> guids' = {}
        BY <3>1 DEF Reports
      <3>3. cmd' \in {"erase", "compat"} /\ ((Goal[cmd])' <=> guids' = {})
        <4>1. cmd = "erase" \/ cmd = "compat"
          BY <1>5 DEF EraseVerify
        <4>2. CASE cmd = "erase"
          BY <3>1, <4>2 DEF Goal
        <4>3. CASE cmd = "compat"
          BY <3>1, <4>3 DEF Goal
        <4> QED
          BY <4>1, <4>2, <4>3
      <3> QED
        BY <3>2, <3>3 DEF ReportTruthful
    <2> QED
      BY <2>1, <2>2, <2>3, <2>4, <2>5 DEF IInv
  <1> QED
    BY <1>1, <1>2, <1>3, <1>4, <1>5

\* delete-record: the probe goes on only while the target is there.
LEMMA DeleteKeepsIInv ==
  ASSUME IInv, DeleteQuery \/ ProbeList \/ ProbeDelete \/ ProbeAfter \/ ProbeExhausted
  PROVE  IInv'
  <1>0. TypeOK /\ Paths /\ Indexed /\ Probing /\ ReportTruthful
    BY DEF IInv
  <1>1. CASE DeleteQuery
    <2>1. TypeOK'
      BY <1>0, <1>1, Answers, Links
         DEF DeleteQuery, TypeOK, Locations, Commands, Finish, device, locals
    <2>2. Paths'
      BY <1>0, <1>1 DEF DeleteQuery, Paths, Finish, device, locals
    <2>3. Indexed'
      BY <1>0, <1>1, Answers, Links, Reliable
         DEF DeleteQuery, Indexed, Paths, TypeOK, Finish, device, locals
    <2>4. Probing'
      BY <1>0, <1>1, Answers, Links, Reliable
         DEF DeleteQuery, Probing, Paths, TypeOK, Finish, device, locals
    <2>5. ReportTruthful'
      BY <1>0, <1>1, Answers, Links, Reliable
         DEF DeleteQuery, ReportTruthful, Indexed, Probing, Paths, TypeOK, Goal,
             ForeignLost, Finish, device, locals
    <2> QED
      BY <2>1, <2>2, <2>3, <2>4, <2>5 DEF IInv
  <1>2. CASE ProbeList
    <2>1. TypeOK'
      BY <1>0, <1>2, Answers, Links DEF ProbeList, TypeOK, Locations, Commands, device
    <2>2. Paths'
      BY <1>0, <1>2 DEF ProbeList, Paths, device
    <2>3. Indexed'
      BY <1>0, <1>2, Answers, Links, Reliable DEF ProbeList, Indexed, Paths, TypeOK, device
    <2>4. Probing'
      BY <1>0, <1>2, Answers, Links, Reliable DEF ProbeList, Probing, Paths, TypeOK, device
    <2>5. ReportTruthful'
      BY <1>0, <1>2, Answers, Links, Reliable
         DEF ProbeList, ReportTruthful, Indexed, Probing, Paths, TypeOK, Goal, ForeignLost,
             device
    <2> QED
      BY <2>1, <2>2, <2>3, <2>4, <2>5 DEF IInv
  <1>3. CASE ProbeDelete
    <2>1. TypeOK'
      BY <1>0, <1>3, Answers, Links
         DEF ProbeDelete, TypeOK, Locations, Commands, Remove, device
    <2>2. Paths'
      BY <1>0, <1>3 DEF ProbeDelete, Paths, device
    <2>3. Indexed'
      BY <1>0, <1>3, Answers, Links, Reliable
         DEF ProbeDelete, Indexed, Paths, TypeOK, Remove, device
    <2>4. Probing'
      BY <1>0, <1>3, Answers, Links, Reliable
         DEF ProbeDelete, Probing, Paths, TypeOK, Remove, device
    <2>5. ReportTruthful'
      BY <1>0, <1>3, Answers, Links, Reliable
         DEF ProbeDelete, ReportTruthful, Indexed, Probing, Paths, TypeOK, Goal,
             ForeignLost, device
    <2> QED
      BY <2>1, <2>2, <2>3, <2>4, <2>5 DEF IInv
  <1>4. CASE ProbeAfter
    <2>1. TypeOK'
      BY <1>0, <1>4, Answers, Links
         DEF ProbeAfter, TypeOK, Locations, Commands, Finish, device, locals
    <2>2. Paths'
      BY <1>0, <1>4 DEF ProbeAfter, Paths, Finish, device, locals
    <2>3. Indexed'
      BY <1>0, <1>4, Answers, Links, Reliable
         DEF ProbeAfter, Indexed, Paths, TypeOK, Finish, device, locals
    <2>4. Probing'
      BY <1>0, <1>4, Answers, Links, Reliable
         DEF ProbeAfter, Probing, Paths, TypeOK, Finish, TargetGone, device, locals
    <2>5. ReportTruthful'
      <3> SUFFICES ASSUME link' = "reliable" PROVE ReportTruthful'
        BY DEF ReportTruthful
      <3>1. /\ cmd' = "delete" /\ UNCHANGED <<guids, target>>
            /\ result' = "none" \/ (result' = "true" /\ target \notin guids)
        BY <1>0, <1>4, Answers, Links, Reliable
           DEF ProbeAfter, Paths, Finish, TargetGone, device
      <3>2. (Goal[cmd])' <=> target' \notin guids'
        BY <3>1 DEF Goal
      <3> QED
        BY <3>1, <3>2 DEF ReportTruthful
    <2> QED
      BY <2>1, <2>2, <2>3, <2>4, <2>5 DEF IInv
  <1>5. CASE ProbeExhausted
    <2>1. TypeOK'
      BY <1>0, <1>5, Answers, Links
         DEF ProbeExhausted, TypeOK, Locations, Commands, Finish, device, locals
    <2>2. Paths'
      BY <1>0, <1>5 DEF ProbeExhausted, Paths, Finish, device, locals
    <2>3. Indexed'
      BY <1>0, <1>5, Answers, Links, Reliable
         DEF ProbeExhausted, Indexed, Paths, TypeOK, Finish, device, locals
    <2>4. Probing'
      BY <1>0, <1>5, Answers, Links, Reliable
         DEF ProbeExhausted, Probing, Paths, TypeOK, Finish, device, locals
    <2>5. ReportTruthful'
      BY <1>0, <1>5, Answers, Links, Reliable
         DEF ProbeExhausted, ReportTruthful, Indexed, Probing, Paths, TypeOK, Goal,
             ForeignLost, Finish, device, locals
    <2> QED
      BY <2>1, <2>2, <2>3, <2>4, <2>5 DEF IInv
  <1> QED
    BY <1>1, <1>2, <1>3, <1>4, <1>5

\* The start of a command, and an exception.
LEMMA MainKeepsIInv ==
  ASSUME IInv, Begin \/ Raise
  PROVE  IInv'
  <1>0. TypeOK /\ Paths /\ Indexed /\ Probing /\ ReportTruthful
    BY DEF IInv
  <1>1. CASE Begin
    <2>1. TypeOK'
      BY <1>0, <1>1, Answers, Links DEF Begin, TypeOK, Locations, Commands, device, locals
    <2>2. Paths'
      BY <1>0, <1>1 DEF Begin, Paths, Commands, device, locals
    <2>3. Indexed'
      BY <1>0, <1>1, Answers, Links, Reliable
         DEF Begin, Indexed, Paths, TypeOK, device, locals
    <2>4. Probing'
      BY <1>0, <1>1, Answers, Links, Reliable
         DEF Begin, Probing, Paths, TypeOK, device, locals
    <2>5. ReportTruthful'
      BY <1>0, <1>1, Answers, Links, Reliable
         DEF Begin, ReportTruthful, Indexed, Probing, Paths, TypeOK, Goal, ForeignLost,
             device, locals
    <2> QED
      BY <2>1, <2>2, <2>3, <2>4, <2>5 DEF IInv
  <1>2. CASE Raise
    <2>1. TypeOK'
      BY <1>0, <1>2, Answers, Links
         DEF Raise, TypeOK, Locations, Commands, Finish, device, locals
    <2>2. Paths'
      BY <1>0, <1>2 DEF Raise, Paths, Finish, device, locals
    <2>3. Indexed'
      BY <1>0, <1>2, Answers, Links, Reliable
         DEF Raise, Indexed, Paths, TypeOK, Finish, device, locals
    <2>4. Probing'
      BY <1>0, <1>2, Answers, Links, Reliable
         DEF Raise, Probing, Paths, TypeOK, Finish, device, locals
    <2>5. ReportTruthful'
      BY <1>0, <1>2, Answers, Links, Reliable
         DEF Raise, ReportTruthful, Indexed, Probing, Paths, TypeOK, Goal, ForeignLost,
             Finish, device, locals
    <2> QED
      BY <2>1, <2>2, <2>3, <2>4, <2>5 DEF IInv
  <1> QED
    BY <1>1, <1>2

LEMMA NextIInv == IInv /\ [Next]_vars => IInv'
  <1> SUFFICES ASSUME IInv, [Next]_vars PROVE IInv'
    OBVIOUS
  <1>1. CASE Next
    BY <1>1, ClearKeepsIInv, EraseKeepsIInv, DeleteKeepsIInv, MainKeepsIInv DEF Next, Host
  <1>2. CASE UNCHANGED vars
    BY <1>2 DEF vars, device, locals, IInv, TypeOK, Paths, Indexed, Probing, ReportTruthful,
                Goal, ForeignLost
  <1> QED
    BY <1>1, <1>2

LEMMA Invariant == Spec => []IInv
  BY InitIInv, NextIInv, PTL DEF Spec

\* No step destroys anything once the command should have stopped.
LEMMA NextStops ==
  ASSUME IInv, [Next]_vars, link = "reliable",
         \/ cmd = "delete" /\ target \in before \ guids
         \/ cmd = "clear" /\ ForeignLost # {}
  PROVE  UNCHANGED device
  <1>1. ~ClearDelete
    BY DEF ClearDelete, IInv, Indexed, ForeignLost
  <1>2. ~ProbeDelete
    BY DEF ProbeDelete, IInv, Probing
  <1>3. ~EraseDelete
    BY DEF EraseDelete
  <1> QED
    BY <1>1, <1>2, <1>3
       DEF Next, Host, vars, device, Begin, Raise, ClearQuery, ClearClassify, ClearSweep,
           ClearNoProgress, ClearAfter, ClearVerify, EraseList, EraseDone,
           CompatFinalise, EraseVerify, DeleteQuery, ProbeList, ProbeAfter, ProbeExhausted

(***************************************************************************)
(* Theorems                                                                *)
(***************************************************************************)
\* Whatever is lost, what the host believes its own is its own.
THEOREM TypeCorrect == Spec => []TypeOK
  <1>1. IInv => TypeOK
    BY DEF IInv
  <1> QED
    BY Invariant, <1>1, PTL

\* A command over a reliable link reports what it has done to the records.
THEOREM ReportCorrect == Spec => []ReportTruthful
  <1>1. IInv => ReportTruthful
    BY DEF IInv
  <1> QED
    BY Invariant, <1>1, PTL

\* Over a reliable link delete-record destroys nothing after its target, and
\* clear-local-db nothing after the first foreign GUID.
THEOREM DestructionStops == Spec => StopsInTime
  <1>1. IInv /\ [Next]_vars =>
          [link = "reliable"
           /\ \/ cmd = "delete" /\ target \in before \ guids
              \/ cmd = "clear" /\ ForeignLost # {}
           => UNCHANGED device]_vars
    BY NextStops
  <1> QED
    BY Invariant, <1>1, PTL DEF Spec, StopsInTime
=============================================================================
