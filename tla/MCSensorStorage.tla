-------------------------- MODULE MCSensorStorage --------------------------
(* Two GUIDs of our own, two foreign ones and one manager without a GUID.  *)
EXTENDS SensorStorage

CONSTANTS own1, own2, foreign1, foreign2, orphan1

MCOwn == {own1, own2}
MCGuids == MCOwn \union {foreign1, foreign2}
MCOrphans == {orphan1}
=============================================================================
