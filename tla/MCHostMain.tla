----------------------------- MODULE MCHostMain -----------------------------
(* Three records and room for two in a listing: one record is named by the  *)
(* GUID, another belongs to the SID, the third to nobody on the command     *)
(* line.                                                                    *)
EXTENDS HostMain

CONSTANTS r1, r2, r3

MCRecords == {r1, r2, r3}
MCOfSid == {r2}
=============================================================================
