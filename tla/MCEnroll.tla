------------------------------ MODULE MCEnroll ------------------------------
(* Two fingers, three samples and three runs: a finger can be enrolled,     *)
(* refused as a duplicate and enrolled again after a failed check.          *)
EXTENDS Enroll

CONSTANTS f1, f2

MCFingers == {f1, f2}
=============================================================================
