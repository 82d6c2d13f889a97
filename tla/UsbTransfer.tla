----------------------------- MODULE UsbTransfer -----------------------------
(***************************************************************************)
(* What a reused USB request promises its driver: a synchronous send       *)
(* carries the transfer the request was formatted for last, once if it     *)
(* succeeds, and a failed one may be sent again.                           *)
(*                                                                         *)
(* One thing is weaker than a driver expects.  A request has one place for *)
(* memory, that of the latest read or control transfer: a write carries    *)
(* what is there, which is nothing after a success.                        *)
(***************************************************************************)
CONSTANTS
  Transfers,                     \* [op, on, mem] a driver may format
  NoTransfer, NoMem

VARIABLES
  asked,                         \* the transfer the request is formatted for
  held,                          \* the memory in the request
  carried                        \* the last transfer handed to the device

vars == <<asked, held, carried>>

Init == asked = NoTransfer /\ held = NoMem /\ carried = NoTransfer

Format(t) ==
  /\ asked' = t
  /\ held' = IF t.op = "write" THEN held ELSE t.mem
  /\ UNCHANGED carried

Carry ==
  /\ asked # NoTransfer
  /\ carried' = [asked EXCEPT !.mem = held]
  /\ \/ asked' = NoTransfer /\ held' = NoMem
     \/ UNCHANGED <<asked, held>>

\* The driver turns to a new request.
Renew == asked' = NoTransfer /\ held' = NoMem /\ carried' = NoTransfer

Next == (\E t \in Transfers : Format(t)) \/ Carry \/ Renew

Spec == Init /\ [][Next]_vars
=============================================================================
