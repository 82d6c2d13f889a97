----------------------------- MODULE UsbRequest -----------------------------
(***************************************************************************)
(* The USB side of host_umdf1.h as a driver uses it: the target device and *)
(* its pipes, memory objects, and one HostRequest that is formatted, sent  *)
(* and formatted again for transfers of three kinds.                       *)
(*                                                                         *)
(* The caller of every action is the driver.  It formats a request before  *)
(* it sends it, and may send one that failed again as it is.               *)
(***************************************************************************)
EXTENDS Integers

CONSTANTS
  InPipes, OutPipes,   \* pipe objects of the sensor's endpoints
  Setups,              \* setup packets of control transfers
  Memories,            \* memory objects of the driver
  MaxSize,             \* bound on the size of a buffer
  NoMem, NoPipe, NoTransfer

Pipes == InPipes \union OutPipes
Transfers == [op : {"control"}, on : Setups, mem : Memories \union {NoMem}]
             \union [op : {"read"}, on : InPipes, mem : Memories \union {NoMem}]
             \union [op : {"write"}, on : OutPipes, mem : Memories \union {NoMem}]

\* What WinUSB has been called with, and how many bytes it said it moved.
Calls == [op : {"control", "read", "write"}, on : Setups \union Pipes,
          mem : Memories \union {NoMem}, len : 0..MaxSize, moved : 0..MaxSize]

ASSUME UsbRequestAssumption ==
  /\ MaxSize \in Nat /\ NoMem \notin Memories /\ NoPipe \notin Pipes
  /\ NoTransfer \notin Transfers \union Calls

VARIABLES
  target,              \* the USB target device: "none" or "open"
  pipes,               \* pipe objects retrieved from its interface
  size,                \* size of each memory object's buffer
  op, pipe, setup,     \* m_usbOp, m_pipeHandle with m_pipeId, m_setupPacket
  outMem, inMem,       \* memory of the request
  sent,                \* m_sent
  result,              \* HRESULT of the last call
  asked,               \* history: what the driver formatted the request for
  wire                 \* history: the last WinUsb transfer of this request

fields == <<op, pipe, setup, outMem, inMem, sent>>
requestVars == <<target, pipes, size, fields, result, asked, wire>>

Results == {"ok", "failed", "notimpl", "abort", "win32"}

(***************************************************************************)
(* Target device, pipes, memory                                            *)
(***************************************************************************)
\* CreateFile() and WinUsb_Initialize(); a failure closes what was opened.
\* A second call would open the same sensor again.
CreateUsbTargetDevice ==
  /\ target = "none"
  /\ \/ target' = "open" /\ result' = "ok"
     \/ UNCHANGED target /\ result' = "failed"
  /\ UNCHANGED <<pipes, size, fields, asked, wire>>

RetrieveUsbPipeObject(p) ==
  /\ target = "open"
  /\ \/ pipes' = pipes \union {p} /\ result' = "ok"
     \/ UNCHANGED pipes /\ result' = "notimpl"
  /\ UNCHANGED <<target, size, fields, asked, wire>>

\* Abort(), Reset() and Flush() of a pipe do not look at any request.
PipeControl(p) ==
  /\ p \in pipes
  /\ result' \in {"ok", "failed"}
  /\ UNCHANGED <<target, pipes, size, fields, asked, wire>>

PipePolicy(p) ==
  /\ p \in pipes
  /\ result' \in {"ok", "failed"}
  /\ UNCHANGED <<target, pipes, size, fields, asked, wire>>

\* HostMem::SetBuffer, on memory that a request may hold already.
SetBuffer(m, n) ==
  /\ size' = [size EXCEPT ![m] = n]
  /\ UNCHANGED <<target, pipes, fields, result, asked, wire>>

GetDataBuffer(m) == IF m = NoMem THEN 0 ELSE size[m]

(***************************************************************************)
(* The request                                                             *)
(***************************************************************************)
\* The constructor leaves m_setupPacket as the allocator finds it.
Fresh ==
  /\ op' = "control" /\ pipe' = NoPipe /\ outMem' = NoMem /\ inMem' = NoMem
  /\ sent' = 0 /\ setup' \in Setups

CreateRequest ==
  /\ Fresh
  /\ result' = "ok" /\ asked' = NoTransfer /\ wire' = NoTransfer
  /\ UNCHANGED <<target, pipes, size>>

\* A control transfer after a failed pipe transfer replaces all of it.
SetControlData_KeepsPipe(s, m) ==
  setup' = s /\ outMem' = m /\ op' = "control" /\ UNCHANGED <<pipe, inMem>>
SetControlData_KeepsOp(s, m) ==
  setup' = s /\ outMem' = m /\ UNCHANGED <<op, pipe, inMem>>
SetControlData(s, m) ==
  /\ setup' = s /\ outMem' = m
  /\ op' = "control" /\ pipe' = NoPipe
  /\ UNCHANGED inMem

FormatRequestForControlTransfer(s, m) ==
  /\ target = "open"
  /\ \/ /\ SetControlData(s, m)
        /\ result' = "ok" /\ asked' = [op |-> "control", on |-> s, mem |-> m]
     \/ result' = "abort" /\ UNCHANGED <<op, pipe, setup, outMem, inMem, asked>>
  /\ UNCHANGED <<target, pipes, size, sent, wire>>

FormatRequestForRead(p, m) ==
  /\ p \in pipes \intersect InPipes
  /\ op' = "read" /\ pipe' = p /\ outMem' = m
  /\ result' = "ok" /\ asked' = [op |-> "read", on |-> p, mem |-> m]
  /\ UNCHANGED <<target, pipes, size, setup, inMem, sent, wire>>

\* The memory goes to inMem, which Send() does not read.
FormatRequestForWrite(p, m) ==
  /\ p \in pipes \intersect OutPipes
  /\ op' = "write" /\ pipe' = p /\ inMem' = m
  /\ result' = "ok" /\ asked' = [op |-> "write", on |-> p, mem |-> m]
  /\ UNCHANGED <<target, pipes, size, setup, outMem, sent, wire>>

\* Flags other than SYNCHRONOUS are refused before anything is touched.
SendRefused ==
  /\ result' = "notimpl"
  /\ UNCHANGED <<target, pipes, size, fields, asked, wire>>

\* m_sent = 0 before the transfer
SentBefore_Kept == sent
SentBefore == 0

Endpoint == IF op = "control" THEN setup ELSE pipe

\* WinUsb_ReadPipe, WinUsb_WritePipe or WinUsb_ControlTransfer: on success or
\* failure some bytes were moved, and a failure may not say how many.
Transfer(moved, told) ==
  /\ asked # NoTransfer
  /\ moved \in 0..GetDataBuffer(outMem)
  /\ wire' = [op |-> op, on |-> Endpoint, mem |-> outMem,
              len |-> GetDataBuffer(outMem), moved |-> IF told THEN moved ELSE 0]
  /\ sent' = IF told THEN moved ELSE SentBefore

\* A failure returns GetLastError() at once and leaves the request formatted.
\* The code is a positive number, which SUCCEEDED() takes for a success.
SendFails ==
  /\ \E moved \in 0..MaxSize, told \in BOOLEAN : Transfer(moved, told)
  /\ result' = "win32"
  /\ UNCHANGED <<target, pipes, size, op, pipe, setup, outMem, inMem, asked>>

SendSucceeds ==
  /\ \E moved \in 0..MaxSize : Transfer(moved, TRUE)
  /\ op' = "control" /\ pipe' = NoPipe /\ outMem' = NoMem /\ inMem' = NoMem
  /\ result' = "ok" /\ asked' = NoTransfer
  /\ UNCHANGED <<target, pipes, size, setup>>

\* GetCompletionParams() makes a new object of what the request holds now.
CompletionParams == [status |-> "ok", type |-> "control", information |-> sent]

RequestInit ==
  /\ target = "none" /\ pipes = {} /\ size = [m \in Memories |-> 0]
  /\ op = "control" /\ pipe = NoPipe /\ outMem = NoMem /\ inMem = NoMem
  /\ sent = 0 /\ setup \in Setups
  /\ result = "ok" /\ asked = NoTransfer /\ wire = NoTransfer

RequestNext ==
  \/ CreateUsbTargetDevice \/ CreateRequest
  \/ \E p \in Pipes : RetrieveUsbPipeObject(p) \/ PipeControl(p) \/ PipePolicy(p)
  \/ \E m \in Memories, n \in 0..MaxSize : SetBuffer(m, n)
  \/ \E s \in Setups, m \in Memories \union {NoMem} : FormatRequestForControlTransfer(s, m)
  \/ \E p \in Pipes, m \in Memories \union {NoMem} :
       FormatRequestForRead(p, m) \/ FormatRequestForWrite(p, m)
  \/ SendRefused \/ SendFails \/ SendSucceeds

RequestSpec == RequestInit /\ [][RequestNext]_requestVars

(***************************************************************************)
(* Properties                                                              *)
(***************************************************************************)
\* What Send() will hand to WinUsb is consistent: a pipe exactly for a pipe
\* transfer, of its direction, and a count no buffer of the driver exceeds.
RequestTypeOK ==
  /\ target \in {"none", "open"} /\ pipes \subseteq Pipes
  /\ size \in [Memories -> 0..MaxSize] /\ sent \in 0..MaxSize
  /\ op \in {"control", "read", "write"} /\ setup \in Setups
  /\ outMem \in Memories \union {NoMem} /\ inMem \in Memories \union {NoMem}
  /\ pipe \in (CASE op = "read" -> InPipes [] op = "write" -> OutPipes
                 [] op = "control" -> {NoPipe})
  /\ result \in Results /\ asked \in Transfers \union {NoTransfer}

\* The byte count a driver reads from GetCompletionParams() is that of the
\* last transfer the device saw, whatever failed or was refused in between;
\* never that of an earlier transfer of the reused request.
CountOfLastTransfer ==
  IF wire = NoTransfer THEN CompletionParams.information = 0
                       ELSE CompletionParams.information = wire.moved

\* A reused request carries what it was formatted for last: nothing of an
\* earlier transfer survives, after a failure or a refusal either, but for
\* the memory of a write, which is what an unfinished transfer left there.
Called == IF wire = NoTransfer THEN NoTransfer
          ELSE [op |-> wire.op, on |-> wire.on, mem |-> wire.mem]
Abstract == INSTANCE UsbTransfer
              WITH Transfers <- Transfers, NoTransfer <- NoTransfer, NoMem <- NoMem,
                   asked <- asked, held <- outMem, carried <- Called
CarriesWhatWasFormatted == Abstract!Spec
=============================================================================
