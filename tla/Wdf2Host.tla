------------------------------ MODULE Wdf2Host ------------------------------
(***************************************************************************)
(* host_umdf2.h: the function table a UMDF 2 driver is bound to.  The      *)
(* driver calls it from its callbacks and from threads of its own; the     *)
(* host adds the threads of the continuous reader.                         *)
(*                                                                         *)
(* All functions report success, whatever they found: a driver does not    *)
(* learn that the sensor could not be opened or that no reader started.    *)
(***************************************************************************)
EXTENDS FiniteSets, Integers, Sequences

CONSTANTS
  Threads,     \* reader threads: a bound on the starts
  MaxPackets,  \* packets the sensor sends on the bulk-in endpoint
  MaxErrors    \* reads that fail

ASSUME Wdf2HostAssumption == MaxPackets \in Nat /\ MaxErrors \in Nat

VARIABLES
  stage,       \* start-up: "bind", "driver", "device" or "ready"
  queue,       \* callback of g_wdf2Queue: "none", "null" or "ioctl"
  handle,      \* g_wdf2WinusbHandle is open
  bulkIn,      \* the bulk-in pipe as the driver knows it: "none", "device",
               \* "interface" or "pipe"
  callback,    \* g_wdf2ContReadCb is set
  thread,      \* each reader thread: "none", "read" or "deliver"
  buffer,      \* the packet in each thread's buffer, 0 before the first
  inbound,     \* packets waiting at the endpoint
  sent,        \* packets sent by the sensor so far, numbered from 1
  errors,      \* reads that failed so far
  delivered,   \* packets given to the reader callback
  taken,       \* packets given to a synchronous read
  starts       \* history: times the driver started a reader

setup == <<stage, queue, handle, bulkIn, callback>>
pipe == <<thread, buffer, inbound, sent, errors, delivered, taken, starts>>
hostVars == <<setup, pipe>>

Packets == 1..MaxPackets

(***************************************************************************)
(* Binding and objects                                                     *)
(***************************************************************************)
\* The driver's function pointer is set to the table.
VersionBind ==
  /\ stage = "bind" /\ stage' = "driver"
  /\ UNCHANGED <<queue, handle, bulkIn, callback, pipe>>

WdfDriverCreate ==
  /\ stage = "driver" /\ stage' = "device"
  /\ UNCHANGED <<queue, handle, bulkIn, callback, pipe>>

WdfDeviceCreate ==
  /\ stage = "device" /\ stage' = "ready"
  /\ UNCHANGED <<queue, handle, bulkIn, callback, pipe>>

\* The first queue is the one requests go to, with or without a callback.
WdfIoQueueCreate(cb) ==
  /\ stage = "ready"
  /\ queue' = IF queue = "none" THEN cb ELSE queue
  /\ UNCHANGED <<stage, handle, bulkIn, callback, pipe>>

\* wdf2_open_winusb_device(): nothing if open already, and after a failure
\* the next call tries again.
OpenDevice == \/ handle' = TRUE
              \/ handle' = handle

\* The two pipes are there whether or not the device could be opened.
WdfUsbTargetDeviceCreate ==
  /\ stage = "ready"
  /\ OpenDevice
  /\ bulkIn' = IF bulkIn = "none" THEN "device" ELSE bulkIn
  /\ UNCHANGED <<stage, queue, callback, pipe>>

\* WdfUsbTargetDeviceSelectConfig() and WdfUsbTargetDeviceGetInterface() give
\* the one interface, WdfUsbInterfaceGetConfiguredPipe() its pipe 0.
GetInterface ==
  /\ bulkIn = "device" /\ bulkIn' = "interface"
  /\ UNCHANGED <<stage, queue, handle, callback, pipe>>

GetConfiguredPipe ==
  /\ bulkIn = "interface" /\ bulkIn' = "pipe"
  /\ UNCHANGED <<stage, queue, handle, callback, pipe>>

(***************************************************************************)
(* The continuous reader                                                   *)
(***************************************************************************)
\* wdf2_start_cont_reader(): CreateThread(), whether or not one is running.
Idle == {r \in Threads : thread[r] = "none"}
StartReader == \E r \in Idle : thread' = [thread EXCEPT ![r] = "read"]

\* Sets the callback, of which a driver always has one, and its context.  The
\* reader waits for the start.
WdfUsbTargetPipeConfigContinuousReader_Starts ==
  /\ bulkIn = "pipe" /\ callback' = TRUE
  /\ IF handle /\ Idle # {} THEN StartReader ELSE UNCHANGED thread
  /\ UNCHANGED <<stage, queue, handle, bulkIn, buffer, inbound, sent, errors, delivered, taken, starts>>
WdfUsbTargetPipeConfigContinuousReader ==
  /\ bulkIn = "pipe" /\ callback' = TRUE
  /\ UNCHANGED <<stage, queue, handle, bulkIn, pipe>>

\* wdf2_maybe_start_cont_reader(): without a callback, without the sensor or
\* for another target, the dummy of WdfIoTargetCreate() included, nothing
\* happens.  WdfIoTargetStop() is empty: a start after a stop adds a reader.
WdfIoTargetStart ==
  /\ callback /\ handle /\ bulkIn = "pipe"
  /\ StartReader
  /\ starts' = starts + 1
  /\ UNCHANGED <<setup, buffer, inbound, sent, errors, delivered, taken>>

\* One turn of wdf2_cont_reader_thread(): WinUsb_ReadPipe() gets a packet ...
ReadOk(r) ==
  /\ thread[r] = "read" /\ inbound # <<>>
  /\ thread' = [thread EXCEPT ![r] = "deliver"]
  /\ buffer' = [buffer EXCEPT ![r] = Head(inbound)]
  /\ inbound' = Tail(inbound)
  /\ UNCHANGED <<setup, sent, errors, delivered, taken, starts>>

\* ... or fails, and the turn ends with Sleep(200) and the old buffer.
ReadFails_Exits(r) ==
  /\ thread[r] = "read" /\ errors < MaxErrors
  /\ errors' = errors + 1
  /\ thread' = [thread EXCEPT ![r] = "none"]
  /\ UNCHANGED <<setup, buffer, inbound, sent, delivered, taken, starts>>
ReadFails(r) ==
  /\ thread[r] = "read" /\ errors < MaxErrors
  /\ errors' = errors + 1
  /\ UNCHANGED <<setup, thread, buffer, inbound, sent, delivered, taken, starts>>

\* The callback gets a copy of the packet.
Deliver(r) ==
  /\ thread[r] = "deliver"
  /\ delivered' = Append(delivered, buffer[r])
  /\ thread' = [thread EXCEPT ![r] = "read"]
  /\ UNCHANGED <<setup, buffer, inbound, sent, errors, taken, starts>>

Reader(r) == ReadOk(r) \/ ReadFails(r) \/ Deliver(r)

(***************************************************************************)
(* Synchronous transfers and the sensor                                    *)
(***************************************************************************)
\* A synchronous read is one of endpoint 0x83, which the continuous reader
\* reads too.  Without a handle, with a bad descriptor or after an error there
\* is a status and nothing else.
TakePacket ==
  /\ handle /\ inbound # <<>>
  /\ taken' = Append(taken, Head(inbound)) /\ inbound' = Tail(inbound)
  /\ UNCHANGED <<setup, thread, buffer, sent, errors, delivered, starts>>

WdfIoTargetSendReadSynchronously == stage = "ready" /\ TakePacket
WdfUsbTargetPipeReadSynchronously == bulkIn = "pipe" /\ TakePacket

\* The sensor answers what is written to endpoint 0x01.
SensorAnswers ==
  /\ handle /\ sent < MaxPackets
  /\ sent' = sent + 1 /\ inbound' = Append(inbound, sent + 1)
  /\ UNCHANGED <<setup, thread, buffer, errors, delivered, taken, starts>>

WdfIoTargetSendWriteSynchronously == stage = "ready" /\ SensorAnswers
WdfUsbTargetPipeWriteSynchronously == bulkIn = "pipe" /\ SensorAnswers

HostInit ==
  /\ stage = "bind" /\ queue = "none" /\ handle = FALSE
  /\ bulkIn = "none" /\ callback = FALSE
  /\ thread = [r \in Threads |-> "none"] /\ buffer = [r \in Threads |-> 0]
  /\ inbound = <<>> /\ sent = 0 /\ errors = 0
  /\ delivered = <<>> /\ taken = <<>> /\ starts = 0

Framework ==
  \/ VersionBind \/ WdfDriverCreate \/ WdfDeviceCreate
  \/ \E cb \in {"null", "ioctl"} : WdfIoQueueCreate(cb)
  \/ WdfUsbTargetDeviceCreate \/ GetInterface \/ GetConfiguredPipe
  \/ WdfUsbTargetPipeConfigContinuousReader \/ WdfIoTargetStart
  \/ WdfIoTargetSendReadSynchronously \/ WdfUsbTargetPipeReadSynchronously
  \/ WdfIoTargetSendWriteSynchronously \/ WdfUsbTargetPipeWriteSynchronously
  \/ \E r \in Threads : Reader(r)

(***************************************************************************)
(* Properties of the reader                                                *)
(***************************************************************************)
Running == \E r \in Threads : thread[r] # "none"
Ascending(s) == \A i, j \in DOMAIN s : i < j => s[i] < s[j]

\* A packet of the sensor goes to the reader callback or to one synchronous
\* read, once, and is never dropped by a failing read.  The callback sees the
\* packets in order as long as the driver started its reader once.
PacketsOnceInOrder ==
  /\ \A p \in 1..sent :
       LET held == {r \in Threads : thread[r] = "deliver" /\ buffer[r] = p}
           at(s) == {i \in DOMAIN s : s[i] = p}
       IN  Cardinality(held) + Cardinality(at(inbound)) + Cardinality(at(delivered))
             + Cardinality(at(taken)) = 1
  /\ starts <= 1 => Ascending(delivered)
=============================================================================
