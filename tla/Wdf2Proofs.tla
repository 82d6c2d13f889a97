----------------------------- MODULE Wdf2Proofs -----------------------------
(***************************************************************************)
(* Theorems about Wdf2Host and Wdf2Commands, for any number of reader      *)
(* threads, packets, failing reads and samples.  The packets at the        *)
(* endpoint are the last ones sent, in order; every packet before them is  *)
(* in one place, and that is what each step of a thread moves.             *)
(***************************************************************************)
EXTENDS Wdf2Commands, FiniteSetTheorems, TLAPS

(***************************************************************************)
(* Where a packet is                                                       *)
(***************************************************************************)
Held(p) == {r \in Threads : thread[r] = "deliver" /\ buffer[r] = p}
At(s, p) == {i \in DOMAIN s : s[i] = p}

\* Packets that were read from the endpoint, by whomever.
Got == sent - Len(inbound)

Nowhere(p) == Held(p) = {} /\ At(delivered, p) = {} /\ At(taken, p) = {}
InOnePlace(p) ==
  \/ (\E r : Held(p) = {r}) /\ At(delivered, p) = {} /\ At(taken, p) = {}
  \/ (\E i : At(delivered, p) = {i}) /\ Held(p) = {} /\ At(taken, p) = {}
  \/ (\E i : At(taken, p) = {i}) /\ Held(p) = {} /\ At(delivered, p) = {}

HostTypes ==
  /\ stage \in {"bind", "driver", "device", "ready"} /\ queue \in {"none", "null", "ioctl"}
  /\ bulkIn \in {"none", "device", "interface", "pipe"}
  /\ thread \in [Threads -> {"none", "read", "deliver"}] /\ buffer \in [Threads -> Nat]
  /\ inbound \in Seq(Nat) /\ delivered \in Seq(Nat) /\ taken \in Seq(Nat)
  /\ sent \in Nat /\ starts \in Nat
  /\ Running => callback /\ handle /\ bulkIn = "pipe"

Queue == Got \in Nat /\ \A i \in DOMAIN inbound : inbound[i] = Got + i

Once == \A p \in Nat : IF p \in 1..Got THEN InOnePlace(p) ELSE Nowhere(p)

\* A driver that started its reader once has one thread, and what that thread
\* holds was read after all it has delivered.
Alone == starts = 0 => ~Running
Ordered ==
  starts <= 1 =>
    /\ \A r, q \in Threads : thread[r] # "none" /\ thread[q] # "none" => r = q
    /\ Ascending(delivered)
    /\ \A r \in Threads : thread[r] = "deliver" =>
         \A i \in DOMAIN delivered : delivered[i] < buffer[r]

HostInv == HostTypes /\ Queue /\ Once /\ Alone /\ Ordered

(***************************************************************************)
(* How far a command is                                                    *)
(***************************************************************************)
CommandTypes ==
  /\ pc \in {"start"} \union Requests \union Over /\ t \in 0..MaxTries
  /\ pc \in {"capture", "update"} => t < MaxTries
  /\ pending \subseteq Requests /\ code \in {-1, 0, 1}
  /\ answer \in {"none", "ok", "one", "failed", "pended"}

\* No record before the commit; only identify matches, and the samples are
\* counted from 0.
Progress ==
  /\ pc \notin Over => stored = FALSE
  /\ pc \in {"templates", "match"} => cmd = "identify"
  /\ pc \in {"start", "led", "create"} => t = 0

CommandInv == CommandTypes /\ Progress /\ ExitCodeOfEnroll

IInv == HostInv /\ CommandInv
USE Wdf2HostAssumption, Wdf2CommandsAssumption

(***************************************************************************)
(* Lemmas                                                                  *)
(***************************************************************************)
LEMMA AtAppend ==
  ASSUME NEW s \in Seq(Nat), NEW e \in Nat, NEW p \in Nat
  PROVE  /\ e = p => At(Append(s, e), p) = At(s, p) \union {Len(s) + 1}
         /\ e # p => At(Append(s, e), p) = At(s, p)
  BY DEF At

\* The head of the queue is the first packet nobody has read.
LEMMA HeadIsNext ==
  ASSUME HostTypes, Queue, inbound # <<>>
  PROVE  /\ Head(inbound) = Got + 1 /\ Got + 1 \in Nat /\ Tail(inbound) \in Seq(Nat)
         /\ Len(Tail(inbound)) = Len(inbound) - 1
         /\ \A i \in DOMAIN Tail(inbound) : Tail(inbound)[i] = Got + 1 + i
         /\ Nowhere(Got + 1) \/ ~Once
  <1>1. inbound \in Seq(Nat) /\ Got \in Nat /\ \A i \in DOMAIN inbound : inbound[i] = Got + i
    BY DEF HostTypes, Queue
  <1>2. Len(inbound) \in Nat /\ Len(inbound) > 0 /\ DOMAIN inbound = 1..Len(inbound)
    BY <1>1
  <1>3. Head(inbound) = inbound[1] /\ inbound[1] = Got + 1
    BY <1>1, <1>2
  <1>4. /\ Tail(inbound) \in Seq(Nat) /\ Len(Tail(inbound)) = Len(inbound) - 1
        /\ \A i \in 1..(Len(inbound) - 1) : Tail(inbound)[i] = inbound[i + 1]
    BY <1>1, <1>2
  <1>5. \A i \in DOMAIN Tail(inbound) : Tail(inbound)[i] = Got + 1 + i
    <2> SUFFICES ASSUME NEW i \in DOMAIN Tail(inbound) PROVE Tail(inbound)[i] = Got + 1 + i
      OBVIOUS
    <2>1. i \in 1..(Len(inbound) - 1) /\ i + 1 \in DOMAIN inbound
      BY <1>2, <1>4
    <2>2. inbound[i + 1] = Got + (i + 1)
      BY <1>1, <2>1
    <2> QED
      BY <1>1, <1>4, <2>1, <2>2
  <1>6. Nowhere(Got + 1) \/ ~Once
    BY <1>1 DEF Once
  <1> QED
    BY <1>1, <1>3, <1>4, <1>5, <1>6

\* A step that moves no packet leaves each one where it was.
LEMMA SamePlaces ==
  ASSUME Once, Got' = Got, UNCHANGED <<delivered, taken>>, \A p \in Nat : Held(p)' = Held(p)
  PROVE  Once'
  <1>1. ASSUME NEW p \in Nat
        PROVE  (InOnePlace(p)' <=> InOnePlace(p)) /\ (Nowhere(p)' <=> Nowhere(p))
    <2>1. /\ Held(p)' = Held(p) /\ At(delivered, p)' = At(delivered, p)
          /\ At(taken, p)' = At(taken, p)
      BY DEF At
    <2> QED
      BY <2>1, Zenon DEF InOnePlace, Nowhere
  <1> QED
    BY <1>1 DEF Once

\* What is delivered or taken has been read.
LEMMA ReadBefore ==
  ASSUME HostTypes, Queue, Once
  PROVE  /\ \A i \in DOMAIN delivered : delivered[i] \in 1..Got
         /\ \A r \in Threads : thread[r] = "deliver" =>
              /\ buffer[r] \in 1..Got /\ Held(buffer[r]) = {r}
              /\ At(delivered, buffer[r]) = {} /\ At(taken, buffer[r]) = {}
  <1>1. \A i \in DOMAIN delivered : delivered[i] \in Nat /\ i \in At(delivered, delivered[i])
    BY DEF HostTypes, At
  <1>2. \A r \in Threads : thread[r] = "deliver" => buffer[r] \in Nat /\ r \in Held(buffer[r])
    BY DEF HostTypes, Held
  <1>3. \A p \in Nat : ~Nowhere(p) => p \in 1..Got /\ InOnePlace(p)
    BY DEF Once
  <1>4. \A p \in Nat : InOnePlace(p) /\ Held(p) # {} =>
          (\E r : Held(p) = {r}) /\ At(delivered, p) = {} /\ At(taken, p) = {}
    BY DEF InOnePlace
  <1>5. \A i \in DOMAIN delivered : delivered[i] \in 1..Got
    BY <1>1, <1>3 DEF Nowhere
  <1>6. ASSUME NEW r \in Threads, thread[r] = "deliver"
        PROVE  /\ buffer[r] \in 1..Got /\ Held(buffer[r]) = {r}
               /\ At(delivered, buffer[r]) = {} /\ At(taken, buffer[r]) = {}
    BY <1>2, <1>3, <1>4, <1>6 DEF Nowhere
  <1> QED
    BY <1>5, <1>6

(***************************************************************************)
(* The function table                                                      *)
(***************************************************************************)
LEMMA InitHostInv == HostInit => HostInv
  <1> SUFFICES ASSUME HostInit PROVE HostInv
    OBVIOUS
  <1>1. HostTypes /\ ~Running
    BY DEF HostInit, HostTypes, Running
  <1>2. Got = 0 /\ Queue
    <2>1. Len(inbound) = 0 /\ sent = 0 /\ DOMAIN inbound = {}
      BY DEF HostInit
    <2> QED
      BY <2>1 DEF Got, Queue
  <1>3. Once
    BY <1>2 DEF HostInit, Once, Nowhere, Held, At
  <1>4. Alone /\ Ordered
    BY <1>1 DEF HostInit, Alone, Ordered, Running, Ascending
  <1> QED
    BY <1>1, <1>2, <1>3, <1>4 DEF HostInv

\* Binding, the objects of the driver and a failing read leave the packets alone.
LEMMA SetupKeepsHostInv ==
  ASSUME HostInv, UNCHANGED <<thread, buffer, inbound, sent, delivered, taken, starts>>,
         stage' \in {"bind", "driver", "device", "ready"}, queue' \in {"none", "null", "ioctl"},
         bulkIn' \in {"none", "device", "interface", "pipe"},
         bulkIn = "pipe" => bulkIn' = "pipe", callback => callback', handle => handle'
  PROVE  HostInv'
  <1>1. HostTypes'
    BY DEF HostInv, HostTypes, Running
  <1>2. Got' = Got
    BY DEF Got
  <1>3. Queue'
    BY <1>2 DEF HostInv, Queue
  <1>4. \A p \in Nat : Held(p)' = Held(p)
    BY DEF Held
  <1>5. Once'
    BY <1>2, <1>4, SamePlaces DEF HostInv
  <1>6. Alone' /\ Ordered'
    BY DEF HostInv, Alone, Ordered, Running, Ascending
  <1> QED
    BY <1>1, <1>3, <1>5, <1>6 DEF HostInv

\* A driver starts its reader, once more or for the first time.
LEMMA StartKeepsHostInv == HostInv /\ WdfIoTargetStart => HostInv'
  <1> SUFFICES ASSUME HostInv, WdfIoTargetStart PROVE HostInv'
    OBVIOUS
  <1>1. PICK r \in Threads : thread[r] = "none" /\ thread' = [thread EXCEPT ![r] = "read"]
    BY DEF WdfIoTargetStart, StartReader, Idle
  <1>2. /\ callback /\ handle /\ bulkIn = "pipe" /\ starts' = starts + 1
        /\ UNCHANGED <<setup, buffer, inbound, sent, errors, delivered, taken>>
    BY DEF WdfIoTargetStart
  <1>3. HostTypes' /\ \A q \in Threads : thread'[q] = IF q = r THEN "read" ELSE thread[q]
    BY <1>1, <1>2 DEF HostInv, HostTypes, setup
  <1>4. Queue'
    BY <1>2 DEF HostInv, Queue, Got
  <1>5. Got' = Got /\ \A p \in Nat : Held(p)' = Held(p)
    BY <1>1, <1>2, <1>3 DEF Held, Got
  <1>6. Once'
    BY <1>2, <1>5, SamePlaces DEF HostInv
  <1>7. Alone'
    BY <1>2 DEF HostInv, HostTypes, Alone
  <1>8. Ordered'
    BY <1>1, <1>2, <1>3 DEF HostInv, HostTypes, Alone, Ordered, Running, Ascending
  <1> QED
    BY <1>3, <1>4, <1>6, <1>7, <1>8 DEF HostInv

\* A thread gets the first packet of the queue, later than any it delivered.
LEMMA ReadKeepsHostInv == ASSUME HostInv, NEW r \in Threads, ReadOk(r) PROVE HostInv'
  <1>0. PICK e \in Nat : e = Got + 1
    BY DEF HostInv, Queue
  <1>1. HostTypes /\ Queue /\ Once /\ Alone /\ Ordered
    BY DEF HostInv
  <1>2. /\ thread[r] = "read" /\ inbound # <<>>
        /\ thread' = [thread EXCEPT ![r] = "deliver"]
        /\ buffer' = [buffer EXCEPT ![r] = Head(inbound)] /\ inbound' = Tail(inbound)
        /\ UNCHANGED <<setup, sent, errors, delivered, taken, starts>>
    BY DEF ReadOk
  <1>3. /\ Head(inbound) = e /\ Got \in Nat /\ inbound' \in Seq(Nat)
        /\ Got' = e /\ \A i \in DOMAIN inbound' : inbound'[i] = e + i
        /\ Nowhere(e)
    <2>1. Got' = Got + 1
      BY <1>1, <1>2, HeadIsNext DEF Got, HostTypes
    <2> QED
      BY <1>0, <1>1, <1>2, <2>1, HeadIsNext DEF Queue
  <1>4. \A q \in Threads : /\ thread'[q] = IF q = r THEN "deliver" ELSE thread[q]
                           /\ buffer'[q] = IF q = r THEN e ELSE buffer[q]
    BY <1>1, <1>2, <1>3 DEF HostTypes
  <1>5. HostTypes'
    BY <1>1, <1>2, <1>3 DEF HostTypes, Running, setup
  <1>6. Queue'
    BY <1>3 DEF Queue
  <1>7. Once'
    <2>1. Held(e) = {} /\ Held(e)' = {r} /\ At(delivered, e)' = {} /\ At(taken, e)' = {}
      BY <1>2, <1>3, <1>4 DEF Held, At, Nowhere
    <2>2. \A p \in Nat \ {e} : Held(p)' = Held(p)
      BY <1>2, <1>4 DEF Held
    <2>3. \A p \in Nat \ {e} : (InOnePlace(p)' <=> InOnePlace(p)) /\ (Nowhere(p)' <=> Nowhere(p))
      BY <1>2, <2>2 DEF InOnePlace, Nowhere, At
    <2>4. InOnePlace(e)'
      BY <2>1 DEF InOnePlace
    <2>5. e \in 1..Got'
      BY <1>0, <1>3
    <2> QED
      <3> SUFFICES ASSUME NEW p \in Nat
                   PROVE  IF p \in 1..Got' THEN InOnePlace(p)' ELSE Nowhere(p)'
        BY DEF Once
      <3>1. CASE p = e
        BY <2>4, <2>5, <3>1
      <3>2. CASE p # e
        <4>1. p \in 1..Got' <=> p \in 1..Got
          BY <1>0, <1>3, <3>2
        <4>2. IF p \in 1..Got THEN InOnePlace(p) ELSE Nowhere(p)
          BY <1>1 DEF Once
        <4> QED
          BY <2>3, <3>2, <4>1, <4>2, Zenon
      <3> QED
        BY <3>1, <3>2
  <1>8. Alone'
    BY <1>1, <1>2 DEF Alone, Running
  <1>9. Ordered'
    <2>1. \A i \in DOMAIN delivered : delivered[i] < e
      BY <1>0, <1>1, <1>3, ReadBefore
    <2>2. \A q \in Threads : thread'[q] # "none" <=> thread[q] # "none"
      BY <1>2, <1>4
    <2> QED
      BY <1>1, <1>2, <1>4, <2>1, <2>2 DEF Ordered, Ascending
  <1> QED
    BY <1>5, <1>6, <1>7, <1>8, <1>9 DEF HostInv

\* The callback gets what the thread holds.
LEMMA DeliverKeepsHostInv == ASSUME HostInv, NEW r \in Threads, Deliver(r) PROVE HostInv'
  <1>1. HostTypes /\ Queue /\ Once /\ Alone /\ Ordered
    BY DEF HostInv
  <1>0. PICK e \in Nat : e = buffer[r]
    BY <1>1 DEF HostTypes
  <1>2. /\ thread[r] = "deliver" /\ thread' = [thread EXCEPT ![r] = "read"]
        /\ delivered' = Append(delivered, e)
        /\ UNCHANGED <<setup, buffer, inbound, sent, errors, taken, starts>>
    BY <1>0 DEF Deliver
  <1>3. /\ e \in 1..Got /\ Got \in Nat /\ Held(e) = {r}
        /\ At(delivered, e) = {} /\ At(taken, e) = {}
    BY <1>0, <1>1, <1>2, ReadBefore DEF Queue
  <1>4. \A q \in Threads : thread'[q] = IF q = r THEN "read" ELSE thread[q]
    BY <1>1, <1>2 DEF HostTypes
  <1>5. HostTypes'
    BY <1>1, <1>2, <1>3 DEF HostTypes, Running, setup
  <1>6. Got' = Got /\ Queue'
    BY <1>1, <1>2 DEF Queue, Got
  <1>7. Once'
    <2>1. Held(e)' = {}
      BY <1>0, <1>2, <1>3, <1>4 DEF Held
    <2>2. At(delivered, e)' = {Len(delivered) + 1} /\ At(taken, e)' = {}
      BY <1>1, <1>2, <1>3, AtAppend DEF HostTypes, At
    <2>3. \A p \in Nat \ {e} : Held(p)' = Held(p)
      BY <1>0, <1>2, <1>4 DEF Held
    <2>4. \A p \in Nat \ {e} : At(delivered, p)' = At(delivered, p)
      BY <1>1, <1>2, <1>3, AtAppend DEF HostTypes, At
    <2>5. \A p \in Nat \ {e} : (InOnePlace(p)' <=> InOnePlace(p)) /\ (Nowhere(p)' <=> Nowhere(p))
      BY <1>2, <2>3, <2>4 DEF InOnePlace, Nowhere
    <2>6. InOnePlace(e)'
      BY <2>1, <2>2 DEF InOnePlace
    <2>7. e \in 1..Got'
      BY <1>3, <1>6
    <2> QED
      <3> SUFFICES ASSUME NEW p \in Nat
                   PROVE  IF p \in 1..Got' THEN InOnePlace(p)' ELSE Nowhere(p)'
        BY DEF Once
      <3>1. CASE p = e
        BY <2>6, <2>7, <3>1
      <3>2. CASE p # e
        <4>1. p \in 1..Got' <=> p \in 1..Got
          BY <1>6, <3>2
        <4>2. IF p \in 1..Got THEN InOnePlace(p) ELSE Nowhere(p)
          BY <1>1 DEF Once
        <4> QED
          BY <2>5, <3>2, <4>1, <4>2, Zenon
      <3> QED
        BY <3>1, <3>2
  <1>8. Alone'
    BY <1>1, <1>2 DEF Alone, Running
  <1>9. Ordered'
    <2> SUFFICES ASSUME starts <= 1
                 PROVE  /\ \A q, u \in Threads : thread'[q] # "none" /\ thread'[u] # "none" => q = u
                        /\ Ascending(delivered')
                        /\ \A q \in Threads : thread'[q] = "deliver" =>
                             \A i \in DOMAIN delivered' : delivered'[i] < buffer'[q]
      BY <1>2 DEF Ordered
    <2>1. \A q, u \in Threads : thread'[q] # "none" /\ thread'[u] # "none" => q = u
      BY <1>1, <1>2, <1>4 DEF Ordered
    <2>2. \A q \in Threads : thread'[q] # "deliver"
      BY <1>2, <1>4, <2>1
    <2>3. Ascending(delivered) /\ \A i \in DOMAIN delivered : delivered[i] < e
      BY <1>0, <1>1, <1>2 DEF Ordered
    <2>4. delivered \in Seq(Nat) /\ e \in Nat
      BY <1>1, <1>3 DEF HostTypes
    <2>5. Ascending(delivered')
      BY <1>2, <2>3, <2>4 DEF Ascending
    <2> QED
      BY <2>1, <2>2, <2>5
  <1> QED
    BY <1>5, <1>6, <1>7, <1>8, <1>9 DEF HostInv

\* A synchronous read takes the first packet of the queue.
LEMMA TakeKeepsHostInv == HostInv /\ TakePacket => HostInv'
  <1> SUFFICES ASSUME HostInv, TakePacket PROVE HostInv'
    OBVIOUS
  <1>1. HostTypes /\ Queue /\ Once /\ Alone /\ Ordered
    BY DEF HostInv
  <1>0. PICK e \in Nat : e = Got + 1
    BY <1>1 DEF Queue
  <1>2. /\ inbound # <<>> /\ taken' = Append(taken, Head(inbound)) /\ inbound' = Tail(inbound)
        /\ UNCHANGED <<setup, thread, buffer, sent, errors, delivered, starts>>
    BY DEF TakePacket
  <1>3. /\ Head(inbound) = e /\ Got \in Nat /\ e \in Nat /\ inbound' \in Seq(Nat)
        /\ Got' = e /\ \A i \in DOMAIN inbound' : inbound'[i] = e + i
        /\ Nowhere(e)
    <2>1. Got' = Got + 1
      BY <1>1, <1>2, HeadIsNext DEF Got, HostTypes
    <2> QED
      BY <1>0, <1>1, <1>2, <2>1, HeadIsNext DEF Queue
  <1>4. HostTypes'
    BY <1>1, <1>2, <1>3 DEF HostTypes, Running, setup
  <1>5. Queue'
    BY <1>3 DEF Queue
  <1>6. Once'
    <2>1. \A p \in Nat : Held(p)' = Held(p) /\ At(delivered, p)' = At(delivered, p)
      BY <1>2 DEF Held, At
    <2>2. Held(e)' = {} /\ At(delivered, e)' = {} /\ At(taken, e)' = {Len(taken) + 1}
      <3>1. Held(e) = {} /\ At(delivered, e) = {} /\ At(taken, e) = {}
        BY <1>3 DEF Nowhere
      <3>2. At(taken, e)' = At(Append(taken, e), e)
        BY <1>2, <1>3 DEF At
      <3>3. At(taken, e)' = {Len(taken) + 1}
        BY <1>1, <3>1, <3>2, AtAppend DEF HostTypes
      <3> QED
        BY <2>1, <3>1, <3>3
    <2>3. \A p \in Nat \ {e} : At(taken, p)' = At(taken, p)
      BY <1>1, <1>2, <1>3, AtAppend DEF HostTypes, At
    <2>4. \A p \in Nat \ {e} : (InOnePlace(p)' <=> InOnePlace(p)) /\ (Nowhere(p)' <=> Nowhere(p))
      BY <2>1, <2>3 DEF InOnePlace, Nowhere
    <2>5. InOnePlace(e)'
      BY <2>2 DEF InOnePlace
    <2>6. e \in 1..Got'
      BY <1>0, <1>3
    <2> QED
      <3> SUFFICES ASSUME NEW p \in Nat
                   PROVE  IF p \in 1..Got' THEN InOnePlace(p)' ELSE Nowhere(p)'
        BY DEF Once
      <3>1. CASE p = e
        BY <2>5, <2>6, <3>1
      <3>2. CASE p # e
        <4>1. p \in 1..Got' <=> p \in 1..Got
          BY <1>0, <1>3, <3>2
        <4>2. IF p \in 1..Got THEN InOnePlace(p) ELSE Nowhere(p)
          BY <1>1 DEF Once
        <4> QED
          BY <2>4, <3>2, <4>1, <4>2, Zenon
      <3> QED
        BY <3>1, <3>2
  <1>7. Alone' /\ Ordered'
    BY <1>1, <1>2 DEF Alone, Ordered, Running, Ascending
  <1> QED
    BY <1>4, <1>5, <1>6, <1>7 DEF HostInv

\* The sensor sends a packet.
LEMMA SensorKeepsHostInv == HostInv /\ SensorAnswers => HostInv'
  <1> SUFFICES ASSUME HostInv, SensorAnswers PROVE HostInv'
    OBVIOUS
  <1>1. /\ sent' = sent + 1 /\ inbound' = Append(inbound, sent + 1)
        /\ UNCHANGED <<setup, thread, buffer, errors, delivered, taken, starts>>
    BY DEF SensorAnswers
  <1>2. HostTypes'
    BY <1>1 DEF HostInv, HostTypes, Running, setup
  <1>3. Got' = Got
    BY <1>1 DEF HostInv, HostTypes, Got
  <1>4. Queue'
    BY <1>1, <1>3 DEF HostInv, HostTypes, Queue, Got
  <1>5. Once'
    <2>1. \A p \in Nat : Held(p)' = Held(p)
      BY <1>1 DEF Held
    <2> QED
      BY <1>1, <1>3, <2>1, SamePlaces DEF HostInv
  <1>6. Alone' /\ Ordered'
    BY <1>1 DEF HostInv, Alone, Ordered, Running, Ascending
  <1> QED
    BY <1>2, <1>4, <1>5, <1>6 DEF HostInv

LEMMA FrameworkKeepsHostInv == HostInv /\ Framework => HostInv'
  <1> SUFFICES ASSUME HostInv, Framework PROVE HostInv'
    OBVIOUS
  <1>1. CASE \/ VersionBind \/ WdfDriverCreate \/ WdfDeviceCreate
             \/ \E cb \in {"null", "ioctl"} : WdfIoQueueCreate(cb)
    BY <1>1, SetupKeepsHostInv
       DEF pipe, VersionBind, WdfDriverCreate, WdfDeviceCreate, WdfIoQueueCreate, HostInv, HostTypes
  <1>2. CASE WdfUsbTargetDeviceCreate \/ GetInterface \/ GetConfiguredPipe
             \/ WdfUsbTargetPipeConfigContinuousReader
    BY <1>2, SetupKeepsHostInv
       DEF pipe, WdfUsbTargetDeviceCreate, OpenDevice, GetInterface, GetConfiguredPipe,
           WdfUsbTargetPipeConfigContinuousReader, HostInv, HostTypes
  <1>3. CASE WdfIoTargetSendReadSynchronously \/ WdfUsbTargetPipeReadSynchronously
    BY <1>3, TakeKeepsHostInv
       DEF WdfIoTargetSendReadSynchronously, WdfUsbTargetPipeReadSynchronously
  <1>4. CASE WdfIoTargetSendWriteSynchronously \/ WdfUsbTargetPipeWriteSynchronously
    BY <1>4, SensorKeepsHostInv
       DEF WdfIoTargetSendWriteSynchronously, WdfUsbTargetPipeWriteSynchronously
  <1>5. ASSUME NEW r \in Threads, ReadFails(r) PROVE HostInv'
    BY <1>5, SetupKeepsHostInv DEF ReadFails, setup, HostInv, HostTypes
  <1> QED
    BY <1>1, <1>2, <1>3, <1>4, <1>5, StartKeepsHostInv, ReadKeepsHostInv, DeliverKeepsHostInv
       DEF Framework, Reader

(***************************************************************************)
(* The commands                                                            *)
(***************************************************************************)
LEMMA MainKeepsCommandInv == CommandInv /\ Main => CommandInv'
  <1> SUFFICES ASSUME CommandInv, Main PROVE CommandInv'
    OBVIOUS
  <1> USE DEF CommandInv, outcome, Answers, Status, Answered, Goto, Exit, Requests, Over
  <1>1. CASE Command
    <2>1. CommandTypes'
      BY <1>1 DEF Command, CommandTypes, Progress
    <2>2. Progress'
      BY <1>1 DEF Command, CommandTypes, Progress
    <2>3. ExitCodeOfEnroll'
      BY <1>1 DEF Command, Progress, ExitCodeOfEnroll
    <2> QED
      BY <2>1, <2>2, <2>3
  <1>2. CASE Led
    <2>1. CommandTypes'
      BY <1>2 DEF Led, CommandTypes, Progress
    <2>2. Progress'
      BY <1>2 DEF Led, CommandTypes, Progress
    <2>3. ExitCodeOfEnroll'
      BY <1>2 DEF Led, Progress, ExitCodeOfEnroll
    <2> QED
      BY <2>1, <2>2, <2>3
  <1>3. CASE CreateEnrollment
    <2>1. CommandTypes'
      BY <1>3 DEF CreateEnrollment, CommandTypes, Progress
    <2>2. Progress'
      BY <1>3 DEF CreateEnrollment, CommandTypes, Progress
    <2>3. ExitCodeOfEnroll'
      BY <1>3 DEF CreateEnrollment, Progress, ExitCodeOfEnroll
    <2> QED
      BY <2>1, <2>2, <2>3
  <1>4. CASE CaptureSample
    <2>1. CommandTypes'
      BY <1>4 DEF CaptureSample, NextTry, CommandTypes, Progress
    <2>2. Progress'
      BY <1>4 DEF CaptureSample, NextTry, CommandTypes, Progress
    <2>3. ExitCodeOfEnroll'
      BY <1>4 DEF CaptureSample, NextTry, Progress, ExitCodeOfEnroll
    <2> QED
      BY <2>1, <2>2, <2>3
  <1>5. CASE UpdateEnrollment
    <2>1. CommandTypes'
      BY <1>5 DEF UpdateEnrollment, NextTry, CommandTypes, Progress
    <2>2. Progress'
      BY <1>5 DEF UpdateEnrollment, NextTry, CommandTypes, Progress
    <2>3. ExitCodeOfEnroll'
      BY <1>5 DEF UpdateEnrollment, NextTry, Progress, ExitCodeOfEnroll
    <2> QED
      BY <2>1, <2>2, <2>3
  <1>6. CASE CommitEnrollment
    <2>1. CommandTypes'
      BY <1>6 DEF CommitEnrollment, CommandTypes, Progress
    <2>2. Progress'
      BY <1>6 DEF CommitEnrollment, CommandTypes, Progress
    <2>3. ExitCodeOfEnroll'
      <3>1. PICK a \in Answers : /\ pending' = IF a = "pended" THEN pending \union {pc} ELSE pending
                                 /\ answer' = a /\ stored' = (a = "ok")
                                 /\ pc' = "exit" /\ code' = IF Status(a) >= 0 THEN 0 ELSE 1
        BY <1>6 DEF CommitEnrollment
      <3>2. a \in {"ok", "one", "failed", "pended"} /\ pc = "commit"
        BY <1>6, <3>1 DEF CommitEnrollment
      <3>3. CASE a = "failed"
        <4>1. code' = 1
          BY <3>1, <3>2, <3>3
        <4>2. (a = "ok") = FALSE
          BY <3>3
        <4>3. stored' = FALSE
          BY <3>1, <4>2, Zenon
        <4> QED
          BY <4>1, <4>3 DEF ExitCodeOfEnroll
      <3>4. CASE a = "ok"
        <4>1. code' = 0
          BY <3>1, <3>2, <3>4
        <4>2. (a = "ok") = TRUE
          BY <3>4
        <4>3. stored' = TRUE
          BY <3>1, <4>2, Zenon
        <4> QED
          BY <4>1, <4>3 DEF ExitCodeOfEnroll
      <3>5. CASE a = "pended"
        <4>1. code' = 0 /\ "commit" \in pending'
          BY <3>1, <3>2, <3>5
        <4>2. (a = "ok") = FALSE
          BY <3>5
        <4>3. stored' = FALSE
          BY <3>1, <4>2, Zenon
        <4> QED
          BY <4>1, <4>3 DEF ExitCodeOfEnroll
      <3>6. CASE a = "one"
        <4>1. code' = 0 /\ answer' = "one"
          BY <3>1, <3>2, <3>6
        <4>2. (a = "ok") = FALSE
          BY <3>6
        <4>3. stored' = FALSE
          BY <3>1, <4>2, Zenon
        <4> QED
          BY <4>1, <4>3 DEF ExitCodeOfEnroll
      <3> QED
        BY <3>2, <3>3, <3>4, <3>5, <3>6
    <2> QED
      BY <2>1, <2>2, <2>3
  <1>7. CASE CaptureForMatch
    <2>1. CommandTypes'
      BY <1>7 DEF CaptureForMatch, CommandTypes, Progress
    <2>2. Progress'
      BY <1>7 DEF CaptureForMatch, CommandTypes, Progress
    <2>3. ExitCodeOfEnroll'
      BY <1>7 DEF CaptureForMatch, Progress, ExitCodeOfEnroll
    <2> QED
      BY <2>1, <2>2, <2>3
  <1>8. CASE SetTemplateList
    <2>1. CommandTypes'
      BY <1>8 DEF SetTemplateList, CommandTypes, Progress
    <2>2. Progress'
      BY <1>8 DEF SetTemplateList, CommandTypes, Progress
    <2>3. ExitCodeOfEnroll'
      BY <1>8 DEF SetTemplateList, Progress, ExitCodeOfEnroll
    <2> QED
      BY <2>1, <2>2, <2>3
  <1>9. CASE IdentifyFeatureSet
    <2>1. CommandTypes'
      BY <1>9 DEF IdentifyFeatureSet, CommandTypes, Progress
    <2>2. Progress'
      BY <1>9 DEF IdentifyFeatureSet, CommandTypes, Progress
    <2>3. ExitCodeOfEnroll'
      BY <1>9 DEF IdentifyFeatureSet, Progress, ExitCodeOfEnroll
    <2> QED
      BY <2>1, <2>2, <2>3
  <1> QED
    BY <1>1, <1>2, <1>3, <1>4, <1>5, <1>6, <1>7, <1>8, <1>9 DEF Main

LEMMA OthersKeepCommandInv ==
  ASSUME CommandInv, DeleteStackMemory \/ \E i \in Requests : CompleteLater(i)
  PROVE  CommandInv'
  BY DEF DeleteStackMemory, CompleteLater, CommandInv, CommandTypes, Progress, ExitCodeOfEnroll,
         Requests, Over, outcome

(***************************************************************************)
(* The whole program                                                       *)
(***************************************************************************)
LEMMA InitIInv == Init => IInv
  <1> SUFFICES ASSUME Init PROVE IInv
    OBVIOUS
  <1>1. HostInv
    BY InitHostInv DEF Init
  <1>2. CommandInv
    BY DEF Init, CommandInv, CommandTypes, Progress, ExitCodeOfEnroll, Requests, Over
  <1> QED
    BY <1>1, <1>2 DEF IInv

LEMMA HostUntouched == HostInv /\ UNCHANGED hostVars => HostInv'
  BY SetupKeepsHostInv DEF hostVars, setup, pipe, HostInv, HostTypes

LEMMA CommandUntouched == CommandInv /\ UNCHANGED command => CommandInv'
  BY DEF command, outcome, CommandInv, CommandTypes, Progress, ExitCodeOfEnroll

LEMMA NextIInv == IInv /\ [Next]_vars => IInv'
  <1> SUFFICES ASSUME IInv, [Next]_vars PROVE IInv'
    OBVIOUS
  <1>1. CASE Main \/ DeleteStackMemory \/ \E i \in Requests : CompleteLater(i)
    <2>1. UNCHANGED hostVars
      BY <1>1 DEF Main, Command, Led, CreateEnrollment, CaptureSample, UpdateEnrollment,
                  CommitEnrollment, CaptureForMatch, SetTemplateList, IdentifyFeatureSet,
                  DeleteStackMemory, CompleteLater
    <2> QED
      BY <1>1, <2>1, HostUntouched, MainKeepsCommandInv, OthersKeepCommandInv DEF IInv
  <1>2. CASE Framework /\ UNCHANGED command
    BY <1>2, FrameworkKeepsHostInv, CommandUntouched DEF IInv
  <1>3. CASE UNCHANGED vars
    BY <1>3, HostUntouched, CommandUntouched DEF IInv, vars
  <1> QED
    BY <1>1, <1>2, <1>3 DEF Next

LEMMA Invariant == Spec => []IInv
  BY InitIInv, NextIInv, PTL DEF Spec

\* One place, counted.
LEMMA CountPlaces ==
  ASSUME HostInv, NEW p \in 1..sent
  PROVE  Cardinality(Held(p)) + Cardinality(At(inbound, p)) + Cardinality(At(delivered, p))
           + Cardinality(At(taken, p)) = 1
  <1>1. /\ inbound \in Seq(Nat) /\ sent \in Nat /\ Got \in Nat /\ Got = sent - Len(inbound)
        /\ \A i \in DOMAIN inbound : inbound[i] = Got + i
    BY DEF HostInv, HostTypes, Queue, Got
  <1>2. Cardinality({}) = 0 /\ \A x : Cardinality({x}) = 1
    BY FS_EmptySet, FS_Singleton
  <1>0. DOMAIN inbound = 1..Len(inbound) /\ Len(inbound) \in Nat
    BY <1>1
  <1>3. CASE p \in 1..Got
    <2>1. At(inbound, p) = {}
      BY <1>1, <1>3 DEF At
    <2>2. InOnePlace(p)
      BY <1>3 DEF HostInv, Once
    <2>3. CASE (\E r : Held(p) = {r}) /\ At(delivered, p) = {} /\ At(taken, p) = {}
      BY <1>2, <2>1, <2>3
    <2>4. CASE (\E i : At(delivered, p) = {i}) /\ Held(p) = {} /\ At(taken, p) = {}
      <3>1. Cardinality(At(delivered, p)) = 1
        BY <1>2, <2>4, Zenon
      <3> QED
        BY <1>2, <2>1, <2>4, <3>1
    <2>5. CASE (\E i : At(taken, p) = {i}) /\ Held(p) = {} /\ At(delivered, p) = {}
      <3>1. Cardinality(At(taken, p)) = 1
        BY <1>2, <2>5, Zenon
      <3> QED
        BY <1>2, <2>1, <2>5, <3>1
    <2> QED
      BY <2>2, <2>3, <2>4, <2>5 DEF InOnePlace
  <1>4. CASE p \notin 1..Got
    <2>1. At(inbound, p) = {p - Got}
      <3>1. p - Got \in 1..Len(inbound)
        BY <1>0, <1>1, <1>4
      <3>2. ASSUME NEW i \in 1..Len(inbound) PROVE inbound[i] = p <=> i = p - Got
        <4>1. inbound[i] = Got + i /\ i \in Int /\ Got \in Int /\ p \in Int
          BY <1>0, <1>1
        <4> QED
          BY <4>1
      <3> QED
        BY <1>0, <3>1, <3>2 DEF At
    <2>2. Nowhere(p)
      BY <1>4 DEF HostInv, Once
    <2>3. Cardinality(At(inbound, p)) = 1
      BY <1>2, <2>1, Zenon
    <2> QED
      BY <1>2, <2>2, <2>3 DEF Nowhere
  <1> QED
    BY <1>3, <1>4

(***************************************************************************)
(* Theorems                                                                *)
(***************************************************************************)
\* A reader thread runs only with a callback and an open sensor.
THEOREM TypeCorrect == Spec => []TypeOK
  <1>1. IInv => TypeOK
    BY DEF IInv, HostInv, HostTypes, CommandInv, CommandTypes, TypeOK
  <1> QED
    BY Invariant, <1>1, PTL

\* However many threads read the endpoint and whatever fails, a packet of the
\* sensor is in one place, and one reader delivers in order.
THEOREM PacketsCorrect == Spec => []PacketsOnceInOrder
  <1>1. IInv => PacketsOnceInOrder
    BY CountPlaces DEF IInv, HostInv, Ordered, PacketsOnceInOrder, Held, At
  <1> QED
    BY Invariant, <1>1, PTL

\* A failure code of enroll means no record and a record means success; success
\* without a record comes only of a commit still queued or answered with status 1.
THEOREM ExitCodeCorrect == Spec => []ExitCodeOfEnroll
  <1>1. IInv => ExitCodeOfEnroll
    BY DEF IInv, CommandInv
  <1> QED
    BY Invariant, <1>1, PTL
=============================================================================
