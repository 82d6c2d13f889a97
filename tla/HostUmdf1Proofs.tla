--------------------------- MODULE HostUmdf1Proofs ---------------------------
(***************************************************************************)
(* Theorems about the three modules of host_umdf1.h, and of the requests   *)
(* that hello.cc makes through it: UsbRequest, for any pipes, setup        *)
(* packets, memory objects and buffer size; PropertyStore, for any stores, *)
(* names and values; Replies, for any bound on the sizes a driver reports. *)
(* The modules share nothing.  Each part has its own inductive invariant.  *)
(***************************************************************************)
EXTENDS UsbRequest, PropertyStore, Replies, TLAPS

(***************************************************************************)
(* UsbRequest.  RequestIInv adds to the types and the count what makes a   *)
(* reused request free of its past: as long as the driver waits for a      *)
(* transfer, the fields Send() reads are those of the last format.         *)
(***************************************************************************)
Formatted == asked # NoTransfer => op = asked.op /\ Endpoint = asked.on

RequestIInv ==
  /\ RequestTypeOK
  /\ wire \in Calls \union {NoTransfer}
  /\ CountOfLastTransfer
  /\ Formatted

\* The request itself, without the objects around it.
request == <<fields, asked, wire>>

USE UsbRequestAssumption

\* A call that leaves the request alone and types its own results.
LEMMA Quiet ==
  ASSUME RequestIInv, UNCHANGED request,
         target' \in {"none", "open"}, pipes' \subseteq Pipes,
         size' \in [Memories -> 0..MaxSize], result' \in Results
  PROVE  RequestIInv'
  BY DEF RequestIInv, RequestTypeOK, CountOfLastTransfer, CompletionParams, Formatted, Endpoint,
         request, fields

\* A memory object bounds what a transfer moves.
LEMMA BufferBounded ==
  ASSUME RequestIInv
  PROVE  GetDataBuffer(outMem) \in 0..MaxSize
  BY DEF RequestIInv, RequestTypeOK, GetDataBuffer

\* Send() calls WinUSB with what was formatted, and records the count.
LEMMA TransferCarries ==
  ASSUME RequestIInv, NEW moved \in 0..MaxSize, NEW known \in BOOLEAN, Transfer(moved, known)
  PROVE  /\ wire' \in Calls /\ wire'.moved = sent'
         /\ sent' \in 0..MaxSize
         /\ wire'.op = asked.op /\ wire'.on = asked.on /\ wire'.mem = outMem
  <1>1. GetDataBuffer(outMem) \in 0..MaxSize
    BY BufferBounded
  <1>2. op = asked.op /\ Endpoint = asked.on
    BY DEF RequestIInv, Formatted, Transfer
  <1>3. Endpoint \in Setups \union Pipes
    BY DEF RequestIInv, RequestTypeOK, Endpoint, Pipes
  <1>4. sent' = IF known THEN moved ELSE 0
    BY DEF Transfer, SentBefore
  <1>5. wire' = [op |-> op, on |-> Endpoint, mem |-> outMem,
                 len |-> GetDataBuffer(outMem), moved |-> IF known THEN moved ELSE 0]
    BY DEF Transfer
  <1>6. /\ op \in {"control", "read", "write"}
        /\ outMem \in Memories \union {NoMem}
    BY DEF RequestIInv, RequestTypeOK
  <1>7. wire' \in Calls
    BY <1>1, <1>3, <1>5, <1>6 DEF Calls
  <1> QED
    BY <1>2, <1>4, <1>5, <1>7

LEMMA InitRequestIInv == RequestInit => RequestIInv
  BY DEF RequestInit, RequestIInv, RequestTypeOK, CountOfLastTransfer, CompletionParams,
     Formatted, Results

LEMMA NextRequestIInv == RequestIInv /\ [RequestNext]_requestVars => RequestIInv'
  <1> SUFFICES ASSUME RequestIInv, [RequestNext]_requestVars PROVE RequestIInv'
    OBVIOUS
  <1>0. /\ target \in {"none", "open"} /\ pipes \subseteq Pipes
        /\ size \in [Memories -> 0..MaxSize] /\ result \in Results
    BY DEF RequestIInv, RequestTypeOK
  <1>1. CASE CreateUsbTargetDevice
    BY <1>0, <1>1, Quiet DEF CreateUsbTargetDevice, request, Results
  <1>2. CASE CreateRequest
    BY <1>2 DEF CreateRequest, Fresh, RequestIInv, RequestTypeOK, CountOfLastTransfer,
       CompletionParams,
                Formatted, Results
  <1>3. ASSUME NEW p \in Pipes, RetrieveUsbPipeObject(p) \/ PipeControl(p) \/ PipePolicy(p)
        PROVE  RequestIInv'
    <2>1. /\ UNCHANGED <<target, size, fields, asked, wire>> /\ pipes' \subseteq Pipes
          /\ result' \in Results
      BY <1>0, <1>3 DEF RetrieveUsbPipeObject, PipeControl, PipePolicy, Results
    <2> QED
      BY <1>0, <2>1, Quiet DEF request
  <1>4. ASSUME NEW m \in Memories, NEW n \in 0..MaxSize, SetBuffer(m, n) PROVE RequestIInv'
    BY <1>0, <1>4, Quiet DEF SetBuffer, request
  <1>5. ASSUME NEW s \in Setups, NEW m \in Memories \union {NoMem},
               FormatRequestForControlTransfer(s, m)
        PROVE  RequestIInv'
    <2>1. CASE result' = "abort" /\ UNCHANGED <<op, pipe, setup, outMem, inMem, asked>>
      BY <1>0, <1>5, <2>1, Quiet DEF FormatRequestForControlTransfer, request, fields, Results
    <2>2. CASE /\ SetControlData(s, m) /\ result' = "ok"
               /\ asked' = [op |-> "control", on |-> s, mem |-> m]
      <3>1. asked' \in Transfers
        BY <2>2 DEF Transfers
      <3>2. RequestTypeOK'
        BY <1>5, <2>2, <3>1 DEF FormatRequestForControlTransfer, SetControlData, RequestIInv,
           RequestTypeOK, Results
      <3> QED
        BY <1>5, <2>2, <3>2 DEF FormatRequestForControlTransfer, SetControlData, RequestIInv,
              CountOfLastTransfer, CompletionParams, Formatted, Endpoint
    <2> QED
      BY <1>5, <2>1, <2>2 DEF FormatRequestForControlTransfer
  <1>6. ASSUME NEW p \in Pipes, NEW m \in Memories \union {NoMem}, FormatRequestForRead(p, m)
        PROVE  RequestIInv'
    <2>1. asked' \in Transfers
      BY <1>6 DEF FormatRequestForRead, Transfers
    <2>2. RequestTypeOK'
      BY <1>6, <2>1 DEF FormatRequestForRead, RequestIInv, RequestTypeOK, Results
    <2> QED
      BY <1>6, <2>2 DEF FormatRequestForRead, RequestIInv, CountOfLastTransfer, CompletionParams,
                        Formatted, Endpoint
  <1>7. ASSUME NEW p \in Pipes, NEW m \in Memories \union {NoMem}, FormatRequestForWrite(p, m)
        PROVE  RequestIInv'
    <2>1. asked' \in Transfers
      BY <1>7 DEF FormatRequestForWrite, Transfers
    <2>2. RequestTypeOK'
      BY <1>7, <2>1 DEF FormatRequestForWrite, RequestIInv, RequestTypeOK, Results
    <2> QED
      BY <1>7, <2>2 DEF FormatRequestForWrite, RequestIInv, CountOfLastTransfer, CompletionParams,
                        Formatted, Endpoint
  <1>8. CASE SendRefused
    BY <1>0, <1>8, Quiet DEF SendRefused, request, Results
  <1>9. CASE SendFails
    <2>1. PICK moved \in 0..MaxSize, known \in BOOLEAN : Transfer(moved, known)
      BY <1>9 DEF SendFails
    <2>2. wire' \in Calls /\ wire'.moved = sent' /\ sent' \in 0..MaxSize
      BY <2>1, TransferCarries
    <2>3. RequestTypeOK'
      BY <1>9, <2>2 DEF SendFails, RequestIInv, RequestTypeOK, Results
    <2> QED
      BY <1>9, <2>2, <2>3 DEF SendFails, RequestIInv, CountOfLastTransfer, CompletionParams,
                              Formatted, Endpoint
  <1>10. CASE SendSucceeds
    <2>1. PICK moved \in 0..MaxSize : Transfer(moved, TRUE)
      BY <1>10 DEF SendSucceeds
    <2>2. wire' \in Calls /\ wire'.moved = sent' /\ sent' \in 0..MaxSize
      BY <2>1, TransferCarries
    <2>3. RequestTypeOK'
      BY <1>10, <2>2 DEF SendSucceeds, RequestIInv, RequestTypeOK, Results
    <2> QED
      BY <1>10, <2>2, <2>3 DEF SendSucceeds, RequestIInv, CountOfLastTransfer, CompletionParams,
         Formatted
  <1>11. CASE UNCHANGED requestVars
    BY <1>0, <1>11, Quiet DEF requestVars, request
  <1> QED
    BY <1>1, <1>2, <1>3, <1>4, <1>5, <1>6, <1>7, <1>8, <1>9, <1>10, <1>11 DEF RequestNext

\* What Send() hands to WinUSB is consistent in every reachable state.
THEOREM RequestTypeCorrect == RequestSpec => []RequestTypeOK
  <1>1. RequestIInv => RequestTypeOK
    BY DEF RequestIInv
  <1> QED
    BY InitRequestIInv, NextRequestIInv, <1>1, PTL DEF RequestSpec

\* The byte count a driver reads is that of the last transfer.
THEOREM CountCorrect == RequestSpec => []CountOfLastTransfer
  <1>1. RequestIInv => CountOfLastTransfer
    BY DEF RequestIInv
  <1> QED
    BY InitRequestIInv, NextRequestIInv, <1>1, PTL DEF RequestSpec

LEMMA InitRefinesTransfer == RequestInit => Abstract!Init
  BY DEF RequestInit, Abstract!Init, Called

\* A format is a format, a transfer a carry, a new request a renewal, and
\* everything else a stutter.
LEMMA NextRefinesTransfer ==
  RequestIInv /\ [RequestNext]_requestVars => [Abstract!Next]_(Abstract!vars)
  <1> SUFFICES ASSUME RequestIInv, [RequestNext]_requestVars PROVE [Abstract!Next]_(Abstract!vars)
    OBVIOUS
  <1>1. ASSUME UNCHANGED <<asked, outMem, wire>> PROVE UNCHANGED Abstract!vars
    BY <1>1 DEF Abstract!vars, Called
  <1>2. ASSUME NEW moved \in 0..MaxSize, NEW known \in BOOLEAN, Transfer(moved, known),
               \/ asked' = NoTransfer /\ outMem' = NoMem
               \/ UNCHANGED <<asked, outMem>>
        PROVE  Abstract!Carry
    <2>1. /\ wire' \in Calls
          /\ wire'.op = asked.op /\ wire'.on = asked.on /\ wire'.mem = outMem
      BY <1>2, TransferCarries
    <2>2. asked # NoTransfer /\ asked \in Transfers
      BY <1>2 DEF Transfer, RequestIInv, RequestTypeOK
    <2>3. Called' = [op |-> asked.op, on |-> asked.on, mem |-> outMem]
      BY <2>1 DEF Called
    <2>4. [asked EXCEPT !.mem = outMem] = [op |-> asked.op, on |-> asked.on, mem |-> outMem]
      BY <2>2 DEF Transfers
    <2> QED
      BY <1>2, <2>2, <2>3, <2>4 DEF Abstract!Carry
  <1>3. CASE CreateUsbTargetDevice
    BY <1>1, <1>3 DEF CreateUsbTargetDevice, fields
  <1>4. CASE CreateRequest
    BY <1>4 DEF CreateRequest, Fresh, Abstract!Next, Abstract!Renew, Called
  <1>5. ASSUME NEW p \in Pipes, RetrieveUsbPipeObject(p) \/ PipeControl(p) \/ PipePolicy(p)
        PROVE  UNCHANGED Abstract!vars
    BY <1>1, <1>5 DEF RetrieveUsbPipeObject, PipeControl, PipePolicy, fields
  <1>6. ASSUME NEW m \in Memories, NEW n \in 0..MaxSize, SetBuffer(m, n)
        PROVE  UNCHANGED Abstract!vars
    BY <1>1, <1>6 DEF SetBuffer, fields
  <1>7. ASSUME NEW s \in Setups, NEW m \in Memories \union {NoMem},
               FormatRequestForControlTransfer(s, m)
        PROVE  [Abstract!Next]_(Abstract!vars)
    <2>1. CASE UNCHANGED <<op, pipe, setup, outMem, inMem, asked>>
      BY <1>1, <1>7, <2>1 DEF FormatRequestForControlTransfer
    <2>2. CASE SetControlData(s, m) /\ asked' = [op |-> "control", on |-> s, mem |-> m]
      <3>1. asked' \in Transfers
        BY <2>2 DEF Transfers
      <3>2. Abstract!Format(asked')
        BY <1>7, <2>2 DEF FormatRequestForControlTransfer, SetControlData, Abstract!Format, Called
      <3> QED
        BY <3>1, <3>2 DEF Abstract!Next
    <2> QED
      BY <1>7, <2>1, <2>2 DEF FormatRequestForControlTransfer
  <1>8. ASSUME NEW p \in Pipes, NEW m \in Memories \union {NoMem},
               FormatRequestForRead(p, m) \/ FormatRequestForWrite(p, m)
        PROVE  Abstract!Next
    <2>1. asked' \in Transfers
      BY <1>8 DEF FormatRequestForRead, FormatRequestForWrite, Transfers
    <2>2. Abstract!Format(asked')
      BY <1>8 DEF FormatRequestForRead, FormatRequestForWrite, Abstract!Format, Called
    <2> QED
      BY <2>1, <2>2 DEF Abstract!Next
  <1>9. CASE SendRefused
    BY <1>1, <1>9 DEF SendRefused, fields
  <1>10. CASE SendFails
    BY <1>2, <1>10 DEF SendFails, Abstract!Next
  <1>11. CASE SendSucceeds
    BY <1>2, <1>11 DEF SendSucceeds, Abstract!Next
  <1>12. CASE UNCHANGED requestVars
    BY <1>1, <1>12 DEF requestVars, fields
  <1> QED
    BY <1>3, <1>4, <1>5, <1>6, <1>7, <1>8, <1>9, <1>10, <1>11, <1>12 DEF RequestNext

\* A reused request implements UsbTransfer: it carries what it was formatted
\* for last.
THEOREM RequestImplementsTransfer == RequestSpec => CarriesWhatWasFormatted
  BY InitRequestIInv, NextRequestIInv, InitRefinesTransfer, NextRefinesTransfer, PTL
     DEF RequestSpec, CarriesWhatWasFormatted, Abstract!Spec

HIDE UsbRequestAssumption

(***************************************************************************)
(* PropertyStore.  StoreIInv adds to the types that the file of a name is  *)
(* current unless its last write is known to be lost: what a store without *)
(* a value of its own reads is then the latest value of any store.         *)
(***************************************************************************)
Caches == [Stores -> [Names -> Values \union {Absent, "freed"}]]

\* What a driver was given came from one store and one name.
GotOf ==
  \/ got = Nothing
  \/ /\ got = [store |-> got.store, name |-> got.name, value |-> got.value, own |-> got.own]
     /\ got.store \in Stores /\ got.name \in Names
     /\ got.own = (cache[got.store][got.name] # Absent)

FileCurrent == \A n \in Persisted \ lost : file[n] = latest[n]

\* A cache holds what its store has set first, or what is left of that.
CacheFirst ==
  \A s \in Stores, n \in Names :
    /\ cache[s][n] = Absent <=> first[s][n] = Absent
    /\ cache[s][n] # Absent => cache[s][n] \in {first[s][n], "freed"}

StoreIInv == /\ StoreTypeOK /\ cache \in Caches /\ GotOf /\ CacheFirst /\ FileCurrent
             /\ StaleOnlyBehindOwnValue

USE PropertyStoreAssumption

\* What is read from the file of a name that was not lost.
LEMMA LoadIsLatest ==
  ASSUME StoreIInv, NEW n \in Persisted \ lost
  PROVE  Load(n) = latest[n] \/ (latest[n] = Absent /\ Load(n) = "cleared")
  <1>1. file[n] = latest[n] /\ latest[n] \in Values \union {Absent}
    BY DEF StoreIInv, FileCurrent, StoreTypeOK, Names, Persisted
  <1>2. file[n] # "cut" /\ n \notin Flags /\ n \notin Others
    BY <1>1
  <1>3. CASE file[n] = Absent
    BY <1>1, <1>2, <1>3, Zenon DEF Load
  <1>4. CASE file[n] \in Values
    <2>1. file[n] # Absent
      BY <1>4
    <2> QED
      BY <1>1, <1>2, <1>4, <2>1, Zenon DEF Load
  <1> QED
    BY <1>1, <1>3, <1>4

\* A write, the caches aside: what is lost of it is recorded.
LEMMA WriteKeepsCurrent ==
  ASSUME StoreIInv, NEW s \in Stores, NEW n \in Names, NEW v \in Values, Write(s, n, v),
         latest' = [latest EXCEPT ![n] = v]
  PROVE  /\ FileCurrent' /\ lost' \subseteq Persisted
         /\ file' \in [Persisted -> Values \union {Absent, "cut"}]
         /\ latest' \in [Names -> Values \union {Absent}]
  <1>1. /\ file \in [Persisted -> Values \union {Absent, "cut"}] /\ lost \subseteq Persisted
        /\ latest \in [Names -> Values \union {Absent}] /\ Persisted \subseteq Names
    BY DEF StoreIInv, StoreTypeOK, Names, Persisted
  <1> QED
    BY <1>1 DEF Write, StoreIInv, FileCurrent

LEMMA InitStoreIInv == StoreInit => StoreIInv
  <1> SUFFICES ASSUME StoreInit PROVE StoreIInv
    OBVIOUS
  <1>1. cache \in Caches /\ \A s \in Stores, n \in Names : cache[s][n] = Absent
    BY DEF StoreInit, Empty, Caches
  <1>2. file \in [Persisted -> Values \union {Absent, "cut"}]
        /\ latest \in [Names -> Values \union {Absent}] /\ lost \subseteq Persisted
    BY DEF StoreInit
  <1>4. first \in [Stores -> [Names -> Values \union {Absent}]] /\ CacheFirst
    BY DEF StoreInit, Empty, CacheFirst
  <1>3. FileCurrent
    BY DEF StoreInit, FileCurrent, Names, Persisted
  <1> QED
    BY <1>1, <1>2, <1>3, <1>4 DEF StoreInit, StoreIInv, StoreTypeOK, GotOf, StaleOnlyBehindOwnValue,
       Nothing

LEMMA NextStoreIInv == StoreIInv /\ [StoreNext]_storeVars => StoreIInv'
  <1> SUFFICES ASSUME StoreIInv, [StoreNext]_storeVars PROVE StoreIInv'
    OBVIOUS
  <1>1. ASSUME NEW s \in Stores, NEW n \in Names, GetNamedValue(s, n) PROVE StoreIInv'
    <2>1. GotOf' /\ got'.own \in BOOLEAN
      BY <1>1 DEF GetNamedValue, GotOf
    <2>2. StaleOnlyBehindOwnValue'
      <3>1. CASE cache[s][n] # Absent
        <4>1. first[s][n] # Absent /\ cache[s][n] \in {first[s][n], "freed"}
          BY <3>1 DEF StoreIInv, CacheFirst
        <4> QED
          BY <1>1, <3>1, <4>1 DEF GetNamedValue, history, StaleOnlyBehindOwnValue
      <3>2. CASE cache[s][n] = Absent /\ n \in Persisted \ lost
        BY <1>1, <3>2, LoadIsLatest DEF GetNamedValue, history, StaleOnlyBehindOwnValue
      <3>3. CASE n \notin Persisted \/ n \in lost
        BY <1>1, <3>3 DEF GetNamedValue, history, StaleOnlyBehindOwnValue
      <3> QED
        BY <3>1, <3>2, <3>3
    <2> QED
      BY <1>1, <2>1, <2>2 DEF GetNamedValue, history, StoreIInv, StoreTypeOK, CacheFirst,
         FileCurrent
  <1>2. ASSUME NEW s \in Stores, NEW n \in Names, NEW v \in Values, SetNamedValue(s, n, v)
        PROVE  StoreIInv'
    <2>1. Write(s, n, v) /\ latest' = [latest EXCEPT ![n] = v] /\ got' = Nothing
      BY <1>2 DEF SetNamedValue
    <2>2. /\ FileCurrent' /\ lost' \subseteq Persisted
          /\ file' \in [Persisted -> Values \union {Absent, "cut"}]
          /\ latest' \in [Names -> Values \union {Absent}]
      BY <2>1, WriteKeepsCurrent
    <2>3. cache' = [cache EXCEPT ![s][n] = IF @ = Absent THEN v ELSE @]
      BY <1>2 DEF SetNamedValue, Insert
    <2>4. /\ cache' \in Caches
          /\ \A z \in Stores, m \in Names : cache'[z][m] \in {cache[z][m], v}
      BY <2>3 DEF StoreIInv, Caches
    <2>5. \A z \in Stores, m \in Names : cache'[z][m] \in
            Values \union {Absent} \union (IF m \in Blobs THEN {"freed"} ELSE {})
      BY <2>4 DEF StoreIInv, StoreTypeOK
    <2>6. first' = IF first[s][n] = Absent THEN [first EXCEPT ![s][n] = v] ELSE first
      BY <1>2 DEF SetNamedValue
    <2>7. first' \in [Stores -> [Names -> Values \union {Absent}]]
      BY <2>6 DEF StoreIInv, StoreTypeOK
    <2>8. CacheFirst'
      <3> SUFFICES ASSUME NEW z \in Stores, NEW m \in Names
                   PROVE  /\ cache'[z][m] = Absent <=> first'[z][m] = Absent
                          /\ cache'[z][m] # Absent => cache'[z][m] \in {first'[z][m], "freed"}
        BY DEF CacheFirst
      <3>1. CASE z = s /\ m = n
        <4>1. /\ cache'[z][m] = IF cache[s][n] = Absent THEN v ELSE cache[s][n]
              /\ first'[z][m] = IF first[s][n] = Absent THEN v ELSE first[s][n]
          BY <2>3, <2>6, <3>1 DEF StoreIInv, StoreTypeOK, Caches
        <4> QED
          BY <3>1, <4>1 DEF StoreIInv, CacheFirst
      <3>2. CASE ~(z = s /\ m = n)
        <4>1. cache'[z][m] = cache[z][m] /\ first'[z][m] = first[z][m]
          BY <2>3, <2>6, <3>2 DEF StoreIInv, StoreTypeOK, Caches
        <4> QED
          BY <4>1 DEF StoreIInv, CacheFirst
      <3> QED
        BY <3>1, <3>2
    <2> QED
      BY <2>1, <2>2, <2>4, <2>5, <2>7, <2>8 DEF StoreIInv, StoreTypeOK, GotOf, StaleOnlyBehindOwnValue,
         Nothing
  <1>3. CASE PropVariantClear
    <2>1. /\ cache' \in Caches
          /\ \A z \in Stores, m \in Names :
               cache'[z][m] = cache[z][m] \/ (m \in Blobs /\ cache'[z][m] = "freed")
      BY <1>3 DEF PropVariantClear, StoreIInv, Caches
    <2>2. \A z \in Stores, m \in Names : cache'[z][m] \in
            Values \union {Absent} \union (IF m \in Blobs THEN {"freed"} ELSE {})
      BY <2>1 DEF StoreIInv, StoreTypeOK
    <2>3. CacheFirst'
      <3>1. \A z \in Stores, m \in Names :
               cache'[z][m] = cache[z][m]
               \/ (cache[z][m] # Absent /\ cache'[z][m] = "freed")
        BY <1>3 DEF PropVariantClear, StoreIInv, Caches, GotOf
      <3> QED
        BY <1>3, <3>1 DEF PropVariantClear, history, StoreIInv, CacheFirst
    <2> QED
      BY <1>3, <2>1, <2>2, <2>3 DEF PropVariantClear, history, StoreIInv, StoreTypeOK, GotOf, FileCurrent,
                              StaleOnlyBehindOwnValue, Nothing
  <1>4. ASSUME NEW n \in Names, DeleteNamedValue(n) PROVE StoreIInv'
    BY <1>4 DEF DeleteNamedValue, history, StoreIInv, StoreTypeOK, GotOf, CacheFirst, FileCurrent,
                StaleOnlyBehindOwnValue, Nothing
  <1>5. CASE Restart
    <2>1. cache' \in Caches /\ \A z \in Stores, m \in Names : cache'[z][m] = Absent
      BY <1>5 DEF Restart, Empty, Caches
    <2>2. /\ FileCurrent' /\ lost' \subseteq Persisted
          /\ file' \in [Persisted -> Values \union {Absent, "cut"}]
          /\ latest' \in [Names -> Values \union {Absent}]
      <3>1. CASE UNCHANGED <<file, latest, lost>>
        BY <3>1 DEF StoreIInv, StoreTypeOK, FileCurrent
      <3>2. ASSUME NEW n \in Persisted, NEW v \in Values, file' = [file EXCEPT ![n] = "cut"],
                   latest' = [latest EXCEPT ![n] = v], lost' = lost \union {n}
            PROVE  /\ FileCurrent' /\ lost' \subseteq Persisted
                   /\ file' \in [Persisted -> Values \union {Absent, "cut"}]
                   /\ latest' \in [Names -> Values \union {Absent}]
        BY <3>2 DEF StoreIInv, StoreTypeOK, FileCurrent, Persisted, Names
      <3> QED
        BY <1>5, <3>1, <3>2 DEF Restart
    <2>3. CacheFirst' /\ first' \in [Stores -> [Names -> Values \union {Absent}]]
      BY <1>5, <2>1 DEF Restart, Empty, CacheFirst
    <2> QED
      BY <1>5, <2>1, <2>2, <2>3 DEF Restart, StoreIInv, StoreTypeOK, GotOf, StaleOnlyBehindOwnValue,
         Nothing
  <1>6. CASE UNCHANGED storeVars
    BY <1>6 DEF storeVars, history, StoreIInv, StoreTypeOK, GotOf, CacheFirst, FileCurrent,
                StaleOnlyBehindOwnValue
  <1> QED
    BY <1>1, <1>2, <1>3, <1>4, <1>5, <1>6 DEF StoreNext

\* A store never holds what it read, only what its driver set in this run.
THEOREM StoreTypeCorrect == StoreSpec => []StoreTypeOK
  <1>1. StoreIInv => StoreTypeOK
    BY DEF StoreIInv
  <1> QED
    BY InitStoreIInv, NextStoreIInv, <1>1, PTL DEF StoreSpec

\* An outdated value is the first that the same store has set in this run, or of
\* a name whose latest value did not reach its file.
THEOREM StalenessBounded == StoreSpec => []StaleOnlyBehindOwnValue
  <1>1. StoreIInv => StaleOnlyBehindOwnValue
    BY DEF StoreIInv
  <1> QED
    BY InitStoreIInv, NextStoreIInv, <1>1, PTL DEF StoreSpec

HIDE PropertyStoreAssumption

(***************************************************************************)
(* Replies.  ReplyIInv says that nothing of an answer is read before the   *)
(* request has come back; a read then depends on this request's size and   *)
(* information alone.                                                      *)
(***************************************************************************)
Untouched == pc # "next" => read = {} /\ listed.shown = listed.has /\ ~noted

ReplyIInv == ReplyTypeOK /\ Untouched /\ ReadsWhatWasAnswered

\* A size that was clamped bounds a loop by the buffer and by what was said.
LEMMA Clamped ==
  ASSUME NEW i \in Int, NEW room \in Nat
  PROVE  /\ clampInfoSize(i, room) \in 0..room
         /\ i >= 0 => clampInfoSize(i, room) <= i
         /\ i < 0 => clampInfoSize(i, room) = 0
  BY DEF clampInfoSize, Lowest

LEMMA Range0 == MaxInfo \in Nat /\ 0 \in -1..MaxInfo
  <1>1. MaxInfo \in Nat
    BY RepliesAssumption
  <1> QED
    BY <1>1

LEMMA Sizes ==
  ASSUME NEW q \in Requests
  PROVE  Size(q) \in Nat /\ Fixed(q) \in 0..Size(q) /\ Buffer[q].cleared \in BOOLEAN
  <1>1. q \in {"attributes", "property", "status", "template", "reset", "blank",
              "match", "records", "indicator", "count", "ownership", "mode"}
    BY DEF Requests, Buffer
  <1>2. q = "attributes" => Size(q) = 4 /\ Fixed(q) = 2 /\ Buffer[q].cleared = FALSE
    BY DEF Buffer, Size, Fixed
  <1>3. q = "property" => Size(q) = 1 /\ Fixed(q) = 1 /\ Buffer[q].cleared = TRUE
    BY DEF Buffer, Size, Fixed
  <1>4. q = "status" => Size(q) = 3 /\ Fixed(q) = 2 /\ Buffer[q].cleared = FALSE
    BY DEF Buffer, Size, Fixed
  <1>5. q = "template" => Size(q) = 2 /\ Fixed(q) = 0 /\ Buffer[q].cleared = TRUE
    BY DEF Buffer, Size, Fixed
  <1>6. q = "reset" => Size(q) = 2 /\ Fixed(q) = 2 /\ Buffer[q].cleared = TRUE
    BY DEF Buffer, Size, Fixed
  <1>7. q = "blank" => Size(q) = 3 /\ Fixed(q) = 2 /\ Buffer[q].cleared = FALSE
    BY DEF Buffer, Size, Fixed
  <1>8. q = "match" => Size(q) = 3 /\ Fixed(q) = 2 /\ Buffer[q].cleared = TRUE
    BY DEF Buffer, Size, Fixed
  <1>9. q = "records" => Size(q) = 3 /\ Fixed(q) = 1 /\ Buffer[q].cleared = TRUE
    BY DEF Buffer, Size, Fixed
  <1>10. q = "indicator" => Size(q) = 2 /\ Fixed(q) = 2 /\ Buffer[q].cleared = TRUE
    BY DEF Buffer, Size, Fixed
  <1>11. q = "count" => Size(q) = 1 /\ Fixed(q) = 1 /\ Buffer[q].cleared = TRUE
    BY DEF Buffer, Size, Fixed
  <1>12. q = "ownership" => Size(q) = 0 /\ Fixed(q) = 0 /\ Buffer[q].cleared = TRUE
    BY DEF Buffer, Size, Fixed
  <1>13. q = "mode" => Size(q) = 0 /\ Fixed(q) = 0 /\ Buffer[q].cleared = TRUE
    BY DEF Buffer, Size, Fixed
  <1>14. Size(q) \in Nat /\ Fixed(q) \in 0..Size(q)
    BY <1>1, <1>2, <1>3, <1>4, <1>5, <1>6, <1>7, <1>8, <1>9, <1>10, <1>11, <1>12, <1>13
  <1>15. Buffer[q].cleared \in BOOLEAN
    BY <1>1, <1>2, <1>3, <1>4, <1>5, <1>6, <1>7, <1>8, <1>9, <1>10, <1>11, <1>12, <1>13, Zenon
  <1> QED
    BY <1>14, <1>15

\* Reading a prefix of the buffer that the driver answered for.
LEMMA PrefixRead ==
  ASSUME ReplyIInv, pc = "read", NEW n \in Int, Reads(n), Plainly,
         n <= Size(req), ~Buffer[req].cleared => n <= 0 \/ n <= info
  PROVE  ReplyIInv'
  <1>1. Size(req) \in Nat /\ info \in Int
    BY Sizes DEF ReplyIInv, ReplyTypeOK
  <1>2. /\ read' = 1..n /\ pc' = "next"
        /\ UNCHANGED <<api, req, told, written, info, status, complete, listed, noted>>
    BY DEF Reads, Plainly, reply
  <1>3. read' \subseteq 1..Size(req) /\ (~Buffer[req].cleared => read' \subseteq 1..info)
    BY <1>1, <1>2
  <1> QED
    BY <1>2, <1>3 DEF ReplyIInv, ReplyTypeOK, Untouched, ReadsWhatWasAnswered, Size

\* The request on its way to the driver and back.
LEMMA OnTheWay ==
  ASSUME ReplyIInv, pc \in {"wait", "read"}, pc' \in {"wait", "read"},
         UNCHANGED <<req, output>>, ReplyTypeOK'
  PROVE  ReplyIInv'
  BY DEF ReplyIInv, Untouched, ReadsWhatWasAnswered, output, Size

LEMMA InitReplyIInv == ReplyInit => ReplyIInv
  <1> SUFFICES ASSUME ReplyInit PROVE ReplyIInv
    OBVIOUS
  <1>1. req \in Requests /\ req \in V2Requests /\ Size(req) = 0 /\ Buffer[req].cleared
    BY DEF ReplyInit, Requests, V2Requests, Buffer, Size
  <1>2. ReplyTypeOK
    <2>1. written \in 0..told /\ told \in {0, Size(req)} /\ info \in -1..MaxInfo
      BY Range0 DEF ReplyInit
    <2>2. pc \in {"next", "wait", "read"} /\ status \in {"ok", "failed"} /\ complete \in BOOLEAN
      BY DEF ReplyInit
    <2> QED
      BY <1>1, <2>1, <2>2 DEF ReplyTypeOK
  <1>3. listed.shown = 0 /\ listed.has = 0 /\ ~noted /\ read = {} /\ pc = "next"
    BY DEF ReplyInit
  <1> QED
    BY <1>1, <1>2, <1>3 DEF ReplyIInv, Untouched, ReadsWhatWasAnswered

\* Calls of the driver, and the wait for it.
LEMMA DriverKeepsIInv ==
  ASSUME ReplyIInv,
         \/ \E q \in Requests : Dispatch(q)
         \/ AskSize \/ Retrieve \/ DriverWrites \/ Wait
         \/ \E i \in -1..MaxInfo : SetInformation(i)
         \/ \E s \in {"ok", "failed"} :
              Complete(s) \/ \E i \in -1..MaxInfo : CompleteWithInformation(s, i)
  PROVE  ReplyIInv'
  <1>0. ReplyTypeOK /\ Size(req) \in Nat
    BY Sizes DEF ReplyIInv, ReplyTypeOK
  <1>1. ASSUME NEW q \in Requests, Dispatch(q) PROVE ReplyIInv'
    <2>1. Size(q) \in Nat
      BY Sizes
    <2>2. ReplyTypeOK'
      <3>1. written' \in 0..told' /\ told' \in {0, Size(req)'} /\ info' \in -1..MaxInfo
        BY <1>1, Range0 DEF Dispatch
      <3>2. /\ pc' \in {"next", "wait", "read"} /\ status' \in {"ok", "failed"}
            /\ complete' \in BOOLEAN
        BY <1>1 DEF Dispatch
      <3>3. req' \in Requests /\ (api' = "v2" => req' \in V2Requests)
        BY <1>1 DEF Dispatch
      <3> QED
        BY <3>1, <3>2, <3>3 DEF ReplyTypeOK
    <2>3. listed'.shown = 0 /\ listed'.has = 0 /\ ~noted' /\ read' = {}
      BY <1>1 DEF Dispatch
    <2> QED
      BY <2>2, <2>3 DEF ReplyIInv, Untouched, ReadsWhatWasAnswered
  <1>2. CASE AskSize \/ Retrieve
    <2>1. ReplyTypeOK'
      BY <1>0, <1>2 DEF AskSize, Retrieve, ReplyTypeOK, output, Size, ReplyIInv
    <2> QED
      BY <1>2, <2>1, OnTheWay DEF AskSize, Retrieve
  <1>3. CASE DriverWrites
    <2>1. ReplyTypeOK'
      BY <1>0, <1>3 DEF DriverWrites, ReplyTypeOK, output, Size
    <2> QED
      BY <1>3, <2>1, OnTheWay DEF DriverWrites
  <1>4. CASE Wait
    <2>1. ReplyTypeOK'
      BY <1>0, <1>4 DEF Wait, ReplyTypeOK, reply, output, Size
    <2> QED
      BY <1>4, <2>1, OnTheWay DEF Wait
  <1>5. ASSUME NEW i \in -1..MaxInfo, SetInformation(i) PROVE ReplyIInv'
    <2>1. ReplyTypeOK'
      BY <1>0, <1>5 DEF SetInformation, ReplyTypeOK, output, Size
    <2> QED
      BY <1>5, <2>1, OnTheWay DEF SetInformation
  <1>6. ASSUME NEW s \in {"ok", "failed"}, Complete(s) PROVE ReplyIInv'
    <2>1. ReplyTypeOK'
      BY <1>0, <1>6 DEF Complete, ReplyTypeOK, output, Size
    <2> QED
      BY <1>6, <2>1, OnTheWay DEF Complete
  <1>7. ASSUME NEW s \in {"ok", "failed"}, NEW i \in -1..MaxInfo, CompleteWithInformation(s, i)
        PROVE  ReplyIInv'
    <2>1. ReplyTypeOK'
      BY <1>0, <1>7 DEF CompleteWithInformation, ReplyTypeOK, output, Size
    <2> QED
      BY <1>7, <2>1, OnTheWay DEF CompleteWithInformation
  <1> QED
    BY <1>1, <1>2, <1>3, <1>4, <1>5, <1>6, <1>7

\* GET_ATTRIBUTES prints the formats there is room for, and says if it is fewer.
LEMMA AttributesKeepIInv == ReplyIInv /\ getAttributes => ReplyIInv'
  <1> SUFFICES ASSUME ReplyIInv, getAttributes PROVE ReplyIInv'
    OBVIOUS
  <1>1. req = "attributes" /\ pc = "read" /\ info \in Int
    BY DEF getAttributes, Reading, ReplyIInv, ReplyTypeOK
  <1>2. Size(req) = 4 /\ Fixed(req) = 2 /\ Buffer[req].cleared = FALSE
    BY <1>1 DEF Size, Fixed, Buffer
  <1>3. PICK entries \in 0..MaxInfo :
          LET capacity == clampInfoSize(info, Size(req)) - Fixed(req)
              shown == Lowest(entries, capacity)
          IN  IF Failed \/ info < Fixed(req)
                THEN Reads(0) /\ Plainly
                ELSE /\ Reads(Fixed(req) + shown)
                     /\ listed' = [has |-> entries, shown |-> shown]
                     /\ noted' = (shown # entries)
    BY DEF getAttributes
  <1>4. CASE Failed \/ info < Fixed(req)
    BY <1>1, <1>2, <1>3, <1>4, PrefixRead
  <1>5. CASE ~(Failed \/ info < Fixed(req))
    <2> DEFINE capacity == clampInfoSize(info, 4) - 2
               shown == Lowest(entries, capacity)
    <2>1. /\ info >= 2 /\ capacity \in 0..2 /\ capacity <= info - 2
          /\ 2 + capacity >= 4 \/ 2 + capacity >= info
      BY <1>1, <1>2, <1>5 DEF clampInfoSize, Lowest
    <2>2. entries \in Nat
      BY Range0
    <2> HIDE DEF capacity
    <2>3. /\ shown \in 0..2 /\ 2 + shown <= info /\ shown <= entries
          /\ shown < entries => 2 + shown >= 4 \/ 2 + shown >= info
      BY <1>1, <2>1, <2>2 DEF Lowest
    <2>4. /\ Reads(2 + shown) /\ listed' = [has |-> entries, shown |-> shown]
          /\ noted' = (shown # entries)
      BY <1>2, <1>3, <1>5 DEF capacity
    <2> HIDE DEF shown
    <2>5. /\ read' = 1..(2 + shown) /\ pc' = "next"
          /\ UNCHANGED <<api, req, told, written, info, status, complete>>
      BY <2>4 DEF Reads, reply
    <2>6. read' \subseteq 1..4 /\ read' \subseteq 1..info
      BY <1>1, <2>3, <2>5
    <2>7. listed'.shown = shown /\ listed'.has = entries
      BY <2>4
    <2>8. noted' <=> listed'.shown < listed'.has
      <3>1. shown # entries <=> shown < entries
        BY <2>2, <2>3
      <3>2. noted' <=> shown # entries
        BY <2>4, Zenon
      <3> QED
        BY <2>7, <3>1, <3>2, Zenon
    <2>9. listed'.shown < listed'.has => 2 + listed'.shown >= 4 \/ 2 + listed'.shown >= info
      BY <2>3, <2>7
    <2> QED
      BY <1>1, <1>2, <2>5, <2>6, <2>8, <2>9
         DEF ReplyIInv, ReplyTypeOK, Untouched, ReadsWhatWasAnswered, Size
  <1> QED
    BY <1>4, <1>5

\* The requests whose reply is a structure, a dump or nothing.
LEMMA ReadersKeepIInv ==
  ASSUME ReplyIInv,
         \/ getSensorStatus \/ resetIoctl \/ reset \/ getTemplate \/ identifyAll
         \/ queryAllRecords \/ getIndicator \/ getPropertyExample \/ getDatabaseSize
         \/ resetOwnership \/ setMode \/ V2Reads
  PROVE  ReplyIInv'
  <1>0. req \in Requests /\ info \in Int
    BY DEF ReplyIInv, ReplyTypeOK
  <1>1. Size(req) \in Nat /\ Fixed(req) \in 0..Size(req)
    BY <1>0, Sizes
  <1>2. CASE getSensorStatus \/ resetIoctl
    <2>1. PICK n \in {0, Fixed(req)} : Reads(n) /\ Plainly /\ pc = "read" /\ (n = 0 \/ n <= info)
      BY <1>0, <1>1, <1>2 DEF getSensorStatus, resetIoctl, Reading
    <2> QED
      BY <1>1, <2>1, PrefixRead
  <1>3. ASSUME NEW n \in Int, Reads(n), Plainly, pc = "read", n <= Size(req), Buffer[req].cleared
        PROVE  ReplyIInv'
    BY <1>3, PrefixRead
  <1>4. CASE reset
    <2>1. Buffer[req].cleared
      BY <1>4 DEF reset, Reading, Buffer
    <2>2. clampInfoSize(info, Size(req)) \in 0..Size(req)
      BY <1>0, <1>1, Clamped
    <2> QED
      BY <1>1, <1>3, <1>4, <2>1, <2>2 DEF reset, Reading
  <1>5. CASE getTemplate
    <2>1. Buffer[req].cleared
      BY <1>5 DEF getTemplate, Reading, Buffer
    <2>2. clampInfoSize(info, Size(req)) \in 0..Size(req)
      BY <1>0, <1>1, Clamped
    <2> QED
      BY <1>1, <1>3, <1>5, <2>1, <2>2 DEF getTemplate, Reading
  <1>6. CASE identifyAll
    <2>1. Buffer[req].cleared
      BY <1>6 DEF identifyAll, Reading, Buffer
    <2>2. (IF info > 0 THEN Lowest(info, Size(req)) ELSE 0) \in 0..Size(req)
      BY <1>0, <1>1 DEF Lowest
    <2> QED
      BY <1>1, <1>3, <1>6, <2>1, <2>2 DEF identifyAll, Reading
  <1>7. CASE queryAllRecords
    <2>1. Buffer[req].cleared
      BY <1>7 DEF queryAllRecords, Reading, Buffer
    <2>2. /\ pc = "read" /\ req = "records"
          /\ \E count \in 0..MaxInfo :
               LET shown == Lowest(count, Size(req) - Fixed(req))
               IN  IF Failed
                     THEN Reads(0) /\ Plainly
                     ELSE /\ Reads(Fixed(req) + shown)
                          /\ listed' = [has |-> count, shown |-> shown] /\ UNCHANGED noted
      BY <1>7 DEF queryAllRecords, Reading
    <2>3. CASE Failed
      BY <1>1, <1>3, <2>1, <2>2, <2>3
    <2>4. CASE ~Failed
      <3>1. PICK count \in 0..MaxInfo :
              /\ Reads(Fixed(req) + Lowest(count, Size(req) - Fixed(req)))
              /\ listed' = [has |-> count, shown |-> Lowest(count, Size(req) - Fixed(req))]
              /\ UNCHANGED noted
        BY <2>2, <2>4
      <3>2. PICK shown : shown = Lowest(count, Size(req) - Fixed(req))
        OBVIOUS
      <3>3. /\ Fixed(req) + shown \in 0..Size(req)
            /\ shown < count => Fixed(req) + shown >= Size(req)
        BY <1>1, <3>2, Range0 DEF Lowest
      <3>4. /\ read' = 1..(Fixed(req) + shown) /\ pc' = "next"
            /\ listed'.shown = shown /\ listed'.has = count
            /\ UNCHANGED <<api, req, told, written, info, status, complete, noted>>
        BY <3>1, <3>2 DEF Reads, reply
      <3>5. read' \subseteq 1..Size(req)
        BY <1>1, <3>3, <3>4
      <3>6. ~noted
        BY <2>2 DEF ReplyIInv, Untouched
      <3> QED
        BY <1>1, <2>1, <2>2, <3>3, <3>4, <3>5, <3>6
           DEF ReplyIInv, ReplyTypeOK, Untouched, ReadsWhatWasAnswered, Size, Fixed
    <2> QED
      BY <2>3, <2>4
  <1>8. CASE getIndicator \/ getPropertyExample \/ getDatabaseSize \/ resetOwnership \/ setMode
    <2>1. Buffer[req].cleared /\ pc = "read"
      BY <1>8 DEF getIndicator, getPropertyExample, getDatabaseSize, resetOwnership, setMode,
                  Reading, Buffer
    <2> QED
      BY <1>1, <1>3, <1>8, <2>1
         DEF getIndicator, getPropertyExample, getDatabaseSize, resetOwnership, setMode
  <1>9. CASE V2Reads
    <2>1. req \in V2Requests /\ Buffer[req].cleared
      BY <1>9 DEF V2Reads, ReplyIInv, ReplyTypeOK, V2Requests, Buffer
    <2>2. Lowest(Unsigned(info), Size(req)) \in 0..Size(req)
      BY <1>0, <1>1, Range0 DEF Lowest, Unsigned
    <2> QED
      BY <1>1, <1>3, <1>9, <2>1, <2>2 DEF V2Reads
  <1> QED
    BY <1>2, <1>4, <1>5, <1>6, <1>7, <1>8, <1>9

LEMMA NextReplyIInv == ReplyIInv /\ [ReplyNext]_replyVars => ReplyIInv'
  <1> SUFFICES ASSUME ReplyIInv, [ReplyNext]_replyVars PROVE ReplyIInv'
    OBVIOUS
  <1>1. CASE ReplyNext
    BY <1>1, DriverKeepsIInv, AttributesKeepIInv, ReadersKeepIInv DEF ReplyNext
  <1>2. CASE UNCHANGED replyVars
    BY <1>2 DEF replyVars, reply, output, ReplyIInv, ReplyTypeOK, Untouched,
       ReadsWhatWasAnswered, Size
  <1> QED
    BY <1>1, <1>2

\* The driver is told the size of the buffer of its request and writes no more.
THEOREM ReplyTypeCorrect == ReplySpec => []ReplyTypeOK
  <1>1. ReplyIInv => ReplyTypeOK
    BY DEF ReplyIInv
  <1> QED
    BY InitReplyIInv, NextReplyIInv, <1>1, PTL DEF ReplySpec

\* Whatever size the driver reports, the program reads within the buffer and,
\* where it had not cleared it, within what was reported; a listing leaves an
\* entry out only for want of room, silently in the case of the records.
THEOREM ReadsCorrect == ReplySpec => []ReadsWhatWasAnswered
  <1>1. ReplyIInv => ReadsWhatWasAnswered
    BY DEF ReplyIInv
  <1> QED
    BY InitReplyIInv, NextReplyIInv, <1>1, PTL DEF ReplySpec
=============================================================================
