---------------------------- MODULE PropertyStore ----------------------------
(***************************************************************************)
(* HostNamedPropertyStore: the named values a UMDF 1 driver keeps between  *)
(* its runs.  Every Retrieve call makes a store of its own, with its own   *)
(* cache m_store; what a restart finds is in one file per name.            *)
(*                                                                         *)
(* SetNamedValue() has no error path: a file that cannot be written is     *)
(* not noticed, and a process killed in the middle leaves it truncated.    *)
(***************************************************************************)
EXTENDS Naturals

CONSTANTS
  Stores,      \* stores of one run of the driver
  Blobs,       \* CalibrationData, kept in <name>.blob
  Uints,       \* LastUpdateSystemTimeStamp, OldCalDataDeleted: <name>.uint
  Flags,       \* PairingInProcess and the other names that read as FALSE
  Others,      \* names without a reader
  Values,
  Absent       \* no value in a cache, no file

Names == Blobs \union Uints \union Flags \union Others
Persisted == Blobs \union Uints

ASSUME PropertyStoreAssumption ==
  /\ Blobs \intersect Uints = {} /\ Persisted \intersect (Flags \union Others) = {}
  /\ Absent \notin Values /\ Absent \notin {"cut", "freed"}
  /\ Values \intersect {"cut", "freed"} = {}

VARIABLES
  cache,       \* m_store of each store
  file,        \* contents of the files
  got,         \* the last value a driver was given
  latest,      \* history: the value set last, by any store in any run
  lost,        \* history: names whose latest value did not reach the file
  first        \* history: the value each store has set first in this run

history == <<latest, lost, first>>
storeVars == <<cache, file, got, history>>

Nothing == [store |-> Absent, name |-> Absent, value |-> Absent, own |-> FALSE]
Empty == [s \in Stores |-> [n \in Names |-> Absent]]

(***************************************************************************)
(* Reading                                                                 *)
(***************************************************************************)
\* An empty blob file reads like a missing one, and the value is cleared; a
\* truncated number reads as zero.
Load(n) ==
  CASE n \in Blobs /\ file[n] = "cut" -> "cleared"
    [] n \in Uints /\ file[n] = "cut" -> "zero"
    [] n \in Persisted /\ file[n] = Absent -> "cleared"
    [] n \in Persisted /\ file[n] \in Values -> file[n]
    [] n \in Flags -> "false"
    [] n \in Others -> "notimpl"

\* The cache is asked first, and is not filled from the file.
GetNamedValue_Caches(s, n) ==
  LET v == IF cache[s][n] # Absent THEN cache[s][n] ELSE Load(n)
  IN  /\ got' = [store |-> s, name |-> n, value |-> v, own |-> cache[s][n] # Absent]
      /\ cache' = [cache EXCEPT ![s][n] = v]
      /\ UNCHANGED <<file, history>>
GetNamedValue(s, n) ==
  LET own == cache[s][n] # Absent
  IN  /\ got' = [store |-> s, name |-> n, own |-> own,
                 value |-> IF own THEN cache[s][n] ELSE Load(n)]
      /\ UNCHANGED <<cache, file, history>>

\* A cached blob is handed out by reference: a driver that clears the value it
\* was given, as it must with a loaded one, frees what the cache points to.
PropVariantClear ==
  /\ got # Nothing
  /\ cache' = IF got.own /\ got.name \in Blobs
                THEN [cache EXCEPT ![got.store][got.name] = "freed"] ELSE cache
  /\ got' = Nothing
  /\ UNCHANGED <<file, history>>

(***************************************************************************)
(* Writing                                                                 *)
(***************************************************************************)
\* m_store.insert() leaves a name alone that it has already.
Insert(s, n, v) == [cache EXCEPT ![s][n] = IF @ = Absent THEN v ELSE @]

\* ofstream replaces the file, fails to open it, or fails after truncating it.
Write_OnlyFirst(s, n, v) ==
  IF n \in Persisted /\ cache[s][n] = Absent
    THEN /\ file' = [file EXCEPT ![n] = v] /\ lost' = lost \ {n}
    ELSE UNCHANGED <<file, lost>>
Write(s, n, v) ==
  IF n \in Persisted
    THEN \/ file' = [file EXCEPT ![n] = v] /\ lost' = lost \ {n}
         \/ UNCHANGED file /\ lost' = lost \union {n}
         \/ file' = [file EXCEPT ![n] = "cut"] /\ lost' = lost \union {n}
    ELSE UNCHANGED <<file, lost>>

SetNamedValue(s, n, v) ==
  /\ Write(s, n, v)
  /\ cache' = Insert(s, n, v)
  /\ latest' = [latest EXCEPT ![n] = v] /\ got' = Nothing
  /\ first' = IF first[s][n] = Absent THEN [first EXCEPT ![s][n] = v] ELSE first

\* DeleteNamedValue() prints the name; GetNameCount() answers 0.
DeleteNamedValue(n) == got' = Nothing /\ UNCHANGED <<cache, file, history>>

(***************************************************************************)
(* The process                                                             *)
(***************************************************************************)
\* The caches die with the process, which may be killed inside a write.
Restart ==
  /\ cache' = Empty /\ got' = Nothing /\ first' = Empty
  /\ \/ UNCHANGED <<file, latest, lost>>
     \/ \E n \in Persisted, v \in Values :
          /\ file' = [file EXCEPT ![n] = "cut"]
          /\ latest' = [latest EXCEPT ![n] = v] /\ lost' = lost \union {n}

StoreInit ==
  /\ cache = Empty /\ file = [n \in Persisted |-> Absent] /\ got = Nothing
  /\ latest = [n \in Names |-> Absent] /\ lost = {} /\ first = Empty

StoreNext ==
  \/ \E s \in Stores, n \in Names :
       \/ GetNamedValue(s, n)
       \/ \E v \in Values : SetNamedValue(s, n, v)
  \/ PropVariantClear
  \/ \E n \in Names : DeleteNamedValue(n)
  \/ Restart

StoreSpec == StoreInit /\ [][StoreNext]_storeVars

(***************************************************************************)
(* Properties                                                              *)
(***************************************************************************)
\* The types; a store never holds what it read, only what its driver set in
\* this run, and a blob of it may be gone.
StoreTypeOK ==
  /\ \A s \in Stores, n \in Names :
       cache[s][n] \in Values \union {Absent} \union (IF n \in Blobs THEN {"freed"} ELSE {})
  /\ file \in [Persisted -> Values \union {Absent, "cut"}]
  /\ latest \in [Names -> Values \union {Absent}] /\ lost \subseteq Persisted
  /\ first \in [Stores -> [Names -> Values \union {Absent}]] /\ got.own \in BOOLEAN

\* Several stores, one file: a driver is given an outdated value of a persisted
\* name only if it is the first that the same store has set in this run
\* (or, for a blob, what is left of it after the driver cleared it), or if the
\* file of the latest value was not written.  What another store or an earlier
\* run has set is read from the file, each time.
StaleOnlyBehindOwnValue ==
  got # Nothing /\ got.name \in Persisted =>
    \/ got.value = latest[got.name]
    \/ latest[got.name] = Absent /\ got.value = "cleared"
    \/ first[got.store][got.name] # Absent
       /\ got.value \in {first[got.store][got.name], "freed"}
    \/ got.name \in lost
=============================================================================
