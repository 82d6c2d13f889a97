# synaWudfBioUsb-sandbox: verification project

The repository talks to a Synaptics/Validity fingerprint sensor in two ways. `hello.cc`
loads the vendor's Windows driver as a library, plays the WinBio service and the UMDF
framework for it (`host_umdf1.h`), and runs enrolment, identification and database
commands through the driver's IOCTLs; `hello-v2.cc` does the same for UMDF 2 drivers
(`host_umdf2.h`). `sensor.py` is a driver of its own: it opens the USB device, pairs,
builds a TLS session with the sensor and runs the same commands directly.

This directory holds TLA+ modules for the parts with control worth checking, the TLC runs
that check them on small instances, and proofs by TLAPS. `PROJECT.json` lists every run,
the source lines behind every definition (`map`), the hazards and the theorems.

## 1. Inventory

| Component | State | Operations | Hard behaviour | What makes it correct |
|---|---|---|---|---|
| `hello.cc` enroll | loop counter, `enroll_interrupted`, SIGINT disposition; on the device: session, template, records | `enroll`, `calibrate`, `discardEnrollment`, `commitEnrollment`, the signal handler | Ctrl+C on another thread, failed and rejected samples, a fallback commit, a killed process with a session open | the printed outcome matches the database; a finger is stored twice only by a failed check; Ctrl+C is prompt; every run ends |
| `hello.cc` identify, identify-all | capture request on the stack, indicator, the engine's template list | `identify`, `identifyFeatureSet`, `identifyAll`, `setIndicator` | completion racing the 60 s timeout and OnCancel; a request left pending | only a captured sample is matched, against the intended list; nothing is written to a frame that is gone without the full wait; every return asks for the light to go off; both return |
| `hello.cc` other commands | none of their own | list-db, clear-db, delete-record, reset, attributes | a database larger than the query buffer; an identity that matches too much | a listing stays in its buffer; only named records are deleted |
| `hello.cc` start-up | `goIdle`, driver and device objects | `main`: argument checks, load, OnInitialize, OnDeviceAdd, OnPrepareHardware, OnD0Entry, the command, release; `ResumeIdle` | early returns in the middle of the start-up order; ResumeIdle from another thread | a command meets a ready device; success means released; no lost wake-up |
| `host_umdf1.h` requests and pipes | `complete`, `completionStatus`, `informationSize`, cancel callback, pipe, setup packet, memory objects, `m_sent` | `Send`, `Complete`, `SetInformation`, `MarkCancelable`, the USB factory, device and pipes | a request formatted, failed and formatted again for another kind of transfer; sizes reported by the driver | a request never carries parts of an earlier transfer; the byte count is that of the last one; the program reads within its buffers |
| `host_umdf1.h` property store | `m_store` per store, one file per name | `GetNamedValue`, `SetNamedValue`, `DeleteNamedValue` | several caches over the same files, a write that fails or is cut short, a restart | a store that has not set a name in this run reads its latest value, and one that has never reads anything but the first it set |
| `host_umdf1.h` other objects | none | device, queue, driver: print and return | none | none |
| `host_umdf2.h`, `hello-v2.cc` | function table, the first queue, WinUSB handle, reader callback and threads, request objects | the UMDF 2 functions, enrol and identify again | reader threads started again, synchronous reads of the same endpoint, failing reads, requests the driver only queues | no packet is lost or seen twice; what arrives is delivered; the exit code agrees with the device |
| `breakpoints.c` | `breakpoints`, `orig_byte`, `last_hit` | `set_bps`, the exception filter | threads meeting breakpoints at once, long jumps | a thread that is alone finds every breakpoint armed again |
| `sensor.py` enroll | `_enroll_active`, progress trackers; on the device: session, progress, record | `enroll`, `_enroll_one_sample`, `_commit_enrollment`, `discard_enrollment`, `restart_session` | lost answers, three trackers fed by answers of different length, Ctrl+C and exceptions everywhere | a terminal error leaves nothing behind; an interrupt discards the session |
| `sensor.py` deleting commands | the GUIDs seen at each look | `clear_local_db`, `erase_database`, `erase_database_compat`, `delete_record_by_guid` | a manager is deleted before it is known whose it is; a lost reply looks like an empty list | what is reported happened; foreign records survive |
| `sensor.py` identify, listing | none kept | `identify`, `identify_all`, `list_db`, probes | interrupt packets out of order | a match is reported only for a match |
| `sensor.py` initialisation and TLS | sequence numbers, keys, session ticket of the pairing | `init_device`, `connect`, `tls_send`, `close` | one side of the session ahead of the other | an answer belongs to the command sent |
| pairing data, cryptography | files | parse, derive, encrypt | none | data transformations |
| `proto-parse.py`, notes, scripts | none | offline printing | none | none |

How they interact. `hello.cc` calls driver callbacks on its own thread and polls
`HostRequest::complete`; the driver completes requests from threads of its own, and the C
runtime runs the SIGINT handler on yet another. The device outlives every process, so a
session, a template list and the records one run leaves are the initial state of the next.
In `sensor.py` everything is one thread and one USB device: each command is an OUT and an
IN transfer, with Ctrl+C (an exception at any bytecode) and the transport's failures as the
only concurrency.

## 2. Plan

Done, in the order of importance (what can destroy or misreport biometric records first):

1. `EnrollProtocol`, the abstract protocol of an enrolment; `Enroll`, the command of
   `hello.cc`, shown to implement it; `EnrollProofs`.
2. `SensorStorage`, the deleting commands of `sensor.py`; `SensorStorageProofs`.
3. `SensorEnroll`, the enrolment of `sensor.py`; `SensorEnrollProofs`.
4. `Identify`, the capture request against its timeout; `IdentifyProofs`.
5. `HostMain`, the whole of `main` around the commands, for both frameworks, and the
   database commands of `hello.cc`; `HostMainProofs`.
6. `UsbTransfer`, what a reused USB request promises, and `UsbRequest`, `HostRequest::Send`
   with the target objects of `host_umdf1.h`, shown to implement it; `HostUmdf1Proofs`.
7. `PropertyStore`: several stores over the same files; `HostUmdf1Proofs`.
8. `Wdf2Host`, the function table of UMDF 2 with its reader threads, and `Wdf2Commands`,
   which composes it with the enroll and identify commands of `hello-v2.cc`; `Wdf2Proofs`.
9. `Breakpoints`, the exception filter with several threads; `BreakpointsProofs`.
10. `Replies`: the requests that print an answer, under both frameworks;
    `HostUmdf1Proofs`.

Next:

11. `SensorTls`: `connect`, `tls_send` and `init_device`, with the record sequence numbers
    of both sides and the reply Ctrl+C leaves in the device; abstract specification: each
    answer handed to a command is the answer to it, or the command raises.
    `SensorStorage` and `SensorEnroll` see only its `link`; the abstract specification of
    `SensorTls` is what justifies that.
12. `InfParser`: the line loop of `parseInfFile`, whose early exit drops a version line
    that comes last (`hello.cc:3326`).
13. `sensor.py`'s identify and listing commands.

## 3. Modules

`UsbRequest`, `PropertyStore` and `Replies` are read together by the module with their
theorems, so their specifications carry a prefix (`RequestSpec`, `StoreTypeOK`,
`ReplyInit`); in all other modules they are plain `Init`, `Next`, `Spec` and `TypeOK`.

### EnrollProtocol and Enroll

`pc` names the outstanding request. A host action handles a completed request and issues
the next (`OnDeviceIoControl`, then the polling loop); a driver action completes it. The
lines before and after a request belong to the actions `AfterX` and `AnswerX`:
`AfterCreate` is the code between CREATE_ENROLLMENT's completion and the loop, `LoopTop`
the head of the `for`, `AfterUpdate` the break conditions, and so on; `Start` and `Release`
are the parts of `main` around the command. `Start` may happen `MaxRuns` times, on the
device as the last run left it. `CtrlCHandled` is the handler, which runs on a thread of
its own and therefore between any two steps; the C runtime resets the disposition before
the call, and the model allows both that and a runtime that keeps it. `CtrlCKills` is the
default disposition.

`EnrollProtocol` is what an enrolment client owes the engine: check after the last sample,
store only after a check that found no match, one store per session, drop only while still
collecting. `FollowsProtocol` maps session, template, check and records by name.

### Identify

The capture request and its output buffer are locals of the command, so a completion after
`pc = "returned"` is a write to a dead frame (`stray`). `Complete()` is two steps, status
and then flag, in program order: `mk` builds without optimisation. `UnmarkCancelable()`
changes nothing in the code, so OnCancel and the completion may cross: `crossed` remembers
that OnCancel completed a capture whose buffer the thread had filled. The grace loop then
ends at once, and the thread's own completion may come after the return. The other IOCTLs of
these commands are answered while the host waits for them and are one step each; that of
`setIndicator` may fail, which the code only prints (`SetIndicator`, with `refused` for a
light that was not turned off).

### HostMain

Each location is a stage of `main()`; a driver callback runs on the main thread and is one
step, which succeeds or leaves with the code's return value. `ResumeIdle` is called by a
thread of the driver and may come in any callback once its device exists, before or after
`ClearIdle`. `api` is the framework the INF asks for: from `Load` on the UMDF 1 and UMDF 2
programs are different paths with a dispatch each, and they differ where the code does
(who checks hex digits, who reads the qualifier, who releases). The commands without a
record or a listing are the one location `plain`; enroll and identify are modules of their
own. `device` is how far the driver was started, `db` the records, `before` what they were.

### SensorStorage

A manager entry is named by the GUID it owns. The host steps never look at that name: they
delete a manager and compare the lists of GUIDs before and after, as the code does because
the device does not tell. `link` is drawn in `Init`: on a `reliable` link every reply
arrives; on a `lossy` one any reply may be lost, or fail to decrypt, after which it is
`desync` and every reply is lost. The device executes the command in all cases. `QueryAll`
returns an empty list when a reply is lost, because `storage_query_all()` does. `Raise`
covers Ctrl+C, USB errors and fatal alerts.

### SensorEnroll

A step is a command and its answer. `count` is the device's progress; an answer carries
both counters ("full"), one ("short") or none ("bare"), and the three trackers of the code
are updated from whatever came. `Interrupt`, `FatalAlert` and `Crash` are the exceptions of
`main()`'s handlers: Ctrl+C, an alert, and everything that is not caught. `restart_session()`
is one step.

### UsbTransfer and UsbRequest

One `HostRequest` and the objects a driver needs to fill it. The driver calls in any order
it may: it formats before it sends, and may send a request that failed once more. Each
`FormatRequestFor...` sets the fields its code sets and leaves the others, so what an
earlier transfer left is there unless the code removes it. `asked` and `wire` are what the
driver wanted last and what WinUSB was called with last. `UsbTransfer` is the promise: a
carry is of the last format, with the memory the request holds. The refinement maps `asked`
and `outMem` by name and `wire` without its length. A write's memory goes to `inMem` while
`Send` reads `outMem` (`host_umdf1.h:1486`): the abstract `Format` says so (a write leaves
`held` alone), because no text of the repository promises otherwise; a first write of a
request therefore carries no bytes.

### PropertyStore

`cache` is `m_store` of each store, `file` what is on disk. `GetNamedValue` asks the cache
and then the file and does not fill the cache; `SetNamedValue` writes the file and inserts
into the cache, which keeps an older entry: `first` remembers the value each store set first
in this run. A write may succeed, not happen, or leave the
file truncated. `got` is the value a driver holds; `PropVariantClear` is what a driver does
with it, and frees the cache's blob because it was handed out by reference.

### Wdf2Host and Wdf2Commands

`Wdf2Host` has an action per function of the table that the program's behaviour depends on;
`bulkIn` is how far the driver has gone to the bulk-in pipe (device, interface, pipe), since
the reader starts only for that object. `WdfIoTargetStart` makes a thread each time it is
called, and `WdfIoTargetStop` is empty. A turn of a reader thread is a read and a delivery,
two steps: other threads read in between. Packets are numbered as the sensor sends them,
and `taken` are those that went to a synchronous read.

`Wdf2Commands` adds the command, a location per request. A driver's answer is "ok",
"failed" or "pended"; `wdf2_dispatch_ioctl()` does not wait, so a pended request counts as a
success, and its completion (`CompleteLater`) writes to a frame that is gone. A commit may also be answered with status 1, the failed write of `hello.cc:1999`
("one"); `answer` is the commit's answer. Deleting
memory objects that are on the stack (`host_umdf2.h:296`) is undefined: the request's
destructor goes on or ends the process (`DeleteStackMemory`).

### Breakpoints

A thread is running, trapped, past the assignment of `last_hit`, single-stepping, or
writing the int3 back: the points where another thread may come in. `disturbed` remembers
that two threads were at breakpoints at a time or that one left by a long jump: those are
the two ways in which the filter loses a breakpoint, and the property says there is no
third. The walk over `breakpoints[]`, which has no terminating entry, stops or ends the
process. `BreakpointsAssumption` asks for a table with entries of different addresses, which
the one in `hello.cc:3305` is: a second entry of an address would save the int3 of the first
as the driver's byte.

### Replies

Requests differ in the size of their buffer, the part read as a structure and whether the
program cleared it (`Buffer`); sizes are counted in such parts. The driver asks for the size,
writes no more, and reports any size, positive, negative or too large, in any of the three
ways it can. `read` are the parts the program then reads, `listed` the entries the answer
has and those that are passed on, `noted` whether the program says that some are not:
`getAttributes` does, `queryAllRecords` cuts the records short in silence. Strings are taken to end in their
fields, which `getAttributes` relies on.

## 4. Runs

Each passing run also has, for every property, a mutant in `PROJECT.json` that TLC
refutes.

| Run | Question | Bounds and why they are enough |
|---|---|---|
| `enroll` | types, outcome against database, duplicates, Ctrl+C, handler, protocol, termination | two fingers, three samples, three runs: enrol, be refused, enrol again after a failed check; the loop's bound is hit by a rejected, a failed and an incomplete sample |
| `enroll_ctrlc` | violated: "Discard enrollment on Ctrl+C" | one run suffices |
| `identify` | what is matched, when a completion meets a dead frame, when the light is left on, termination | four polls and a grace of two stand for 300 and 25: the driver can act before, between and after every poll |
| `storage` | what the four commands report and destroy, with and without losses | two own GUIDs, two foreign ones and an orphan: every order of deletions with two of each kind; all initial contents |
| `sensor_enroll` | what an error, an interrupt and a commit leave behind; the consecutive counts; termination | seven attempts with the code's limit of three: two full runs of unproductive samples and one in between; two steps of progress |
| `host_main` | what is deleted, which device is served, what success means, what a listing shows, the wake-up | three records: one the GUID names, one of the SID, one of nobody; a listing of two, so that the database can exceed it; every command line, every stage failing |
| `host_main_delete` | violated: usage of `delete-record guid` | as above |
| `usb_request` | is a reused request free of its past; the count of the last transfer | one pipe of each direction, two setup packets, two memory objects of up to two bytes: every kind of transfer after every other, failed, refused or sent |
| `property_store` | who sees an old value, and of what | two stores, one name of each kind that reads differently, two values; a restart at any time |
| `wdf2` | packets, which exit codes are false and why, delivery | two reader threads, so that a reader can be started over a running one; two packets, which two readers can deliver in the wrong order; one failing read; two samples, so that the loop is both repeated and exhausted |
| `breakpoints` | how a breakpoint gets lost | two threads, three breakpoints, the last two within `Near` of each other, as the two of the export function in the table are |
| `replies` | what is read of an answer, what a listing leaves out and when it says so | every request, reported sizes from -1 to one above the largest buffer |

`CHECK_DEADLOCK FALSE` is set because every one of these programs really ends.

The two violations are disagreements between the code and its own comments or
documentation. Others were met that are not runs of their own: every way out of the sample
loop leads to the commit, also with a template that is not complete, where the comment says
"keep going until template is complete" (`hello.cc:2093`, and the FIXME at 2208);
`identify-all` matches after 60 s without a capture, because the status is still the
constructor's S_OK (`hello.cc:2303`); `clear-local-db` destroys a foreign manager before it
can notice, where the docstring says "left untouched" (`sensor.py:2794`, 2841), which is why
`StopsInTime` lets it destroy one; `delete-record --force` reports success after a lost reply
(`sensor.py:2275`), which is why `ReportTruthful` is stated for a reliable link; a failed
commit ends in an AttributeError (`sensor.py:3158`); a write's memory is stored where `Send`
does not look (`host_umdf1.h:1486`), and `Send` returns a positive error code, which SUCCEEDED()
accepts (`host_umdf1.h:741`); under UMDF 2 a commit answered with status 1 exits with
0 (`hello-v2.cc:344`), which `hello.cc:1999` calls a failed write and treats "as failure",
and so does a commit the driver only queued; under UMDF 2 enrol leaves the light on, the output of a capture is read without
regard to its size, and the function table's comments count other indices than its entries;
a refusal to turn the light off is printed and not tried
again (`hello.cc:2757`); a capture that OnCancel completes while the driver is completing it
is written to a dead frame without any grace period (`hello.cc:1833`, `host_umdf1.h:689`);
the return on a duplicate leaves the SIGINT handler and the session behind
(`hello.cc:2254`); `queryAllRecords` returns as many records as its caller has room for
without saying so (`hello.cc:1682`), and `list-db` stops at `maxRecords` the same way
(`hello.cc:2465`); `identify` ignores the
status of SET_TEMPLATE_LIST (`hello.cc:1718`, the comment at 1695 says the list is
restricted); `clear-db` reports success when the reply to its last query is lost
(`sensor.py:2732`); "Always completes the full 11-command sequence" (`sensor.py:2964`)
while a sample returns early; the status in a commit's answer is never read
(`sensor.py:2906`); a plateau aborts and discards, as `TerminalLeavesNothing` has it,
where the comments call the samples enough to finalize ("3 consecutive no-change ->
enrollment complete", `sensor.py:3079`, and 3043, 2093); a capture error uses up an attempt,
where the docstring has it "skipped without counting" (`sensor.py:3106`); the first answer of another format counts as progress without resetting
the plateau count (`sensor.py:3072`), which is why `AbortsConsecutive` is stated for a
device that keeps to one format; "Validate arguments early before touching hardware"
(`hello.cc:3509`) while hex digits are looked at only in the running driver, whose device
is then left unreleased (`hello.cc:3734`); a failed OnInitialize or OnDeviceAdd exits with
0 (`hello.cc:3645`), and so does a command the UMDF 2 program has no branch for
(`hello-v2.cc:417`); the UMDF 2 program sends its command to a device that failed to start
and never releases it (`hello-v2.cc:64`); a `ResumeIdle` before `goIdle = 0`
(`hello.cc:3667`) is forgotten, which is why `IdleNotLost` begins after it.

## 5. Fairness

- The host polls with `Sleep` and always goes on: `WF(Host)` in `Enroll`, `Identify` and
  the sensor modules. In `HostMain` only the power callbacks and the polling of `goIdle`
  are fair: no request has to complete, and nothing obliges the driver to resume idle.
- The driver answers the IOCTLs that need no user (`WF(Driver)` in `Enroll`): the code
  itself waits for them without a limit, so nothing ends without this.
- The user is fair only in `TouchSpec`, under which `Enroll`'s `Terminates` is stated:
  `enroll()` waits for a capture without a limit. `Identify` and `SensorEnroll` have time
  limits, and their termination is checked for a user who never touches the sensor.
- A USB transfer of `sensor.py` returns or times out. Losses need no fairness: termination
  is checked for a device whose every reply is lost.
- A reader thread of UMDF 2 keeps running (`WF` of each thread while the program lives): its
  loop has no exit, and a failing read is followed by `Sleep(200)` and another. Reads fail a
  bounded number of times (`MaxErrors`): nothing is delivered by an endpoint that fails for
  ever. The command itself and the driver are not fair there.
- `UsbRequest`, `PropertyStore`, `Breakpoints` and `Replies` state safety only, without
  fairness: their steps are calls a driver makes or does not make.
- Ctrl+C, kills and crashes are never fair.

## 6. Proofs

`EnrollProofs` proves, for any set of fingers, any loop bound and any number of runs:
`TypeCorrect`, `OutcomeCorrect`, `DuplicateCorrect`, `InterruptCorrect`, `HandlerCorrect`
and `EnrollImplementsProtocol`. They rest on `EnrollAssumption` alone.

None of the properties is inductive. `IInv` adds, per part of the program, what is known by
the time `pc` reaches a location: `Sessions` (the device's session is open whenever the
host samples, checks or commits), `Checks` (the check's answer is the one the code branches
on, and a check that found nothing on a complete template means the finger is not stored),
`Outcome` (this run has a record exactly from the commit's "ok" on), `Answers` (which
answers a request can have), `Interrupts` (Ctrl+C came at this sample or the one before)
and `Handlers`. `Outcome` needs that no stored record is numbered above `run` (`Bounds`);
`DuplicateOnlyIfCheckFailed` needs `Checks` at the moment of the store, `Sessions` makes
the template known there. `NextIInv` has a step per action. The refinement maps every
step of the host to a stutter except `Start`, and each driver answer to `Begin`, `Sample`,
`Check`, `Store` or `Drop`.

`HostMainProofs` proves, for any records, any GUID and SID and any room for a listing:
`TypeCorrect`, `DeletionCorrect`, `DispatchCorrect`, `ReleaseCorrect`, `ListingCorrect`,
from `HostMainAssumption`. Its `IInv` adds `Paths` (which framework and which command can
be at a location: only `delete-record` with valid digits reaches the deletion, only
`clear-db` the erasure), `Power` (how far the device is at each location; this is what
makes the dispatch and the exit codes right) and `Listing` (`room` and `shown` are those of
the present database: nothing is deleted between the count and the query). A step that
touches neither records nor listing is `Quiet` and keeps the first half of the invariant by
one lemma.

`HostUmdf1Proofs` holds the theorems about the three modules of `host_umdf1.h`, which share
no variable; each has its own invariant and rests on its own module's assumption.

For any pipes, setup packets, memory objects and buffer sizes: `RequestTypeCorrect`,
`CountCorrect` and `RequestImplementsTransfer`. `RequestIInv` adds `Formatted`: while the
driver waits for a transfer, the fields `Send()` reads are those of its last format. That is
what makes a reused request free of its past; the count alone is not inductive. Calls that
leave the request alone keep the invariant by one lemma, `Quiet`.

For any stores, names and values: `StoreTypeCorrect` and `StalenessBounded`. `StoreIInv` adds
`FileCurrent`: the file of a name is the latest value set by any store unless that write
was lost, so a store without a value of its own reads the latest one; and `CacheFirst`: what
a cache holds of a name is the first value its store set in this run, or what a driver's
clearing left of it.

For any bound on the sizes a driver reports: `ReplyTypeCorrect` and `ReadsCorrect`.
`ReplyIInv` adds `Untouched`: nothing is read and nothing listed before the request has come
back, so each read depends on this request's size and information alone. With it each of
the reading actions fixes what is left out: the room of the buffer, or what was reported.

`IdentifyProofs` proves, for any number of polls and any grace period and from
`IdentifyAssumption` (both are positive): `TypeCorrect`, `MatchCorrect`, `GivesUpCorrect` and
`IndicatorCorrect`. `MatchesSample` speaks of the moment a feature set is matched and
`GivesUpLast` of the moment a command returns; the capture runs long before both. `IInv` adds
`Filled` (the buffer is filled before the thread stores a status, and an "ok" the thread has
stored is that of a filled buffer), `Completed` (past the polling the request is complete or
the wait was full, and before the full wait only the thread completes it; this is why a
completion meets a dead frame only after the full wait), `Patience` (after OnCancel an
incomplete request has had its grace period, and identify-all without a capture has waited in
full), `Crossing` (a request that is complete before its thread is done is a crossed
one; this is why the only write to a dead frame without a grace period is that of a crossed
capture) and `Paths` (which command can be at a location). `LightLeftOnlyIfRefused` is kept
by each step: only `SetIndicator` touches the light, and every way to the last locations
leads through one that asks for it to go off.

`BreakpointsProofs` proves, for any threads, table and distance of a single step and
from `BreakpointsAssumption`: `TypeCorrect` and `RearmCorrect`. Both need `Walked`: an int3
is only where the walk has passed, the table holds the driver's byte there, and threads and
`last_hit` are at such breakpoints only, disturbed or not; so the byte that is put back is
never an int3. `RearmedOneAtATime` needs `Alone`: undisturbed, one thread at most is at a
breakpoint, and from `Take` on `last_hit` is its own. Then a thread meets a breakpoint only
with all of them in the code, a short step finds `last_hit` near and leads to `Rearm`, and
`Rearm` writes back the one int3 that is missing.

`SensorStorageProofs` proves, for any GUIDs stored, any pairing and any orphaned managers
and from `StorageAssumption` (the own GUIDs are GUIDs, an orphan is none): `TypeCorrect`,
`ReportCorrect` and `DestructionStops`. A truthful report rests on what the host knows of
the device, so `IInv` adds, for a reliable link, `Indexed` (in clear-local-db the index is
what is stored, except between a deletion and the query after it, and nothing foreign was
lost up to that index) and `Probing` (delete-record is among the managers only while its
target is stored), with `Paths` (which command can be at a location, and that nothing was
deleted before the first classification). `DestructionStops` is an action property from the
same invariant: the three actions that delete are excluded by `Indexed`, by `Probing` and
by the command they belong to, and the others leave the device alone.

`SensorEnrollProofs` proves, for any number of attempts, any limit and any range of the
device's counters and from `SensorEnrollAssumption`: `TypeCorrect`, `TerminalCorrect`,
`InterruptCorrect` and `AbortCorrect`. `IInv` adds, for the counts, `Loop` (between two
answers `errors` is the run of unchanged samples and below the limit) and `Plateaus` (with
one format of answer no plateau is longer than that run; the first answer of another
format is what breaks it without the restriction), and for the exceptions `Handling` (where
`_enroll_active` is set), `Records` (where a record can exist) and `Outcome` (what a command
with an outcome has left behind). The lemma `Evaluated` says what one answer does to the
three trackers, per format; a step that evaluates none keeps the counts by `NotEvaluated`.

`Wdf2Proofs` proves, for any reader threads, packets, failing reads and samples and from
`Wdf2HostAssumption` and `Wdf2CommandsAssumption`: `TypeCorrect`, `PacketsCorrect` and
`ExitCodeCorrect`. The property counts packets; the invariant says where they are. `Queue`:
the endpoint holds the last packets sent, in order. `Once`: every packet before them is held
by one thread, delivered once, or taken once, and no later one is anywhere. `Alone` and
`Ordered`: a reader started once is one thread, and what it holds was read after all it has
delivered. Reading takes the first packet of the queue, which `Queue` and `Once` make the
first that is nowhere; `CountPlaces` turns one place into a sum of cardinalities. The
commands share no variable with the reader, so `IInv` is the conjunction of `HostInv` and
`CommandInv`, each kept by the other's steps untouched.

Every invariant, the action property and both refinements the passing runs check are
theorems. Only model-checked are the liveness properties (`Terminates`, `Returns`,
`IdleNotLost`, `PacketsDelivered`), which hold under fairness and are beyond what the prover
can state. No property depends on a RECURSIVE operator. The two properties of the runs that
expect a violation are false and have no theorem.

## 7. Not modelled, and assumptions

- The vendor driver and the sensor are external: they answer as the code around them
  expects an answer of any kind (success, failure, every status it branches on).
- What the records contain beyond finger, template and check; printing; INF parsing (`HostMain` chooses its result); the
  cryptography and the parsing of pairing data.
- A lost reply is a command the device did execute. A lost command is the same to the host
  and harmless to the device, except for `discard`, whose OUT transfer is assumed delivered.
- Optimising builds, which could reorder the two plain stores of `Complete()`.
- That the driver of a UMDF 1 device implements one of the two hardware callbacks: `main`
  asserts it.
- Components listed as not modelled in section 2.
