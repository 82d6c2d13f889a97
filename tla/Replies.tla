------------------------------ MODULE Replies ------------------------------
(***************************************************************************)
(* The requests that print what the driver answers, under both frameworks: *)
(* how large a buffer the driver is told of, what it writes, how much it   *)
(* says it wrote, and which bytes the program then reads.                  *)
(*                                                                         *)
(* Sizes are in units of the parts the program tells apart.  The driver    *)
(* stays within the size it was told, but the size it reports is its own:  *)
(* short, or that of an answer which did not fit.  It is a signed LONG_PTR *)
(* in a HostRequest and an unsigned ULONG_PTR in a Wdf2Request, so that -1 *)
(* is no answer for the one and a huge answer for the other.  The strings  *)
(* of GET_ATTRIBUTES are taken to end in their fields.                     *)
(***************************************************************************)
EXTENDS Integers

CONSTANT MaxInfo   \* largest size reported, more than any buffer has

\* The output buffer of each request: its size, the part that is read as a
\* structure, and whether the program clears it before.
Buffer ==
  [attributes |-> [size |-> 4, fixed |-> 2, cleared |-> FALSE],
   property   |-> [size |-> 1, fixed |-> 1, cleared |-> TRUE],
   status     |-> [size |-> 3, fixed |-> 2, cleared |-> FALSE],
   template   |-> [size |-> 2, fixed |-> 0, cleared |-> TRUE],
   reset      |-> [size |-> 2, fixed |-> 2, cleared |-> TRUE],
   blank      |-> [size |-> 3, fixed |-> 2, cleared |-> FALSE],
   match      |-> [size |-> 3, fixed |-> 2, cleared |-> TRUE],
   records    |-> [size |-> 3, fixed |-> 1, cleared |-> TRUE],
   indicator  |-> [size |-> 2, fixed |-> 2, cleared |-> TRUE],
   count      |-> [size |-> 1, fixed |-> 1, cleared |-> TRUE],
   ownership  |-> [size |-> 0, fixed |-> 0, cleared |-> TRUE],
   mode       |-> [size |-> 0, fixed |-> 0, cleared |-> TRUE]]

Requests == DOMAIN Buffer
V2Requests == {"template", "reset", "ownership"}
Size(q) == Buffer[q].size
Fixed(q) == Buffer[q].fixed

ASSUME RepliesAssumption == MaxInfo \in Nat /\ \A q \in Requests : Size(q) < MaxInfo

VARIABLES
  pc,          \* "next", "wait" for the driver, or "read" the answer
  api,         \* "v1" or "v2"
  req,         \* the request
  told,        \* the size the driver has asked for, 0 before
  written,     \* units the driver has written
  info,        \* informationSize of the request
  status,      \* completionStatus: "ok" or "failed"
  complete,    \* the driver has completed the request
  read,        \* units of the buffer the program has read
  listed,      \* entries the answer has, and those that were printed
  noted        \* a listing was said to be truncated

reply == <<told, written, info, status, complete>>
output == <<read, listed, noted>>
replyVars == <<pc, api, req, reply, output>>

(***************************************************************************)
(* The request                                                             *)
(***************************************************************************)
\* HostRequest::HostRequest() or Wdf2Request(): S_OK, and nothing written.
Dispatch(q) ==
  /\ pc = "next" /\ (api = "v2" => q \in V2Requests)
  /\ pc' = "wait" /\ req' = q
  /\ told' = 0 /\ written' = 0 /\ info' = 0 /\ status' = "ok" /\ complete' = FALSE
  /\ read' = {} /\ listed' = [has |-> 0, shown |-> 0] /\ noted' = FALSE
  /\ UNCHANGED api

\* GetDeviceIoControlParameters(), GetOutputMemory() and GetDataBuffer().
\* Without a buffer the size is 0.
AskSize_OfInput ==
  /\ pc = "wait" /\ api = "v1" /\ ~complete
  /\ told' = IF req \in {"template", "property", "records", "count"} THEN 2 ELSE 0
  /\ UNCHANGED <<pc, api, req, written, info, status, complete, output>>
AskSize ==
  /\ pc = "wait" /\ api = "v1" /\ ~complete
  /\ told' = Size(req)
  /\ UNCHANGED <<pc, api, req, written, info, status, complete, output>>

\* WdfRequestGetParameters() and the WdfRequestRetrieve functions: without a
\* memory object these fail.
Retrieve ==
  /\ pc = "wait" /\ api = "v2" /\ ~complete /\ Size(req) > 0
  /\ told' = Size(req)
  /\ UNCHANGED <<pc, api, req, written, info, status, complete, output>>

DriverWrites ==
  /\ pc = "wait" /\ ~complete /\ written < told
  /\ written' = written + 1
  /\ UNCHANGED <<pc, api, req, told, info, status, complete, output>>

\* A size that holds if the request is completed with Complete().
SetInformation(i) ==
  /\ pc = "wait" /\ ~complete
  /\ info' = i
  /\ UNCHANGED <<pc, api, req, told, written, status, complete, output>>

Complete(s) ==
  /\ pc = "wait" /\ ~complete
  /\ status' = s /\ complete' = TRUE
  /\ UNCHANGED <<pc, api, req, told, written, info, output>>

CompleteWithInformation(s, i) ==
  /\ pc = "wait" /\ ~complete
  /\ status' = s /\ info' = i /\ complete' = TRUE
  /\ UNCHANGED <<pc, api, req, told, written, output>>

\* UMDF 1 waits for the completion, UMDF 2 for the return of the callback.
Wait ==
  /\ pc = "wait" /\ (api = "v1" => complete)
  /\ pc' = "read"
  /\ UNCHANGED <<api, req, reply, output>>

(***************************************************************************)
(* Reading the answer                                                      *)
(***************************************************************************)
Failed == status = "failed"
Lowest(a, b) == IF a < b THEN a ELSE b
Unsigned(i) == IF i < 0 THEN MaxInfo + 1 ELSE i

\* What a size becomes before it bounds a loop over the buffer.
clampInfoSize(i, size) == IF i <= 0 THEN 0 ELSE Lowest(i, size)

Reading(q) == pc = "read" /\ api = "v1" /\ req = q
Reads(n) ==
  /\ read' = 1..n /\ pc' = "next"
  /\ UNCHANGED <<api, req, reply>>
Plainly == UNCHANGED <<listed, noted>>

\* The number of formats is bounded by the room in what was reported, and the
\* difference is noted.  Entries are read from the structure: any number.
getAttributes ==
  /\ Reading("attributes")
  /\ \E entries \in 0..MaxInfo :
       LET capacity == clampInfoSize(info, Size(req)) - Fixed(req)
           shown == Lowest(entries, capacity)
       IN  IF Failed \/ info < Fixed(req)
             THEN Reads(0) /\ Plainly
             ELSE /\ Reads(Fixed(req) + shown)
                  /\ listed' = [has |-> entries, shown |-> shown]
                  /\ noted' = (shown # entries)

\* An unexpected payload leaves the status of the sensor unknown.
getSensorStatus_StatusOnly ==
  /\ Reading("status") /\ Plainly
  /\ Reads(IF Failed THEN 0 ELSE Fixed(req))
getSensorStatus ==
  /\ Reading("status") /\ Plainly
  /\ Reads(IF Failed \/ info < Fixed(req) THEN 0 ELSE Fixed(req))

resetIoctl ==
  /\ Reading("blank") /\ Plainly
  /\ Reads(IF Failed \/ info < Fixed(req) THEN 0 ELSE Fixed(req))

\* The structure, or a dump of the short payload.
reset ==
  /\ Reading("reset") /\ Plainly
  /\ Reads(IF Failed THEN 0
           ELSE IF info >= Fixed(req) THEN Fixed(req) ELSE clampInfoSize(info, Size(req)))

\* The dump comes after a failure too.
getTemplate ==
  /\ Reading("template") /\ Plainly
  /\ Reads(clampInfoSize(info, Size(req)))

\* The structure after a success, and a dump of what was reported.
identifyAll ==
  /\ Reading("match") /\ Plainly
  /\ LET dump == IF info > 0 THEN Lowest(info, Size(req)) ELSE 0
     IN  Reads(IF ~Failed /\ info >= Fixed(req) /\ dump < Fixed(req) THEN Fixed(req) ELSE dump)

\* RecordCount records, no more than were asked for; the rest is not mentioned.
queryAllRecords ==
  /\ Reading("records")
  /\ \E count \in 0..MaxInfo :
       LET shown == Lowest(count, Size(req) - Fixed(req))
       IN  IF Failed
             THEN Reads(0) /\ Plainly
             ELSE /\ Reads(Fixed(req) + shown)
                  /\ listed' = [has |-> count, shown |-> shown] /\ UNCHANGED noted

\* The status is not looked at, the size is.
getIndicator ==
  /\ Reading("indicator") /\ Plainly
  /\ Reads(IF info >= Fixed(req) THEN Fixed(req) ELSE 0)

\* The value is printed whatever was answered: it was 0 before.
getPropertyExample == Reading("property") /\ Reads(Fixed(req)) /\ Plainly
getDatabaseSize == Reading("count") /\ Reads(Fixed(req)) /\ Plainly

\* Only the status is printed.
resetOwnership == Reading("ownership") /\ Reads(0) /\ Plainly
setMode == Reading("mode") /\ Reads(0) /\ Plainly

\* hello_v2_main(): the loop over the template compares unsigned sizes, the
\* payload of a reset is printed in any case.
V2Reads ==
  /\ pc = "read" /\ api = "v2" /\ Plainly
  /\ Reads(IF req = "template" THEN Lowest(Unsigned(info), Size(req)) ELSE Fixed(req))

ReplyInit ==
  /\ pc = "next" /\ api \in {"v1", "v2"} /\ req = "ownership"
  /\ told = 0 /\ written = 0 /\ info = 0 /\ status = "ok" /\ complete = FALSE
  /\ read = {} /\ listed = [has |-> 0, shown |-> 0] /\ noted = FALSE

ReplyNext ==
  \/ \E q \in Requests : Dispatch(q)
  \/ AskSize \/ Retrieve \/ DriverWrites \/ Wait
  \/ \E i \in -1..MaxInfo : SetInformation(i)
  \/ \E s \in {"ok", "failed"} :
       Complete(s) \/ \E i \in -1..MaxInfo : CompleteWithInformation(s, i)
  \/ getAttributes \/ getSensorStatus \/ resetIoctl \/ reset \/ getTemplate
  \/ identifyAll \/ queryAllRecords \/ getIndicator \/ getPropertyExample
  \/ getDatabaseSize \/ resetOwnership \/ setMode \/ V2Reads

ReplySpec == ReplyInit /\ [][ReplyNext]_replyVars

(***************************************************************************)
(* Properties                                                              *)
(***************************************************************************)
\* The types; the driver writes no more than the buffer has, as it was told
\* its size.
ReplyTypeOK ==
  /\ pc \in {"next", "wait", "read"} /\ req \in Requests
  /\ api = "v2" => req \in V2Requests
  /\ told \in {0, Size(req)} /\ written \in 0..told
  /\ info \in -1..MaxInfo /\ status \in {"ok", "failed"} /\ complete \in BOOLEAN

\* Whatever size the driver reports, the program reads within the buffer, and
\* of a buffer it did not clear only what the driver said it had written.  An
\* entry is left out of a listing only if the buffer has no room for it or, of
\* the attributes, if it lies beyond what was reported.  The attributes then say
\* so; queryAllRecords() does not, and its caller takes the records it got for
\* all there are.
ReadsWhatWasAnswered ==
  /\ read \subseteq 1..Size(req)
  /\ ~Buffer[req].cleared => read \subseteq 1..info
  /\ listed.shown < listed.has =>
       /\ \/ Fixed(req) + listed.shown >= Size(req)
          \/ req = "attributes" /\ Fixed(req) + listed.shown >= info
       /\ req = "records" \/ noted
  /\ noted => listed.shown < listed.has
=============================================================================
