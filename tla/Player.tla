------------------------------- MODULE Player -------------------------------
(***************************************************************************)
(* The process: main() offers its arguments to RTSPClientWrapper::play(),  *)
(* whose first call spawns a thread that pulls the stream and one that     *)
(* decodes and renders it.  They share _url, _run and globalFrameBuffer,   *)
(* which FrameBuffer shows to be a queue: here only its numbers of frames  *)
(* count.  Of the stream itself (module StreamClient) only the frames it   *)
(* delivers and its end by exit() are seen.                                *)
(***************************************************************************)
EXTENDS Integers

CONSTANTS
  MaxUrls,      \* bound: how many URLs there are on the command line
  MaxFrames     \* bound: how many video frames the stream delivers

ASSUME UrlsAssumption == MaxUrls \in Nat
ASSUME FramesAssumption == MaxFrames \in Nat

VARIABLES
  process,      \* "running", "returned", "exited" or "terminated"
  urls,         \* how many URLs the command line has
  main,         \* where main() is
  arg,          \* its current argument
  url,          \* _url: 0 until it is first assigned
  run,          \* _run
  pull,         \* the thread _pullStreamThread, "none" until it is assigned
  decode,       \* the thread _decodeThread
  opened,       \* the URL the pull thread gave to its RTSPClient; 0: none yet
  received,     \* video frames that reached the DummySink
  queued,       \* samples that were pushed to globalFrameBuffer
  rendered      \* samples that were popped, decoded and rendered

frames == <<received, queued, rendered>>
vars == <<process, urls, main, arg, url, run, pull, decode, opened, frames>>

Args == 1..urls
Torn == -1                  \* what a read of _url finds during an assignment
NoSample == "null"          \* a null std::shared_ptr<FrameSample>

Init ==
  /\ process = "running" /\ main = "offering" /\ arg = 1
  /\ urls \in 0..MaxUrls
  /\ url = 0 /\ run = FALSE
  /\ pull = "none" /\ decode = "none"
  /\ opened = 0
  /\ received = 0 /\ queued = 0 /\ rendered = 0

Threads == <<url, run, pull, decode, opened, frames>>

(***************************************************************************)
(* main() and play().                                                      *)
(***************************************************************************)

\* play(): _url = rtspURL begins, and ends in AssignUrl.
Offer ==
  /\ process = "running"
  /\ main = "offering" /\ arg <= urls
  /\ main' = "assigning"
  /\ UNCHANGED <<process, urls, arg, Threads>>

\* Slip: the URL goes to a local variable.
AssignUrlShadowed ==
  /\ process = "running"
  /\ main = "assigning"
  /\ main' = "checking"
  /\ UNCHANGED <<process, urls, arg, Threads>>

AssignUrl ==
  /\ process = "running"
  /\ main = "assigning"
  /\ main' = "checking"
  /\ url' = arg
  /\ UNCHANGED <<process, urls, arg, run, pull, decode, opened, frames>>

Refuse ==
  /\ process = "running"
  /\ main = "checking" /\ run
  /\ main' = "offering" /\ arg' = arg + 1
  /\ UNCHANGED <<process, urls, Threads>>

\* Slips: a call while the player runs is not refused; _run is left for later.
AcceptAnyway ==
  /\ process = "running"
  /\ main = "checking"
  /\ main' = "spawning" /\ run' = TRUE
  /\ UNCHANGED <<process, urls, arg, url, pull, decode, opened, frames>>
AcceptLater ==
  /\ process = "running"
  /\ main = "checking" /\ ~run
  /\ main' = "spawning"
  /\ UNCHANGED <<process, urls, arg, Threads>>

Accept ==
  /\ process = "running"
  /\ main = "checking" /\ ~run
  /\ main' = "spawning" /\ run' = TRUE
  /\ UNCHANGED <<process, urls, arg, url, pull, decode, opened, frames>>

\* Assigning to a std::thread that was spawned and never joined is
\* std::terminate().
SpawnPull ==
  /\ process = "running"
  /\ main = "spawning"
  /\ IF pull = "none"
     THEN pull' = "spawned" /\ main' = "spawned" /\ UNCHANGED process
     ELSE process' = "terminated" /\ UNCHANGED <<pull, main>>
  /\ UNCHANGED <<urls, arg, url, run, decode, opened, frames>>

SpawnDecode ==
  /\ process = "running"
  /\ main = "spawned"
  /\ IF decode = "none"
     THEN decode' = "spawned" /\ main' = "offering" /\ arg' = arg + 1 /\ UNCHANGED process
     ELSE process' = "terminated" /\ UNCHANGED <<decode, main, arg>>
  /\ UNCHANGED <<urls, url, run, pull, opened, frames>>

\* main() returns: after usage() if there is no URL.  Else the wrapper is
\* destroyed with threads that can be joined, which is std::terminate().
Leave ==
  /\ process = "running"
  /\ main = "offering" /\ arg > urls
  /\ process' = IF pull = "none" /\ decode = "none" THEN "returned" ELSE "terminated"
  /\ main' = "left"
  /\ UNCHANGED <<urls, arg, Threads>>

MainStep ==
  Offer \/ AssignUrl \/ Refuse \/ Accept \/ SpawnPull \/ SpawnDecode \/ Leave

(***************************************************************************)
(* The pull thread.                                                        *)
(***************************************************************************)

\* What _url.c_str() gives: anything, if main() is just assigning to _url.
ReadUrl == IF main = "assigning" THEN {url, arg, Torn} ELSE {url}

\* ourRTSPClient::createNew() may fail; else the event loop takes over.
PullBegins ==
  /\ process = "running"
  /\ pull = "spawned"
  /\ opened' \in ReadUrl
  /\ pull' \in {"looping", "ended"}
  /\ UNCHANGED <<process, urls, main, arg, url, run, decode, frames>>

\* globalFrameBuffer.CreateFrameSample() gives no sample.
CreateFrameSample == NoSample

\* DummySink::afterGettingFrame() for a frame of a "video" subsession: the frame
\* is copied to a new sample, if there is one, and the sample pushed.
AfterGettingFrame ==
  /\ process = "running"
  /\ pull = "looping" /\ received < MaxFrames
  /\ received' = received + 1
  /\ queued' = IF CreateFrameSample = NoSample THEN queued ELSE queued + 1
  /\ UNCHANGED <<process, urls, main, arg, url, run, pull, decode, opened, rendered>>

\* shutdownStream() calls exit().
PullExits ==
  /\ process = "running"
  /\ pull = "looping"
  /\ process' = "exited"
  /\ UNCHANGED <<urls, main, arg, Threads>>

(***************************************************************************)
(* The decode thread.                                                      *)
(***************************************************************************)
DecodeBegins ==
  /\ process = "running"
  /\ decode = "spawned"
  /\ decode' = "looping"
  /\ UNCHANGED <<process, urls, main, arg, url, run, pull, opened, frames>>

\* One turn of the loop: PopFrame() gives a sample, or a null pointer.
DecodeTurns ==
  /\ process = "running"
  /\ decode = "looping"
  /\ decode' = IF run THEN "looping" ELSE "ended"
  /\ rendered' = IF run /\ rendered < queued THEN rendered + 1 ELSE rendered
  /\ UNCHANGED <<process, urls, main, arg, url, run, pull, opened, received, queued>>

PullStep == PullBegins \/ AfterGettingFrame \/ PullExits
DecodeStep == DecodeBegins \/ DecodeTurns

Next == MainStep \/ PullStep \/ DecodeStep

Spec == Init /\ [][Next]_vars

-----------------------------------------------------------------------------
(***************************************************************************)
(* Properties.                                                             *)
(***************************************************************************)

\* The values the variables may have.
TypeOK ==
  /\ process \in {"running", "returned", "exited", "terminated"}
  /\ main \in {"offering", "assigning", "checking", "spawning", "spawned", "left"}
  /\ arg \in 1..urls + 1
  /\ url \in 0..urls
  /\ run \in BOOLEAN
  /\ pull \in {"none", "spawned", "looping", "ended"}
  /\ decode \in {"none", "spawned", "looping", "ended"}
  /\ urls \in 0..MaxUrls
  /\ opened \in 0..urls \cup {Torn}
  /\ received \in 0..MaxFrames
  /\ queued \in 0..MaxFrames /\ rendered \in 0..MaxFrames

\* No call of play() aborts the process: however many URLs there are, each
\* thread object is assigned only while it has no thread, and main() goes
\* through all its arguments unless the stream ends first.
PlayNeverAborts ==
  process = "terminated" => arg = urls + 1 /\ main = "left"

\* The decode thread stays in its loop as long as the process runs: _run is set
\* before the thread can read it, and is never reset.
DecodeKeepsRunning == decode # "ended"

\* The pull thread opens the URL of the command line, if there is one only, and
\* never a half-written _url: main() has no business with _url any more.
OpensGivenUrl == urls = 1 /\ pull \in {"looping", "ended"} => opened = 1

\* Only _run is atomic, and it guards the other members of the wrapper: a thread
\* object is assigned once, _run is set before the decode thread reads it, and a
\* single URL is opened as it was given.
ThreadsSafe == TypeOK /\ PlayNeverAborts /\ DecodeKeepsRunning /\ OpensGivenUrl
=============================================================================
