------------------------------ MODULE VideoJob ------------------------------
(***************************************************************************)
(* Video downloads (prism-core, manager/jobs.rs): the slots that limit how *)
(* many run, and one VideoJob per start of a video, from the wait for its  *)
(* slot over tools, probe and accelerated streams or yt-dlp to the outcome *)
(* it reports.  The streams are downloads of the engine that go on by      *)
(* themselves; a stop reaches a job at any point of its run.               *)
(***************************************************************************)
EXTENDS Naturals, Sequences, FiniteSets

CONSTANTS
  Videos,       \* starts of video items, each a VideoJob
  Order,        \* the streams of an accelerated plan, in the plan's order
  Optional,     \* the streams the output does without (subtitles, thumbnail)
  Limits,       \* values of the concurrent downloads setting
  MaxStops      \* bound: commands

Streams == {Order[i] : i \in DOMAIN Order}
StopKinds == {"pause", "cancel", "delete"}
Waiting == {"arming", "checked", "asleep"}
Holding == {"tools", "probing", "preparing", "started", "streaming", "post", "ytdlp"}

VARIABLES
  phase,      \* where VideoJob::run is
  stop,       \* VideoJob::stop, "none" for None
  asking,     \* calls of stop that set it and have yet to tell the streams
  token,      \* VideoJob::cancel is cancelled
  handles,    \* VideoJob::handles, the streams in it
  stream,     \* state of each stream's engine job
  asked,      \* JobShared::stop_reason of each stream
  next,       \* the stream run_accelerated waits for
  result,     \* what run returned
  report,     \* JobResult sent, "none" before
  temp,       \* the folder of the streams' files is there
  slots, limit,   \* VideoLimiter::state
  stops

job == <<phase, stop, asking, token, handles, next, result, report, temp>>
vars == <<job, stream, asked, slots, limit, stops>>

Init ==
  /\ phase = [v \in Videos |-> "new"]
  /\ stop = [v \in Videos |-> "none"]
  /\ asking = [v \in Videos |-> [k \in StopKinds |-> 0]]
  /\ token = [v \in Videos |-> FALSE]
  /\ handles = [v \in Videos |-> {}]
  /\ stream = [v \in Videos |-> [s \in Streams |-> "none"]]
  /\ asked = [v \in Videos |-> [s \in Streams |-> "none"]]
  /\ next = [v \in Videos |-> 1]
  /\ result = [v \in Videos |-> "none"]
  /\ report = [v \in Videos |-> "none"]
  /\ temp = [v \in Videos |-> FALSE]
  /\ slots = 0 /\ limit \in Limits
  /\ stops = 0

---------------------------------------------------------------------------
(* VideoLimiter.  Notify::notify_waiters reaches everyone registered.      *)

\* Mutant: a video registers only when it awaits, after it looked at the slots.
Woken_NotEnabled(f) == [v \in Videos |-> IF f[v] = "asleep" THEN "arming" ELSE f[v]]
Woken(f) == [v \in Videos |-> IF f[v] \in {"checked", "asleep"} THEN "arming" ELSE f[v]]

\* Mutant: the new limit starts a new count.
CountAfterLimit_Zero == 0
CountAfterLimit == slots
SetLimit(n) ==
  /\ stops < MaxStops /\ n # limit
  /\ limit' = n /\ slots' = CountAfterLimit
  /\ phase' = Woken(phase) /\ stops' = stops + 1
  /\ UNCHANGED <<stop, asking, token, handles, next, result, report, temp, stream, asked>>

---------------------------------------------------------------------------
(* VideoJob::run.                                                          *)

To(v, p) == phase' = [phase EXCEPT ![v] = p]

Start(v) ==
  /\ phase[v] = "new"
  /\ To(v, "arming")
  /\ UNCHANGED <<stop, asking, token, handles, next, result, report, temp, stream, asked, slots, limit, stops>>

(* run returns: the slot it has is dropped, which wakes the waiting ones.  *)
Return(v, r) ==
  /\ result' = [result EXCEPT ![v] = r]
  /\ IF phase[v] \in Holding
     THEN phase' = Woken([phase EXCEPT ![v] = "returned"]) /\ slots' = slots - 1
     ELSE To(v, "returned") /\ UNCHANGED slots

CheckSlot(v) ==
  /\ phase[v] = "arming"
  /\ IF slots < limit THEN To(v, "tools") /\ slots' = slots + 1
                      ELSE To(v, "checked") /\ UNCHANGED slots
  /\ UNCHANGED <<stop, asking, token, handles, next, result, report, temp, stream, asked, limit, stops>>
AwaitSlot(v) ==
  /\ phase[v] = "checked" /\ To(v, "asleep")
  /\ UNCHANGED <<stop, asking, token, handles, next, result, report, temp, stream, asked, slots, limit, stops>>

(* The places where run looks at its token.                                *)
Stopped(v) ==
  /\ phase[v] \in Waiting \cup {"probing"} /\ token[v]
  /\ Return(v, "error")
  /\ UNCHANGED <<stop, asking, token, handles, next, report, temp, stream, asked, limit, stops>>

(* The tools are found or installed, whatever the token says meanwhile.    *)
ToolsReady(v) ==
  /\ phase[v] = "tools"
  /\ \/ ~token[v] /\ To(v, "probing") /\ UNCHANGED <<result, slots>>
     \/ Return(v, "error")
  /\ UNCHANGED <<stop, asking, token, handles, next, report, temp, stream, asked, limit, stops>>

(* The page is probed, a choice picked and the plan made, or one failed.   *)
Probed(v) ==
  /\ phase[v] = "probing"
  /\ \/ \E p \in {"preparing", "ytdlp"} : To(v, p) /\ UNCHANGED <<result, slots>>
     \/ Return(v, "error")
  /\ UNCHANGED <<stop, asking, token, handles, next, report, temp, stream, asked, limit, stops>>

(* run_accelerated failed: without a stop yt-dlp downloads the video.      *)
AcceleratedFails(v) ==
  IF stop[v] = "none"
  THEN To(v, "ytdlp") /\ handles' = [handles EXCEPT ![v] = {}] /\ UNCHANGED <<result, slots>>
  ELSE Return(v, "error") /\ UNCHANGED handles

(* The folder is made and every stream started, ...                        *)
StartStreams(v) ==
  /\ phase[v] = "preparing"
  /\ \/ /\ temp' = [temp EXCEPT ![v] = TRUE]
        /\ stream' = [stream EXCEPT ![v] = [s \in Streams |-> "running"]]
        /\ To(v, "started") /\ UNCHANGED <<handles, result, slots>>
     \/ AcceleratedFails(v) /\ UNCHANGED <<temp, stream>>
  /\ UNCHANGED <<stop, asking, token, next, report, asked, limit, stops>>
(* ... and then their handles are kept for who stops the job.              *)
KeepHandles(v) ==
  /\ phase[v] = "started"
  /\ handles' = [handles EXCEPT ![v] = Streams]
  /\ next' = [next EXCEPT ![v] = 1]
  /\ To(v, "streaming")
  /\ UNCHANGED <<stop, asking, token, result, report, temp, stream, asked, slots, limit, stops>>

(* request_stop: a cancel wins over a pause, a deleting one over others.   *)
Rank == [none |-> 0, pause |-> 1, cancel |-> 2, delete |-> 3]
Overruled(old, kind) == IF Rank[kind] > Rank[old] THEN kind ELSE old
AskAll(v, S, kind) ==
  asked' = [asked EXCEPT ![v] = [s \in Streams |-> IF s \in S THEN Overruled(@[s], kind) ELSE @[s]]]

\* Mutant: the other streams of a failed one are left alone.
CancelOthers_Not(v) == UNCHANGED asked
CancelOthers(v) == AskAll(v, Streams, "cancel")

(* The streams are waited for one after the other.                         *)
StreamJoined(v) ==
  /\ phase[v] = "streaming" /\ next[v] <= Len(Order)
  /\ LET s == Order[next[v]] IN
     /\ stream[v][s] \notin {"none", "running"}
     /\ \/ /\ stream[v][s] = "completed" \/ s \in Optional
           /\ next' = [next EXCEPT ![v] = @ + 1]
           /\ UNCHANGED <<phase, handles, result, slots, asked>>
        \/ /\ stream[v][s] \in {"paused", "cancelled"} /\ s \notin Optional
           /\ AcceleratedFails(v) /\ UNCHANGED <<next, asked>>
        \/ /\ stream[v][s] = "failed" /\ s \notin Optional
           /\ CancelOthers(v) /\ AcceleratedFails(v) /\ UNCHANGED next
  /\ UNCHANGED <<stop, asking, token, report, temp, stream, limit, stops>>
StreamsDone(v) ==
  /\ phase[v] = "streaming" /\ next[v] > Len(Order)
  /\ handles' = [handles EXCEPT ![v] = {}]
  /\ To(v, "post")
  /\ UNCHANGED <<stop, asking, token, next, result, report, temp, stream, asked, slots, limit, stops>>

(* ffmpeg joins the streams; a cancelled token ends it.                    *)
PostProcessed(v) ==
  /\ phase[v] = "post"
  /\ \/ /\ Return(v, "completed") /\ temp' = [temp EXCEPT ![v] = FALSE]
        /\ UNCHANGED handles
     \/ AcceleratedFails(v) /\ UNCHANGED temp
  /\ UNCHANGED <<stop, asking, token, next, report, stream, asked, limit, stops>>

(* yt-dlp, which a cancelled token ends too.                               *)
YtDlpEnds(v) ==
  /\ phase[v] = "ytdlp"
  /\ \E r \in {"completed", "error"} : Return(v, r)
  /\ UNCHANGED <<stop, asking, token, handles, next, report, temp, stream, asked, limit, stops>>

(* The task that ran the job reports: a stop counts more than the result.  *)
Outcome(v) ==
  CASE stop[v] = "pause" -> "Paused"
    [] stop[v] \in {"cancel", "delete"} -> "Cancelled"
    [] OTHER -> IF result[v] = "completed" THEN "Completed" ELSE "Failed"
Report(v) ==
  /\ phase[v] = "returned"
  /\ report' = [report EXCEPT ![v] = Outcome(v)]
  /\ temp' = IF stop[v] = "delete" THEN [temp EXCEPT ![v] = FALSE] ELSE temp
  /\ To(v, "reported")
  /\ UNCHANGED <<stop, asking, token, handles, next, result, stream, asked, slots, limit, stops>>

---------------------------------------------------------------------------
(* VideoJob::stop: the kind, whatever an earlier call set, ...             *)
Stop(v, kind) ==
  /\ phase[v] # "new" /\ stops < MaxStops
  /\ stop' = [stop EXCEPT ![v] = kind] /\ stops' = stops + 1
  /\ asking' = [asking EXCEPT ![v][kind] = @ + 1]
  /\ UNCHANGED <<phase, token, handles, next, result, report, temp, stream, asked, slots, limit>>
(* ... then the streams whose handles are there, then the token.           *)
StopStreams(v, kind) ==
  /\ asking[v][kind] > 0
  /\ asking' = [asking EXCEPT ![v][kind] = @ - 1]
  /\ AskAll(v, handles[v], kind)
  /\ token' = [token EXCEPT ![v] = TRUE]
  /\ UNCHANGED <<phase, stop, handles, next, result, report, temp, stream, slots, limit, stops>>

(* A stream's engine job ends, by itself or because it was asked to.       *)
StreamEnds(v, s) ==
  /\ stream[v][s] = "running"
  /\ \/ \E r \in {"completed", "failed"} : stream' = [stream EXCEPT ![v][s] = r]
     \/ /\ asked[v][s] # "none"
        /\ stream' = [stream EXCEPT ![v][s] = IF asked[v][s] = "pause" THEN "paused" ELSE "cancelled"]
  /\ UNCHANGED <<job, asked, slots, limit, stops>>

---------------------------------------------------------------------------
Run(v) ==
  \/ CheckSlot(v) \/ AwaitSlot(v) \/ Stopped(v) \/ ToolsReady(v) \/ Probed(v)
  \/ StartStreams(v) \/ KeepHandles(v) \/ StreamJoined(v) \/ StreamsDone(v)
  \/ PostProcessed(v) \/ YtDlpEnds(v) \/ Report(v)
Next ==
  \/ \E v \in Videos : \/ Start(v) \/ Run(v)
                       \/ \E kind \in StopKinds : Stop(v, kind) \/ StopStreams(v, kind)
                       \/ \E s \in Streams : StreamEnds(v, s)
  \/ \E n \in Limits : SetLimit(n)
Spec == Init /\ [][Next]_vars

(* A started job's task is polled, and what it waits for (the tools, the   *)
(* probe, an engine job, ffmpeg, yt-dlp) ends.                             *)
Fairness ==
  \A v \in Videos : WF_vars(Run(v)) /\ \A s \in Streams : WF_vars(StreamEnds(v, s))
FairSpec == Spec /\ Fairness

---------------------------------------------------------------------------
TypeOK ==
  /\ \A v \in Videos :
       /\ phase[v] \in {"new", "returned", "reported"} \cup Waiting \cup Holding
       /\ stop[v] \in StopKinds \cup {"none"} /\ asking[v] \in [StopKinds -> Nat]
       /\ handles[v] \subseteq Streams /\ next[v] \in 1 .. Len(Order) + 1
       /\ report[v] \in {"none", "Completed", "Paused", "Cancelled", "Failed"}
  /\ slots \in Nat /\ limit \in Limits

(* The slots in use are those of the videos at work: changing the limit    *)
(* "preserves active work" (jobs.rs), and every way out of run gives the   *)
(* slot back.                                                              *)
SlotsAreExact == slots = Cardinality({v \in Videos : phase[v] \in Holding})

(* No stream of a reported video, and none beside the yt-dlp that replaces *)
(* it, goes on without having been told to stop: nobody could stop it any  *)
(* more, its handle is forgotten.                                          *)
NoStrayStream ==
  \A v \in Videos : phase[v] \in {"ytdlp", "returned", "reported"} =>
    \A s \in Streams : stream[v][s] = "running" => asked[v][s] # "none"

(* Once a stop has been carried out, every stream of the job that still    *)
(* downloads has been told (jobs.rs: handles are "Engine handles of the    *)
(* accelerated streams currently downloading").                            *)
StopReachesStreams ==
  \A v \in Videos : token[v] => \A s \in Streams : stream[v][s] = "running" => asked[v][s] # "none"

(* Every video that is started reports in the end: none waits for a slot   *)
(* nobody hands over, a stop is not lost for good.                         *)
AllReported == \A v \in Videos : phase[v] # "new" => report[v] # "none"
EveryVideoReports == []<>AllReported
=============================================================================
