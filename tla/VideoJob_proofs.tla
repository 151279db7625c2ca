---------------------------- MODULE VideoJob_proofs ----------------------------
(***************************************************************************)
(* However video jobs start, wait, wake, fail over, stop and return, and   *)
(* however often the limit changes meanwhile, the count of slots is the    *)
(* number of jobs at work; and no stream is left running untold behind a   *)
(* job that has given it up.                                               *)
(*                                                                         *)
(* The second is not inductive alone.  A job gives its streams up with no  *)
(* word to them when one of them ended stopped: it relies on stops going   *)
(* to all streams or none, since the handles are kept all at once.  The    *)
(* invariant says so, and which streams can run in which phase.            *)
(***************************************************************************)
EXTENDS VideoJob, FiniteSetTheorems, TLAPS

\* The streams of a plan are a sequence; a limit is a number.
VideoConstants == Order \in Seq(Streams) /\ Limits \subseteq Nat

Asks == StopKinds \cup {"none"}
Phases == {"new", "returned", "reported"} \cup Waiting \cup Holding
StreamStates == {"none", "running", "completed", "failed", "paused", "cancelled"}
Reports == {"none", "Completed", "Paused", "Cancelled", "Failed"}

VideoTypes ==
  /\ phase \in [Videos -> Phases]
  /\ stop \in [Videos -> Asks]
  /\ asking \in [Videos -> [StopKinds -> Nat]]
  /\ token \in [Videos -> BOOLEAN]
  /\ handles \in [Videos -> {{}, Streams}]
  /\ stream \in [Videos -> [Streams -> StreamStates]]
  /\ asked \in [Videos -> [Streams -> Asks]]
  /\ next \in [Videos -> 1 .. Len(Order) + 1]
  /\ report \in [Videos -> Reports]
  /\ limit \in Limits

(* Before its streams are started a job has none that runs or ran.         *)
Before == {"new", "tools", "probing", "preparing"} \cup Waiting
(* After these the handles are forgotten or the job is over.               *)
GivenUp == {"ytdlp", "returned", "reported"}

\* One stream of the video was told to stop only when all were.
ToldTogether(v) == \A s, t \in Streams : asked[v][s] # "none" => asked[v][t] # "none"
\* A stream ends paused or cancelled only when it was told to.
EndsAsTold(v) == \A s \in Streams : stream[v][s] \in {"paused", "cancelled"} => asked[v][s] # "none"
\* What may run in a phase: nothing before the start, none that was waited for, none at the end.
RunsInPhase(v) ==
  /\ phase[v] \in Before => \A s \in Streams : stream[v][s] = "none"
  /\ phase[v] = "streaming" => \A i \in 1 .. next[v] - 1 : stream[v][Order[i]] # "running"
  /\ phase[v] = "post" => \A s \in Streams : stream[v][s] # "running"
\* NoStrayStream of one video.
NoStray(v) ==
  phase[v] \in GivenUp => \A s \in Streams : stream[v][s] = "running" => asked[v][s] # "none"

StreamsInHand(v) == ToldTogether(v) /\ EndsAsTold(v) /\ RunsInPhase(v) /\ NoStray(v)

VideoInv ==
  /\ VideoTypes
  /\ SlotsAreExact
  /\ \A v \in Videos : StreamsInHand(v)

---------------------------------------------------------------------------
(* The slots.                                                              *)

\* A phase that waking everyone may change, from and to: neither holds a slot.
Alike(p, q) == q = p \/ (p \in Waiting /\ q \in Waiting)

\* Waking moves waiting jobs only, and back to where they look at the slots.
LEMMA WokenAlike ==
  ASSUME NEW f \in [Videos -> Phases]
  PROVE  /\ Woken(f) \in [Videos -> Phases]
         /\ \A v \in Videos : Alike(f[v], Woken(f)[v])
         /\ \A v \in Videos : f[v] \notin Waiting => Woken(f)[v] = f[v]
BY DEF Woken, Alike, Phases, Waiting

AtWork == {v \in Videos : phase[v] \in Holding}

\* The others wait or work on as before, and the slots follow what the job of v does.
SlotStep(v) ==
  /\ phase' \in [Videos -> Phases]
  /\ \A w \in Videos \ {v} : Alike(phase[w], phase'[w])
  /\ \/ phase[v] \notin Holding /\ phase'[v] \in Holding /\ slots' = slots + 1
     \/ phase[v] \in Holding /\ phase'[v] \notin Holding /\ slots' = slots - 1
     \/ (phase[v] \in Holding <=> phase'[v] \in Holding) /\ slots' = slots

\* A step that takes, gives back or keeps the slot of one job keeps the count exact.
LEMMA SlotStepExact ==
  ASSUME IsFiniteSet(Videos), VideoTypes, SlotsAreExact,
         NEW v \in Videos, SlotStep(v)
  PROVE  SlotsAreExact'
<1>1. IsFiniteSet(AtWork)
  BY FS_Subset DEF AtWork
<1>2. slots = Cardinality(AtWork) /\ slots \in Nat
  BY <1>1, FS_CardinalityType DEF SlotsAreExact, AtWork
<1>3. \A w \in Videos \ {v} : phase[w] \in Holding <=> phase'[w] \in Holding
  BY DEF SlotStep, Alike, Holding, Waiting
<1>4. CASE phase[v] \notin Holding /\ phase'[v] \in Holding /\ slots' = slots + 1
  <2>1. AtWork' = AtWork \cup {v} /\ v \notin AtWork
    BY <1>3, <1>4 DEF AtWork
  <2>2. Cardinality(AtWork') = Cardinality(AtWork) + 1
    BY <1>1, <2>1, FS_AddElement
  <2>. QED  BY <1>2, <1>4, <2>2 DEF SlotsAreExact, AtWork
<1>5. CASE phase[v] \in Holding /\ phase'[v] \notin Holding /\ slots' = slots - 1
  <2>1. AtWork' = AtWork \ {v} /\ v \in AtWork
    BY <1>3, <1>5 DEF AtWork
  <2>2. Cardinality(AtWork') = Cardinality(AtWork) - 1
    BY <1>1, <2>1, FS_RemoveElement
  <2>. QED  BY <1>2, <1>5, <2>2 DEF SlotsAreExact, AtWork
<1>6. CASE (phase[v] \in Holding <=> phase'[v] \in Holding) /\ slots' = slots
  <2>1. AtWork' = AtWork
    BY <1>3, <1>6 DEF AtWork
  <2>. QED  BY <1>2, <1>6, <2>1 DEF SlotsAreExact, AtWork
<1>. QED  BY <1>4, <1>5, <1>6 DEF SlotStep

\* A step of run to a phase that keeps the slot, or to one that needs none, as before.
LEMMA ToKeepsSlot ==
  ASSUME VideoTypes, NEW v \in Videos, NEW p \in Phases,
         phase[v] \in Holding <=> p \in Holding,
         To(v, p), UNCHANGED slots
  PROVE  SlotStep(v) /\ phase'[v] = p
BY DEF SlotStep, VideoTypes, To, Alike

\* Returning gives the slot back, if the job has one.
LEMMA ReturnGivesSlot ==
  ASSUME VideoTypes, NEW v \in Videos, NEW r, Return(v, r), phase[v] \notin {"new", "returned", "reported"}
  PROVE  SlotStep(v) /\ phase'[v] = "returned"
<1>1. CASE phase[v] \in Holding
  <2>. DEFINE f == [phase EXCEPT ![v] = "returned"]
  <2>1. f \in [Videos -> Phases] /\ f[v] = "returned" /\ \A w \in Videos \ {v} : f[w] = phase[w]
    BY DEF VideoTypes, Phases
  <2>2. phase' = Woken(f) /\ slots' = slots - 1
    BY <1>1 DEF Return
  <2>. HIDE DEF f
  <2>3. /\ phase' \in [Videos -> Phases] /\ phase'[v] = "returned"
        /\ \A w \in Videos \ {v} : Alike(phase[w], phase'[w])
    BY <2>1, <2>2, WokenAlike DEF Waiting
  <2>. QED  BY <1>1, <2>2, <2>3 DEF SlotStep, Holding
<1>2. CASE phase[v] \notin Holding
  <2>1. To(v, "returned") /\ UNCHANGED slots
    BY <1>2 DEF Return
  <2>. QED  BY <1>2, <2>1, ToKeepsSlot DEF Phases, Holding
<1>. QED  BY <1>1, <1>2

---------------------------------------------------------------------------
(* One step of one job.                                                    *)

\* A step of the job of v: its own streams stay in hand, those of others are as before.
StepOf(v) ==
  /\ SlotStep(v)
  /\ VideoTypes'
  /\ StreamsInHand(v)'
  /\ \A w \in Videos \ {v} : stream'[w] = stream[w] /\ asked'[w] = asked[w] /\ next'[w] = next[w]

\* A job whose streams are as before and who at most was woken has them in hand as before.
LEMMA FrameInHand ==
  ASSUME NEW w \in Videos, StreamsInHand(w), Alike(phase[w], phase'[w]),
         stream'[w] = stream[w], asked'[w] = asked[w], next'[w] = next[w]
  PROVE  StreamsInHand(w)'
<1>1. ToldTogether(w)' /\ EndsAsTold(w)'
  BY DEF StreamsInHand, ToldTogether, EndsAsTold
<1>2. CASE phase'[w] = phase[w]
  BY <1>1, <1>2 DEF StreamsInHand, RunsInPhase, NoStray
<1>3. CASE phase[w] \in Waiting /\ phase'[w] \in Waiting
  BY <1>1, <1>3 DEF StreamsInHand, RunsInPhase, NoStray, Waiting, Before, GivenUp
<1>. QED  BY <1>2, <1>3 DEF Alike

\* Such a step keeps the invariant.
LEMMA StepOfKeeps ==
  ASSUME IsFiniteSet(Videos), VideoInv, NEW v \in Videos, StepOf(v)
  PROVE  VideoInv'
<1>1. SlotsAreExact'
  BY SlotStepExact DEF VideoInv, StepOf
<1>2. ASSUME NEW w \in Videos PROVE StreamsInHand(w)'
  <2>1. CASE w = v
    BY <2>1 DEF StepOf
  <2>2. CASE w # v
    BY <2>2, FrameInHand DEF StepOf, SlotStep, VideoInv
  <2>. QED  BY <2>1, <2>2
<1>. QED  BY <1>1, <1>2 DEF VideoInv, StepOf

\* Telling streams to stop takes no word back; told all, each knows.
LEMMA AskAllTells ==
  ASSUME VideoTypes, NEW v \in Videos, NEW S \in {{}, Streams}, NEW kind \in StopKinds,
         AskAll(v, S, kind)
  PROVE  /\ asked' \in [Videos -> [Streams -> Asks]]
         /\ \A w \in Videos \ {v} : asked'[w] = asked[w]
         /\ \A s \in Streams : asked[v][s] # "none" => asked'[v][s] # "none"
         /\ \A s \in S : asked'[v][s] # "none"
         /\ S = {} => asked'[v] = asked[v]
<1>1. \A old \in Asks : Overruled(old, kind) \in Asks /\ Overruled(old, kind) # "none"
  BY DEF Overruled, Rank, Asks, StopKinds
<1>. DEFINE g == [s \in Streams |-> IF s \in S THEN Overruled(asked[v][s], kind) ELSE asked[v][s]]
<1>2. asked \in [Videos -> [Streams -> Asks]]
  BY DEF VideoTypes
<1>3. asked' = [asked EXCEPT ![v] = g]
  BY DEF AskAll
<1>4. /\ g \in [Streams -> Asks]
      /\ \A s \in S : g[s] # "none"
      /\ \A s \in Streams : asked[v][s] # "none" => g[s] # "none"
      /\ S = {} => g = asked[v]
  BY <1>1, <1>2
<1>. HIDE DEF g
<1>. QED  BY <1>2, <1>3, <1>4

\* When the accelerated way fails, yt-dlp takes over or the job returns.
LEMMA FailingFallsBack ==
  ASSUME VideoTypes, NEW v \in Videos, AcceleratedFails(v),
         phase[v] \in {"preparing", "streaming", "post"}
  PROVE  /\ SlotStep(v)
         /\ phase'[v] \in {"ytdlp", "returned"}
         /\ handles' \in [Videos -> {{}, Streams}]
<1>1. CASE stop[v] = "none"
  <2>1. To(v, "ytdlp") /\ UNCHANGED slots /\ handles' = [handles EXCEPT ![v] = {}]
    BY <1>1 DEF AcceleratedFails
  <2>. QED  BY <2>1, ToKeepsSlot DEF Holding, Phases, VideoTypes
<1>2. CASE stop[v] # "none"
  <2>1. Return(v, "error") /\ UNCHANGED handles
    BY <1>2 DEF AcceleratedFails
  <2>2. SlotStep(v) /\ phase'[v] = "returned"
    BY <2>1, ReturnGivesSlot
  <2>. QED  BY <2>1, <2>2 DEF VideoTypes
<1>. QED  BY <1>1, <1>2

\* The types, when phase is known to keep its own and the variables behind are as they were.
LEMMA TypesKept ==
  ASSUME VideoTypes, phase' \in [Videos -> Phases],
         UNCHANGED <<stop, asking, token, handles, stream, asked, next, report, limit>>
  PROVE  VideoTypes'
BY DEF VideoTypes

\* A step within the phases before the streams.
LEMMA EarlyStep ==
  ASSUME VideoInv, NEW v \in Videos, SlotStep(v), phase[v] \in Before,
         phase'[v] \in Before \cup GivenUp,
         UNCHANGED <<stop, asking, token, handles, stream, asked, next, report, limit>>
  PROVE  StepOf(v)
<1>1. VideoTypes'
  BY TypesKept DEF VideoInv, SlotStep
<1>2. \A s \in Streams : stream[v][s] = "none"
  BY DEF VideoInv, StreamsInHand, RunsInPhase
<1>3. ToldTogether(v)' /\ EndsAsTold(v)'
  BY DEF VideoInv, StreamsInHand, ToldTogether, EndsAsTold
<1>4. RunsInPhase(v)' /\ NoStray(v)'
  BY <1>2 DEF RunsInPhase, NoStray, Before, GivenUp, Waiting
<1>. QED  BY <1>1, <1>3, <1>4 DEF StepOf, StreamsInHand

\* A step to a phase that has given the streams up, when none runs or all are told.
LEMMA GivingUpStep ==
  ASSUME VideoInv, NEW v \in Videos, SlotStep(v), phase'[v] \in GivenUp,
         VideoTypes',
         \/ \A s \in Streams : stream[v][s] # "running"
         \/ \A s \in Streams : asked'[v][s] # "none",
         \A s \in Streams : asked[v][s] # "none" => asked'[v][s] # "none",
         ToldTogether(v)',
         \A w \in Videos \ {v} : asked'[w] = asked[w] /\ next'[w] = next[w],
         UNCHANGED stream
  PROVE  StepOf(v)
<1>1. EndsAsTold(v)'
  BY DEF VideoInv, StreamsInHand, EndsAsTold
<1>2. RunsInPhase(v)' /\ NoStray(v)'
  BY DEF RunsInPhase, NoStray, Before, GivenUp, Waiting
<1>. QED  BY <1>1, <1>2 DEF StepOf, StreamsInHand

---------------------------------------------------------------------------
(* The steps of a job before and after its streams.                        *)

\* The steps before there are streams.
LEMMA EarlySteps ==
  ASSUME VideoInv, NEW v \in Videos,
         Start(v) \/ CheckSlot(v) \/ AwaitSlot(v) \/ Stopped(v) \/ ToolsReady(v) \/ Probed(v)
  PROVE  StepOf(v)
<1>. USE DEF VideoInv
<1>1. CASE Start(v)
  <2>1. To(v, "arming") /\ UNCHANGED slots /\ phase[v] = "new"
    BY <1>1 DEF Start
  <2>2. SlotStep(v) /\ phase'[v] = "arming"
    BY <2>1, ToKeepsSlot DEF Holding, Phases, Waiting
  <2>. QED  BY <1>1, <2>1, <2>2, EarlyStep DEF Start, Before, Waiting
<1>2. CASE CheckSlot(v)
  <2>1. CASE slots < limit
    <3>1. phase[v] = "arming" /\ phase' = [phase EXCEPT ![v] = "tools"] /\ slots' = slots + 1
      BY <1>2, <2>1 DEF CheckSlot, To
    <3>2. SlotStep(v) /\ phase'[v] = "tools"
      BY <3>1 DEF SlotStep, VideoTypes, Phases, Holding, Alike
    <3>. QED  BY <1>2, <3>1, <3>2, EarlyStep DEF CheckSlot, Before, Waiting
  <2>2. CASE ~(slots < limit)
    <3>1. To(v, "checked") /\ UNCHANGED slots /\ phase[v] = "arming"
      BY <1>2, <2>2 DEF CheckSlot
    <3>2. SlotStep(v) /\ phase'[v] = "checked"
      BY <3>1, ToKeepsSlot DEF Holding, Phases, Waiting
    <3>. QED  BY <1>2, <3>1, <3>2, EarlyStep DEF CheckSlot, Before, Waiting
  <2>. QED  BY <2>1, <2>2
<1>3. CASE AwaitSlot(v)
  <2>1. To(v, "asleep") /\ UNCHANGED slots /\ phase[v] = "checked"
    BY <1>3 DEF AwaitSlot
  <2>2. SlotStep(v) /\ phase'[v] = "asleep"
    BY <2>1, ToKeepsSlot DEF Holding, Phases, Waiting
  <2>. QED  BY <1>3, <2>1, <2>2, EarlyStep DEF AwaitSlot, Before, Waiting
<1>4. CASE Stopped(v)
  <2>1. phase[v] \in Waiting \cup {"probing"} /\ Return(v, "error")
    BY <1>4 DEF Stopped
  <2>2. SlotStep(v) /\ phase'[v] = "returned"
    BY <2>1, ReturnGivesSlot DEF Waiting
  <2>. QED  BY <1>4, <2>1, <2>2, EarlyStep DEF Stopped, Before, GivenUp
<1>5. CASE ToolsReady(v)
  <2>1. phase[v] = "tools"
    BY <1>5 DEF ToolsReady
  <2>2. CASE To(v, "probing") /\ UNCHANGED <<result, slots>>
    <3>1. SlotStep(v) /\ phase'[v] = "probing"
      BY <2>1, <2>2, ToKeepsSlot DEF Holding, Phases
    <3>. QED  BY <1>5, <2>1, <3>1, EarlyStep DEF ToolsReady, Before
  <2>3. CASE Return(v, "error")
    <3>1. SlotStep(v) /\ phase'[v] = "returned"
      BY <2>1, <2>3, ReturnGivesSlot
    <3>. QED  BY <1>5, <2>1, <3>1, EarlyStep DEF ToolsReady, Before, GivenUp
  <2>. QED  BY <1>5, <2>2, <2>3 DEF ToolsReady
<1>6. CASE Probed(v)
  <2>1. phase[v] = "probing"
    BY <1>6 DEF Probed
  <2>2. ASSUME NEW p \in {"preparing", "ytdlp"}, To(v, p), UNCHANGED <<result, slots>>
        PROVE  StepOf(v)
    <3>1. SlotStep(v) /\ phase'[v] = p
      BY <2>1, <2>2, ToKeepsSlot DEF Holding, Phases
    <3>. QED  BY <1>6, <2>1, <2>2, <3>1, EarlyStep DEF Probed, Before, GivenUp
  <2>3. CASE Return(v, "error")
    <3>1. SlotStep(v) /\ phase'[v] = "returned"
      BY <2>1, <2>3, ReturnGivesSlot
    <3>. QED  BY <1>6, <2>1, <3>1, EarlyStep DEF Probed, Before, GivenUp
  <2>. QED  BY <1>6, <2>2, <2>3 DEF Probed
<1>. QED  BY <1>1, <1>2, <1>3, <1>4, <1>5, <1>6

\* The steps after the streams are done.
LEMMA LateSteps ==
  ASSUME VideoInv, NEW v \in Videos, YtDlpEnds(v) \/ Report(v)
  PROVE  StepOf(v)
<1>. USE DEF VideoInv
<1>0. ToldTogether(v) /\ (phase[v] \in GivenUp =>
        \A s \in Streams : stream[v][s] = "running" => asked[v][s] # "none")
  BY DEF StreamsInHand, NoStray
<1>1. ASSUME SlotStep(v), VideoTypes', phase[v] \in GivenUp, phase'[v] \in GivenUp,
             UNCHANGED <<stream, asked, next>>
      PROVE  StepOf(v)
  <2>1. ToldTogether(v)' /\ EndsAsTold(v)' /\ NoStray(v)'
    BY <1>0, <1>1 DEF StreamsInHand, ToldTogether, EndsAsTold, NoStray
  <2>2. RunsInPhase(v)'
    BY <1>1 DEF RunsInPhase, GivenUp, Before, Waiting
  <2>. QED  BY <1>1, <2>1, <2>2 DEF StepOf, StreamsInHand
<1>2. CASE YtDlpEnds(v)
  <2>1. PICK r \in {"completed", "error"} : Return(v, r)
    BY <1>2 DEF YtDlpEnds
  <2>2. phase[v] = "ytdlp"
    BY <1>2 DEF YtDlpEnds
  <2>3. SlotStep(v) /\ phase'[v] = "returned"
    BY <2>1, <2>2, ReturnGivesSlot
  <2>4. VideoTypes'
    BY <1>2, <2>3, TypesKept DEF YtDlpEnds, SlotStep
  <2>. QED  BY <1>1, <1>2, <2>2, <2>3, <2>4 DEF YtDlpEnds, GivenUp
<1>3. CASE Report(v)
  <2>1. phase[v] = "returned" /\ To(v, "reported") /\ UNCHANGED slots
    BY <1>3 DEF Report
  <2>2. SlotStep(v) /\ phase'[v] = "reported"
    BY <2>1, ToKeepsSlot DEF Holding, Phases
  <2>3. Outcome(v) \in Reports
    BY DEF Outcome, Reports
  <2>4. report' \in [Videos -> Reports]
    BY <1>3, <2>3 DEF Report, VideoTypes
  <2>5. VideoTypes'
    BY <1>3, <2>2, <2>4 DEF Report, VideoTypes, SlotStep
  <2>. QED  BY <1>1, <1>3, <2>1, <2>2, <2>5 DEF Report, GivenUp
<1>. QED  BY <1>2, <1>3

---------------------------------------------------------------------------
(* The steps of a job with its streams.                                    *)

\* The streams are started, or yt-dlp takes over.
LEMMA StartStreamsStep ==
  ASSUME VideoInv, NEW v \in Videos, StartStreams(v)
  PROVE  StepOf(v)
<1>. USE DEF VideoInv
<1>1. phase[v] = "preparing"
  BY DEF StartStreams
<1>2. \A s \in Streams : stream[v][s] = "none"
  BY <1>1 DEF StreamsInHand, RunsInPhase, Before
<1>3. CASE AcceleratedFails(v) /\ UNCHANGED <<temp, stream>>
  <2>1. SlotStep(v) /\ phase'[v] \in GivenUp /\ handles' \in [Videos -> {{}, Streams}]
    BY <1>1, <1>3, FailingFallsBack DEF GivenUp
  <2>2. VideoTypes' /\ ToldTogether(v)'
    BY <1>3, <2>1 DEF StartStreams, VideoTypes, SlotStep, StreamsInHand, ToldTogether
  <2>. QED  BY <1>2, <1>3, <2>1, <2>2, GivingUpStep DEF StartStreams
<1>4. CASE /\ stream' = [stream EXCEPT ![v] = [s \in Streams |-> "running"]]
           /\ To(v, "started") /\ UNCHANGED <<handles, result, slots>>
  <2>1. SlotStep(v) /\ phase'[v] = "started"
    BY <1>1, <1>4, ToKeepsSlot DEF Holding, Phases
  <2>2. /\ stream' \in [Videos -> [Streams -> StreamStates]]
        /\ \A w \in Videos \ {v} : stream'[w] = stream[w]
        /\ \A s \in Streams : stream'[v][s] = "running"
    BY <1>4 DEF VideoTypes, StreamStates
  <2>3. VideoTypes'
    BY <1>4, <2>1, <2>2 DEF StartStreams, VideoTypes, SlotStep
  <2>4. ToldTogether(v)' /\ EndsAsTold(v)'
    BY <2>2 DEF StartStreams, StreamsInHand, ToldTogether, EndsAsTold
  <2>5. RunsInPhase(v)' /\ NoStray(v)'
    BY <2>1 DEF RunsInPhase, NoStray, Before, GivenUp, Waiting
  <2>. QED  BY <2>1, <2>2, <2>3, <2>4, <2>5 DEF StartStreams, StepOf, StreamsInHand
<1>. QED  BY <1>3, <1>4 DEF StartStreams

\* The handles of the streams are kept.
LEMMA KeepHandlesStep ==
  ASSUME VideoConstants, VideoInv, NEW v \in Videos, KeepHandles(v)
  PROVE  StepOf(v)
<1>. USE DEF VideoInv
<1>1. phase[v] = "started" /\ To(v, "streaming") /\ UNCHANGED slots
  BY DEF KeepHandles
<1>2. SlotStep(v) /\ phase'[v] = "streaming"
  BY <1>1, ToKeepsSlot DEF Holding, Phases
<1>3. 1 \in 1 .. Len(Order) + 1
  BY DEF VideoConstants
<1>4. /\ handles' \in [Videos -> {{}, Streams}] /\ next' \in [Videos -> 1 .. Len(Order) + 1]
      /\ next'[v] = 1 /\ \A w \in Videos \ {v} : next'[w] = next[w]
  BY <1>3 DEF KeepHandles, VideoTypes
<1>5. VideoTypes'
  BY <1>2, <1>4 DEF KeepHandles, VideoTypes, SlotStep
<1>6. ToldTogether(v)' /\ EndsAsTold(v)'
  BY DEF KeepHandles, StreamsInHand, ToldTogether, EndsAsTold
<1>7. RunsInPhase(v)' /\ NoStray(v)'
  BY <1>2, <1>4 DEF RunsInPhase, NoStray, Before, GivenUp, Waiting
<1>. QED  BY <1>2, <1>4, <1>5, <1>6, <1>7 DEF KeepHandles, StepOf, StreamsInHand

\* A stream that ended stopped says that all were told.
LEMMA StoppedMeansAllTold ==
  ASSUME VideoInv, NEW v \in Videos, NEW s \in Streams, stream[v][s] \in {"paused", "cancelled"}
  PROVE  \A t \in Streams : asked[v][t] # "none"
BY DEF VideoInv, StreamsInHand, ToldTogether, EndsAsTold

\* One stream is waited for.
LEMMA StreamJoinedStep ==
  ASSUME VideoConstants, VideoInv, NEW v \in Videos, StreamJoined(v)
  PROVE  StepOf(v)
<1>. USE DEF VideoInv
<1>. DEFINE s == Order[next[v]]
<1>1. /\ phase[v] = "streaming" /\ next[v] <= Len(Order) /\ next[v] \in 1 .. Len(Order) + 1
      /\ stream[v][s] \notin {"none", "running"}
  BY DEF StreamJoined, VideoTypes
<1>2. s \in Streams /\ Len(Order) \in Nat
  BY <1>1 DEF VideoConstants, Streams
<1>3. UNCHANGED <<stop, asking, token, report, stream, limit>>
  BY DEF StreamJoined
<1>4. CASE /\ next' = [next EXCEPT ![v] = @ + 1]
           /\ UNCHANGED <<phase, handles, result, slots, asked>>
  <2>1. /\ next' \in [Videos -> 1 .. Len(Order) + 1] /\ next'[v] = next[v] + 1
        /\ \A w \in Videos \ {v} : next'[w] = next[w]
    BY <1>1, <1>2, <1>4 DEF VideoTypes
  <2>2. SlotStep(v)
    BY <1>4 DEF SlotStep, VideoTypes, Alike
  <2>3. VideoTypes'
    BY <1>3, <1>4, <2>1 DEF VideoTypes
  <2>4. ToldTogether(v)' /\ EndsAsTold(v)'
    BY <1>3, <1>4 DEF StreamsInHand, ToldTogether, EndsAsTold
  <2>5. \A i \in 1 .. next[v] - 1 : stream[v][Order[i]] # "running"
    BY <1>1 DEF StreamsInHand, RunsInPhase
  <2>6. \A i \in 1 .. next'[v] - 1 : stream[v][Order[i]] # "running"
    BY <1>1, <2>1, <2>5
  <2>7. RunsInPhase(v)' /\ NoStray(v)'
    BY <1>1, <1>3, <1>4, <2>6 DEF RunsInPhase, NoStray, Before, GivenUp, Waiting
  <2>. QED  BY <1>3, <1>4, <2>1, <2>2, <2>3, <2>4, <2>7 DEF StepOf, StreamsInHand
<1>5. CASE AcceleratedFails(v) /\ UNCHANGED next
           /\ \/ stream[v][s] \in {"paused", "cancelled"} /\ UNCHANGED asked
              \/ AskAll(v, Streams, "cancel")
  <2>1. SlotStep(v) /\ phase'[v] \in GivenUp /\ handles' \in [Videos -> {{}, Streams}]
    BY <1>1, <1>5, FailingFallsBack DEF GivenUp
  <2>2. /\ asked' \in [Videos -> [Streams -> Asks]]
        /\ \A w \in Videos \ {v} : asked'[w] = asked[w]
        /\ \A t \in Streams : asked'[v][t] # "none"
    <3>1. CASE stream[v][s] \in {"paused", "cancelled"} /\ UNCHANGED asked
      BY <1>2, <3>1, StoppedMeansAllTold DEF VideoTypes
    <3>2. CASE AskAll(v, Streams, "cancel")
      BY <3>2, AskAllTells DEF StopKinds
    <3>. QED  BY <1>5, <3>1, <3>2
  <2>3. VideoTypes'
    BY <1>3, <1>5, <2>1, <2>2 DEF VideoTypes, SlotStep
  <2>4. ToldTogether(v)'
    BY <2>2 DEF ToldTogether
  <2>. QED  BY <1>3, <1>5, <2>1, <2>2, <2>3, <2>4, GivingUpStep
<1>. QED  BY <1>4, <1>5 DEF StreamJoined, CancelOthers

\* When the last was waited for, none runs: each stream has its place in the order.
LEMMA StreamsDoneStep ==
  ASSUME VideoConstants, VideoInv, NEW v \in Videos, StreamsDone(v)
  PROVE  StepOf(v)
<1>. USE DEF VideoInv
<1>1. phase[v] = "streaming" /\ next[v] > Len(Order) /\ To(v, "post") /\ UNCHANGED slots
  BY DEF StreamsDone
<1>2. SlotStep(v) /\ phase'[v] = "post"
  BY <1>1, ToKeepsSlot DEF Holding, Phases
<1>3. ASSUME NEW s \in Streams PROVE stream[v][s] # "running"
  <2>1. PICK i \in 1 .. Len(Order) : s = Order[i]
    BY DEF Streams, VideoConstants
  <2>2. i \in 1 .. next[v] - 1
    BY <1>1 DEF VideoTypes, VideoConstants
  <2>. QED  BY <1>1, <2>1, <2>2 DEF StreamsInHand, RunsInPhase
<1>4. VideoTypes'
  BY <1>2 DEF StreamsDone, VideoTypes, SlotStep
<1>5. ToldTogether(v)' /\ EndsAsTold(v)'
  BY DEF StreamsDone, StreamsInHand, ToldTogether, EndsAsTold
<1>6. RunsInPhase(v)' /\ NoStray(v)'
  BY <1>2, <1>3 DEF StreamsDone, RunsInPhase, NoStray, Before, GivenUp, Waiting
<1>. QED  BY <1>2, <1>4, <1>5, <1>6 DEF StreamsDone, StepOf, StreamsInHand

\* The streams are joined by ffmpeg.
LEMMA PostProcessedStep ==
  ASSUME VideoInv, NEW v \in Videos, PostProcessed(v)
  PROVE  StepOf(v)
<1>. USE DEF VideoInv
<1>1. phase[v] = "post" /\ \A s \in Streams : stream[v][s] # "running"
  BY DEF PostProcessed, StreamsInHand, RunsInPhase
<1>2. SlotStep(v) /\ phase'[v] \in GivenUp /\ handles' \in [Videos -> {{}, Streams}]
  <2>1. CASE Return(v, "completed") /\ UNCHANGED handles
    BY <1>1, <2>1, ReturnGivesSlot DEF GivenUp, VideoTypes
  <2>2. CASE AcceleratedFails(v)
    BY <1>1, <2>2, FailingFallsBack DEF GivenUp
  <2>. QED  BY <2>1, <2>2 DEF PostProcessed
<1>3. VideoTypes' /\ ToldTogether(v)'
  BY <1>2 DEF PostProcessed, VideoTypes, SlotStep, StreamsInHand, ToldTogether
<1>. QED  BY <1>1, <1>2, <1>3, GivingUpStep DEF PostProcessed

---------------------------------------------------------------------------
(* Stops, streams that end and the limit.                                  *)

\* A step that leaves phases and slots alone.
LEMMA SamePhaseStep ==
  ASSUME VideoTypes, NEW v \in Videos, UNCHANGED <<phase, slots>>
  PROVE  SlotStep(v)
BY DEF SlotStep, VideoTypes, Alike

\* A stop is asked for.
LEMMA StopStep ==
  ASSUME VideoInv, NEW v \in Videos, NEW kind \in StopKinds, Stop(v, kind)
  PROVE  StepOf(v)
<1>. USE DEF VideoInv
<1>1. SlotStep(v)
  BY SamePhaseStep DEF Stop
<1>2. VideoTypes'
  BY DEF Stop, VideoTypes, Asks
<1>3. StreamsInHand(v)'
  BY FrameInHand DEF Stop, Alike
<1>. QED  BY <1>1, <1>2, <1>3 DEF Stop, StepOf

\* A stop reaches the streams with handles.
LEMMA StopStreamsStep ==
  ASSUME VideoInv, NEW v \in Videos, NEW kind \in StopKinds, StopStreams(v, kind)
  PROVE  StepOf(v)
<1>. USE DEF VideoInv
<1>1. SlotStep(v)
  BY SamePhaseStep DEF StopStreams
<1>2. handles[v] \in {{}, Streams} /\ AskAll(v, handles[v], kind)
  BY DEF StopStreams, VideoTypes
<1>3. /\ asked' \in [Videos -> [Streams -> Asks]]
      /\ \A w \in Videos \ {v} : asked'[w] = asked[w]
      /\ \A s \in Streams : asked[v][s] # "none" => asked'[v][s] # "none"
      /\ \A s \in handles[v] : asked'[v][s] # "none"
      /\ handles[v] = {} => asked'[v] = asked[v]
  BY <1>2, AskAllTells
<1>4. VideoTypes'
  <2>1. asking' \in [Videos -> [StopKinds -> Nat]]
    BY DEF StopStreams, VideoTypes
  <2>. QED  BY <1>3, <2>1 DEF StopStreams, VideoTypes
<1>5. ToldTogether(v)'
  BY <1>2, <1>3 DEF StreamsInHand, ToldTogether
<1>6. EndsAsTold(v)' /\ RunsInPhase(v)' /\ NoStray(v)'
  BY <1>3 DEF StopStreams, StreamsInHand, EndsAsTold, RunsInPhase, NoStray
<1>. QED  BY <1>1, <1>3, <1>4, <1>5, <1>6 DEF StopStreams, StepOf, StreamsInHand

\* A stream ends.
LEMMA StreamEndsStep ==
  ASSUME VideoConstants, VideoInv, NEW v \in Videos, NEW s \in Streams, StreamEnds(v, s)
  PROVE  StepOf(v)
<1>. USE DEF VideoInv
<1>0. UNCHANGED <<phase, stop, asking, token, handles, next, report, asked, slots, limit>>
  BY DEF StreamEnds, job
<1>1. SlotStep(v)
  BY <1>0, SamePhaseStep
<1>2. PICK r \in StreamStates \ {"none", "running"} :
        /\ stream' = [stream EXCEPT ![v][s] = r]
        /\ r \in {"paused", "cancelled"} => asked[v][s] # "none"
  BY DEF StreamEnds, StreamStates
<1>3. /\ stream' \in [Videos -> [Streams -> StreamStates]]
      /\ \A w \in Videos \ {v} : stream'[w] = stream[w]
      /\ stream'[v][s] = r /\ \A t \in Streams \ {s} : stream'[v][t] = stream[v][t]
  BY <1>2 DEF VideoTypes
<1>4. VideoTypes'
  BY <1>0, <1>3 DEF VideoTypes
<1>5. ToldTogether(v)' /\ EndsAsTold(v)' /\ NoStray(v)'
  BY <1>0, <1>2, <1>3 DEF StreamsInHand, ToldTogether, EndsAsTold, NoStray, GivenUp
<1>6. RunsInPhase(v)'
  <2>1. \A t \in Streams : stream[v][t] # "running" => stream'[v][t] # "running"
    BY <1>2, <1>3
  <2>2. phase[v] \notin Before
    BY DEF StreamEnds, StreamsInHand, RunsInPhase
  <2>3. \A i \in 1 .. next[v] - 1 : i \in DOMAIN Order
    BY DEF VideoTypes, VideoConstants
  <2>4. \A i \in 1 .. next[v] - 1 : Order[i] \in Streams
    BY <2>3 DEF Streams
  <2>. QED  BY <1>0, <2>1, <2>2, <2>4 DEF StreamsInHand, RunsInPhase
<1>. QED  BY <1>0, <1>1, <1>3, <1>4, <1>5, <1>6 DEF StepOf, StreamsInHand

\* A new limit wakes the waiting jobs and leaves the count alone.
LEMMA SetLimitKeeps ==
  ASSUME VideoInv, NEW n \in Limits, SetLimit(n)
  PROVE  VideoInv'
<1>. USE DEF VideoInv
<1>1. phase' = Woken(phase) /\ slots' = slots
  BY DEF SetLimit, CountAfterLimit
<1>2. phase' \in [Videos -> Phases] /\ \A v \in Videos : Alike(phase[v], phase'[v])
  BY <1>1, WokenAlike DEF VideoTypes
<1>3. VideoTypes'
  BY <1>2 DEF SetLimit, VideoTypes
<1>4. AtWork' = AtWork
  BY <1>2 DEF AtWork, Alike, Holding, Waiting
<1>5. SlotsAreExact'
  BY <1>1, <1>4 DEF SlotsAreExact, AtWork
<1>6. ASSUME NEW v \in Videos PROVE StreamsInHand(v)'
  BY <1>2, FrameInHand DEF SetLimit
<1>. QED  BY <1>3, <1>5, <1>6

---------------------------------------------------------------------------
(* The invariant holds.                                                    *)

\* The invariant holds at first.
LEMMA VideoInit ==
  ASSUME VideoConstants, Init
  PROVE  VideoInv
<1>1. 1 \in 1 .. Len(Order) + 1
  BY DEF VideoConstants
<1>2. VideoTypes
  BY <1>1 DEF Init, VideoTypes, Phases, Asks, StreamStates, Reports
<1>3. {v \in Videos : phase[v] \in Holding} = {}
  BY DEF Init, Holding
<1>4. SlotsAreExact
  BY <1>3, FS_EmptySet DEF Init, SlotsAreExact
<1>5. ASSUME NEW v \in Videos PROVE StreamsInHand(v)
  BY DEF Init, StreamsInHand, ToldTogether, EndsAsTold, RunsInPhase, NoStray, GivenUp
<1>. QED  BY <1>2, <1>4, <1>5 DEF VideoInv

\* Every step keeps the invariant.
LEMMA VideoNext ==
  ASSUME VideoConstants, IsFiniteSet(Videos), VideoInv, [Next]_vars
  PROVE  VideoInv'
<1>1. CASE UNCHANGED vars
  <2>1. VideoTypes' /\ SlotsAreExact'
    BY <1>1 DEF vars, job, VideoInv, VideoTypes, SlotsAreExact
  <2>2. \A v \in Videos : StreamsInHand(v)'
    BY <1>1, FrameInHand DEF vars, job, VideoInv, Alike
  <2>. QED  BY <2>1, <2>2 DEF VideoInv
<1>2. ASSUME NEW v \in Videos, Run(v) PROVE VideoInv'
  <2>1. StepOf(v)
    BY <1>2, EarlySteps, LateSteps, StartStreamsStep, KeepHandlesStep, StreamJoinedStep,
       StreamsDoneStep, PostProcessedStep DEF Run
  <2>. QED  BY <2>1, StepOfKeeps
<1>3. ASSUME NEW v \in Videos, Start(v) PROVE VideoInv'
  BY <1>3, EarlySteps, StepOfKeeps
<1>4. ASSUME NEW v \in Videos, NEW kind \in StopKinds, Stop(v, kind) \/ StopStreams(v, kind)
      PROVE  VideoInv'
  BY <1>4, StopStep, StopStreamsStep, StepOfKeeps
<1>5. ASSUME NEW v \in Videos, NEW s \in Streams, StreamEnds(v, s) PROVE VideoInv'
  BY <1>5, StreamEndsStep, StepOfKeeps
<1>6. ASSUME NEW n \in Limits, SetLimit(n) PROVE VideoInv'
  BY <1>6, SetLimitKeeps
<1>. QED  BY <1>1, <1>2, <1>3, <1>4, <1>5, <1>6 DEF Next

\* The invariant holds in every state.
LEMMA VideoInvariant ==
  ASSUME VideoConstants, IsFiniteSet(Videos)
  PROVE  Spec => []VideoInv
<1>1. Init => VideoInv
  BY VideoInit
<1>2. VideoInv /\ [Next]_vars => VideoInv'
  BY VideoNext
<1>. QED  BY <1>1, <1>2, PTL DEF Spec

\* The types (jobs.rs, VideoLimiter and VideoJob): every phase, stop, stream and count is one
\* the code can be in; the count of slots never drops below zero.
THEOREM VideoTypeCorrect ==
  ASSUME VideoConstants, IsFiniteSet(Videos)
  PROVE  Spec => []TypeOK
<1>1. VideoInv => TypeOK
  <2>1. ASSUME VideoInv PROVE slots \in Nat
    <3>1. IsFiniteSet(AtWork)
      BY FS_Subset DEF AtWork
    <3>. QED  BY <2>1, <3>1, FS_CardinalityType DEF VideoInv, SlotsAreExact, AtWork
  <2>. QED  BY <2>1 DEF VideoInv, VideoTypes, TypeOK, Phases, Asks, Reports
<1>. QED  BY <1>1, VideoInvariant, PTL

\* The video limiter (jobs.rs): however jobs wait, fail over to yt-dlp, are stopped and return,
\* and however the limit changes under them, the slots in use are those of the jobs at work.
THEOREM SlotsExact ==
  ASSUME VideoConstants, IsFiniteSet(Videos)
  PROVE  Spec => []SlotsAreExact
<1>1. VideoInv => SlotsAreExact
  BY DEF VideoInv
<1>. QED  BY <1>1, VideoInvariant, PTL

\* The streams of an accelerated video (jobs.rs, run_accelerated and VideoJob::stop): a job that
\* gave its streams up, for yt-dlp or for good, left none running that was not told to stop.
THEOREM NoStrayStreams ==
  ASSUME VideoConstants, IsFiniteSet(Videos)
  PROVE  Spec => []NoStrayStream
<1>1. VideoInv => NoStrayStream
  BY DEF VideoInv, StreamsInHand, NoStray, GivenUp, NoStrayStream
<1>. QED  BY <1>1, VideoInvariant, PTL
=============================================================================
