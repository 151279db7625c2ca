-------------------------- MODULE MediaJob_proofs --------------------------
(***************************************************************************)
(* Theorems about MediaJob, for any workers, tracks, segments, manifests   *)
(* and bounds: the types, the place of every segment, what a resume state  *)
(* and an output may rely on, and the files of other programs.             *)
(***************************************************************************)
EXTENDS MediaJob, FiniteSetTheorems, TLAPS

USE MediaAssumption

Results == {"none", "completed", "paused", "cancelled", "failed", "mismatch"}
Working == {"work", "concat", "mux", "main", "extra"}
Whole(p) == [plan |-> p, data |-> "synced"]

\* A worker without a segment is about to take one or is done; there are others only while
\* the segments are fetched, and then the manifest is known.
WorkersHaveJob ==
  /\ \A w \in Workers : worker[w].seg = 0 <=> worker[w].pc \in {"free", "ok", "err", "joined"}
  /\ stage # "work" => \A w \in Workers : worker[w].pc \in {"free", "joined"}
  /\ stage \in Working => plan \in Manifests

\* While the segments are fetched, none is in two places; as long as nothing made a worker give
\* up, none is lost, and a worker leaves when the queue is empty.  What is put together has all.
SegmentsPlaced ==
  /\ stage = "work" =>
       /\ queue \cap done = {}
       /\ \A w \in Workers : worker[w].seg \notin queue \cup done
       /\ \A v, w \in Workers : v # w => worker[v].seg # worker[w].seg \/ worker[v].seg = 0
  /\ stage = "work" /\ ~Stopping =>
       /\ \A w \in Workers : worker[w].pc \in {"ok", "joined"} => queue = {}
       /\ (\A w \in Workers : worker[w].pc # "err") =>
            \A i \in All : i \in queue \cup done \/ \E w \in Workers : worker[w].seg = i
  /\ stage \in Working \ {"work"} => done = All

\* What a state calls completed is lost or on stable storage.
Durable(state) ==
  state # NoState =>
    \A i \in state.completed : file[state.name][i] \in {NoFile, Whole(state.plan)}

\* A file appears under its name only when it is on stable storage, with the manifest of the
\* job; a job and the state that is saved while it runs are of one manifest and one directory.
FilesDurable ==
  /\ \A n \in Names, i \in All : file[n][i].data \in {"none", "synced"}
  /\ stage \in Working =>
       /\ \A i \in done : file[name][i] = Whole(plan)
       /\ saved # NoState => saved.plan = plan /\ saved.name = name
  /\ \A w \in Workers :
       /\ worker[w].pc = "rename" => worker[w].synced
       /\ worker[w].pc = "finish" => file[name][worker[w].seg] = Whole(plan)
  /\ Durable(saved)
  /\ stage = "ended" => Durable(outcome.state)

\* The tracks that were put together are of the job's manifest and on stable storage.
TracksWhole ==
  stage \in {"mux", "main", "extra"} =>
    \A t \in Tracks : track[t].plans \subseteq {plan} /\ track[t].whole /\ track[t].synced

MediaInvariant ==
  /\ MediaTypeOK /\ WorkersHaveJob
  /\ SegmentsPlaced /\ FilesDurable
  /\ TracksWhole /\ OutputIsWhole

(***************************************************************************)
(* Types.                                                                  *)
(***************************************************************************)
MediaTypes == MediaTypeOK /\ WorkersHaveJob

\* A worker that begins with a segment, and one that has none.
LEMMA BeginParts ==
  ASSUME NEW pc \in {"free", "fetch", "ok", "err"}, NEW i \in {0} \cup All
  PROVE  Begin(pc, i) \in WorkerRecords /\ Begin(pc, i).seg = i /\ Begin(pc, i).pc = pc
  BY DEF Begin, WorkerRecords

LEMMA MediaTypesInit == MediaInit => MediaTypes
<1> SUFFICES ASSUME MediaInit  PROVE MediaTypes
  OBVIOUS
<1>0. Free \in WorkerRecords /\ Free.seg = 0 /\ Free.pc = "free"
  BY BeginParts DEF Free, Idle
<1>1. worker \in [Workers -> WorkerRecords]
  BY <1>0 DEF MediaInit
<1>2. file \in [Names -> [All -> Files]]
  BY DEF MediaInit, Files
<1>3. target \in [Names -> Targets] /\ track \in [Tracks -> Contents]
  BY DEF MediaInit, Targets, Nothing, Contents
<1>4. NoState \in ResumeStates /\ 0 \in Names
  BY DEF ResumeStates, Names
<1>5. MediaTypeOK
  <2>1. outcome.result = "none" /\ outcome.state = NoState
    BY DEF MediaInit, NoOutcome
  <2>2. outcome.state \in ResumeStates /\ saved \in ResumeStates /\ name \in Names
    BY <1>4, <2>1 DEF MediaInit
  <2>3. runs \in 0 .. MaxRuns /\ crashes \in 0 .. MaxCrashes
    BY DEF MediaInit
  <2> QED  BY <1>1, <1>2, <1>3, <2>1, <2>2, <2>3 DEF MediaInit, MediaTypeOK
<1>6. WorkersHaveJob
  BY <1>0 DEF MediaInit, WorkersHaveJob, Working
<1> QED  BY <1>5, <1>6 DEF MediaTypes

\* A worker goes on to r.
LEMMA WorkerTypes ==
  ASSUME MediaTypes, NEW w \in Workers, NEW r \in WorkerRecords, SetWorker(w, r),
         stage = "work", r.seg = 0 <=> r.pc \in {"free", "ok", "err", "joined"},
         UNCHANGED <<stage, plan>>
  PROVE  worker' \in [Workers -> WorkerRecords] /\ WorkersHaveJob'
<1>1. worker \in [Workers -> WorkerRecords]
  BY DEF MediaTypes, MediaTypeOK
<1>2. \A v \in Workers : worker'[v] = IF v = w THEN r ELSE worker[v]
  BY <1>1 DEF SetWorker
<1>3. WorkersHaveJob'
  BY <1>2 DEF WorkersHaveJob, MediaTypes, Working
<1> QED  BY <1>1, <1>3 DEF SetWorker

\* The parts of a worker, and where it may be in its work.
LEMMA WorkerParts ==
  ASSUME MediaTypes, NEW w \in Workers
  PROVE  /\ worker[w] \in WorkerRecords
         /\ worker[w].pc \notin {"free", "joined"} => stage = "work"
         /\ worker[w].pc \notin {"free", "ok", "err", "joined"} => worker[w].seg \in All
         /\ worker[w].pc \in {"free", "ok", "err", "joined"} => worker[w].seg = 0
         /\ \A pc : SetPc(w, pc) => SetWorker(w, [worker[w] EXCEPT !.pc = pc])
  BY DEF MediaTypes, MediaTypeOK, WorkersHaveJob, WorkerRecords, SetPc, SetWorker

\* What a worker's step leaves alone keeps its type.
LEMMA RestTypes ==
  ASSUME MediaTypes, OnlyWorkers, worker' \in [Workers -> WorkerRecords],
         done' \subseteq All, queue' \subseteq All, cachedKey' \in BOOLEAN,
         keyLock' \in Workers \cup {NoWorker}, file' \in [Names -> [All -> Files]],
         fresh' \subseteq Names \X All
  PROVE  MediaTypeOK'
  BY DEF MediaTypes, MediaTypeOK, OnlyWorkers, owner

\* The steps of a worker on its own.
LEMMA LocalTypes ==
  ASSUME MediaTypes, NEW w \in Workers, LocalStep(w)
  PROVE  MediaTypes'
<1> DEFINE At(pc) == [worker[w] EXCEPT !.pc = pc]
<1>a. MediaTypeOK
  BY DEF MediaTypes
<1>b. \A pc \in {"ok", "joined"} :
        worker[w].pc \in {"free", "ok", "err", "joined"} =>
          At(pc) \in WorkerRecords /\ At(pc).seg = 0 /\ At(pc).pc = pc
  BY WorkerParts DEF WorkerRecords
<1>c. \A pc \in {"fetch", "write", "sync", "rename", "finish"} :
        worker[w].pc \notin {"free", "ok", "err", "joined"} =>
          At(pc) \in WorkerRecords /\ At(pc).seg # 0 /\ At(pc).pc = pc
  BY WorkerParts DEF WorkerRecords
<1>d. \A pc \in {"free", "ok", "err"} :
        Idle(pc) \in WorkerRecords /\ Idle(pc).seg = 0 /\ Idle(pc).pc = pc
  BY BeginParts DEF Idle
<1>1. CASE Take(w)
  <2>1. PICK i \in queue : SetWorker(w, Begin("fetch", i)) /\ queue' = queue \ {i}
    BY <1>1 DEF Take
  <2>a. i \in All /\ i # 0
    BY <1>a, <2>1 DEF MediaTypeOK
  <2>2. Begin("fetch", i) \in WorkerRecords /\ Begin("fetch", i).seg # 0 /\ Begin("fetch", i).pc = "fetch"
    BY <2>a, BeginParts
  <2>3. worker' \in [Workers -> WorkerRecords] /\ WorkersHaveJob'
    BY <1>1, <2>1, <2>2, WorkerTypes DEF Take, OnlyWorkers
  <2> QED  BY <1>1, <1>a, <2>1, <2>3, RestTypes DEF Take, MediaTypes, MediaTypeOK
<1>2. CASE Leave(w)
  <2>1. worker' \in [Workers -> WorkerRecords] /\ WorkersHaveJob'
    BY <1>2, <1>b, WorkerParts, WorkerTypes DEF Leave, OnlyWorkers
  <2> QED  BY <1>2, <1>a, <2>1, RestTypes DEF Leave, MediaTypes, MediaTypeOK
<1>3. CASE Abort(w)
  <2>1. worker' \in [Workers -> WorkerRecords] /\ WorkersHaveJob'
    BY <1>3, <1>d, WorkerParts, WorkerTypes DEF Abort, OnlyWorkers
  <2> QED  BY <1>3, <1>a, <2>1, RestTypes DEF Abort, FreeKey, MediaTypes, MediaTypeOK
<1>4. CASE Retry(w)
  <2>1. worker' \in [Workers -> WorkerRecords] /\ WorkersHaveJob'
    BY <1>4, <1>c, WorkerParts, WorkerTypes DEF Retry, OnlyWorkers
  <2> QED  BY <1>4, <1>a, <2>1, RestTypes DEF Retry, MediaTypes, MediaTypeOK
<1>5. CASE WriteTemporary(w)
  <2>1. worker' \in [Workers -> WorkerRecords] /\ WorkersHaveJob'
    BY <1>5, <1>c, WorkerParts, WorkerTypes DEF WriteTemporary, OnlyWorkers
  <2> QED  BY <1>5, <1>a, <2>1, RestTypes DEF WriteTemporary, MediaTypes, MediaTypeOK
<1>6. CASE SyncTemporary(w)
  <2>1. LET r == [worker[w] EXCEPT !.pc = "rename", !.synced = TRUE]
        IN  r \in WorkerRecords /\ r.seg # 0 /\ r.pc = "rename"
    BY <1>6, WorkerParts DEF SyncTemporary, WorkerRecords
  <2>2. worker' \in [Workers -> WorkerRecords] /\ WorkersHaveJob'
    BY <1>6, <2>1, WorkerParts, WorkerTypes DEF SyncTemporary, OnlyWorkers
  <2> QED  BY <1>6, <1>a, <2>2, RestTypes DEF SyncTemporary, MediaTypes, MediaTypeOK
<1>7. CASE RenameTemporary(w)
  <2>1. worker' \in [Workers -> WorkerRecords] /\ WorkersHaveJob'
    BY <1>7, <1>c, WorkerParts, WorkerTypes DEF RenameTemporary, OnlyWorkers
  <2>2. name \in Names /\ worker[w].seg \in All /\ plan \in Manifests
    BY <1>7, <1>a, WorkerParts DEF RenameTemporary, MediaTypes, MediaTypeOK, WorkersHaveJob, Working
  <2>3. [plan |-> plan, data |-> IF worker[w].synced THEN "synced" ELSE "cached"] \in Files
    BY <2>2 DEF Files
  <2>4. file' \in [Names -> [All -> Files]] /\ fresh' \subseteq Names \X All
    BY <1>7, <1>a, <2>2, <2>3 DEF RenameTemporary, MediaTypeOK
  <2> QED  BY <1>7, <1>a, <2>1, <2>4, RestTypes DEF RenameTemporary, MediaTypes, MediaTypeOK
<1>8. CASE Finish(w)
  <2>1. worker' \in [Workers -> WorkerRecords] /\ WorkersHaveJob'
    BY <1>8, <1>d, WorkerParts, WorkerTypes DEF Finish, OnlyWorkers, Free
  <2>2. done' \subseteq All
    BY <1>8, <1>a, WorkerParts DEF Finish, MediaTypeOK
  <2> QED  BY <1>8, <1>a, <2>1, <2>2, RestTypes DEF Finish, MediaTypes, MediaTypeOK
<1>9. CASE Join(w)
  <2>1. worker' \in [Workers -> WorkerRecords] /\ WorkersHaveJob'
    BY <1>9, <1>b, WorkerParts, WorkerTypes DEF Join
  <2> QED  BY <1>9, <1>a, <2>1 DEF Join, MediaTypes, MediaTypeOK, disk, owner
<1> QED  BY <1>1, <1>2, <1>3, <1>4, <1>5, <1>6, <1>7, <1>8, <1>9 DEF LocalStep

\* The steps of a worker that depend on the network or on the disk.
LEMMA NetworkTypes ==
  ASSUME MediaTypes, NEW w \in Workers, NetworkStep(w)
  PROVE  MediaTypes'
<1> DEFINE At(pc) == [worker[w] EXCEPT !.pc = pc]
<1>a. MediaTypeOK
  BY DEF MediaTypes
<1>b. \A pc \in {"key", "keyfetch", "write"} :
        worker[w].pc \notin {"free", "ok", "err", "joined"} =>
          At(pc) \in WorkerRecords /\ At(pc).seg # 0 /\ At(pc).pc = pc
  BY WorkerParts DEF WorkerRecords
<1>c. Idle("err") \in WorkerRecords /\ Idle("err").seg = 0 /\ Idle("err").pc = "err"
  BY BeginParts DEF Idle
<1>1. CASE Fetched(w)
  <2>1. worker' \in [Workers -> WorkerRecords] /\ WorkersHaveJob'
    BY <1>1, <1>b, WorkerParts, WorkerTypes DEF Fetched, OnlyWorkers
  <2> QED  BY <1>1, <1>a, <2>1, RestTypes DEF Fetched, MediaTypes, MediaTypeOK
<1>2. CASE AskKey(w)
  <2>1. worker' \in [Workers -> WorkerRecords] /\ WorkersHaveJob'
    BY <1>2, <1>b, WorkerParts, WorkerTypes DEF AskKey, OnlyWorkers
  <2> QED  BY <1>2, <1>a, <2>1, RestTypes DEF AskKey, MediaTypes, MediaTypeOK
<1>3. CASE WriteFails(w)
  <2>1. worker' \in [Workers -> WorkerRecords] /\ WorkersHaveJob'
    BY <1>3, <1>c, WorkerParts, WorkerTypes DEF WriteFails, OnlyWorkers
  <2> QED  BY <1>3, <1>a, <2>1, RestTypes DEF WriteFails, MediaTypes, MediaTypeOK
<1>4. ASSUME NEW b \in BOOLEAN, KeyReady(w, b)  PROVE MediaTypes'
  <2>1. worker' \in [Workers -> WorkerRecords] /\ WorkersHaveJob'
    BY <1>4, <1>b, <1>c, WorkerParts, WorkerTypes DEF KeyReady, OnlyWorkers
  <2> QED  BY <1>4, <1>a, <2>1, RestTypes DEF KeyReady, FreeKey, MediaTypes, MediaTypeOK
<1>5. ASSUME NEW b \in BOOLEAN, FetchFails(w, b)  PROVE MediaTypes'
  <2>1. ASSUME b /\ worker[w].attempt < MaxRetries
        PROVE  worker' \in [Workers -> WorkerRecords] /\ WorkersHaveJob'
    <3> DEFINE r == [worker[w] EXCEPT !.pc = "backoff", !.attempt = worker[w].attempt + 1]
    <3>1. worker[w] \in WorkerRecords /\ worker[w].seg \in All /\ stage = "work"
      BY <1>5, WorkerParts DEF FetchFails
    <3>2. worker[w].attempt + 1 \in 0 .. MaxRetries
      BY <2>1, <3>1 DEF WorkerRecords
    <3>3. r \in WorkerRecords /\ r.seg # 0 /\ r.pc = "backoff"
      BY <3>1, <3>2 DEF WorkerRecords
    <3>4. SetWorker(w, r)
      BY <1>5, <2>1 DEF FetchFails
    <3> HIDE DEF r
    <3> QED  BY <1>5, <3>1, <3>3, <3>4, WorkerTypes DEF FetchFails, OnlyWorkers
  <2>2. ASSUME ~(b /\ worker[w].attempt < MaxRetries)
        PROVE  worker' \in [Workers -> WorkerRecords] /\ WorkersHaveJob'
    <3>1. SetWorker(w, Idle("err"))
      BY <1>5, <2>2 DEF FetchFails
    <3> QED  BY <1>5, <3>1, <1>c, WorkerParts, WorkerTypes DEF FetchFails, OnlyWorkers
  <2>3. worker' \in [Workers -> WorkerRecords] /\ WorkersHaveJob'
    BY <2>1, <2>2, Zenon
  <2> QED  BY <1>5, <1>a, <2>3, RestTypes DEF FetchFails, FreeKey, MediaTypes, MediaTypeOK
<1> QED  BY <1>1, <1>2, <1>3, <1>4, <1>5 DEF NetworkStep

\* A job that has a resume state keeps one of its own type.
LEMMA SnapshotParts ==
  ASSUME MediaTypes, stage \in Working
  PROVE  /\ Snapshot \in ResumeStates /\ Snapshot # NoState
         /\ Snapshot.plan = plan /\ Snapshot.completed = done /\ Snapshot.name = name
         /\ plan \in Manifests /\ name \in Names
<1>1. plan \in Manifests /\ plan # "none" /\ done \subseteq All /\ name \in Names
  BY DEF MediaTypes, MediaTypeOK, WorkersHaveJob
<1>2. Snapshot.plan = plan /\ NoState.plan = "none"
  BY DEF Snapshot, NoState
<1> QED  BY <1>1, <1>2 DEF Snapshot, ResumeStates

\* The parts of a resume state.
LEMMA StateParts ==
  ASSUME NEW state \in ResumeStates, state # NoState
  PROVE  state.plan \in Manifests /\ state.completed \subseteq All /\ state.name \in Names
  BY DEF ResumeStates

LEMMA EndTypes ==
  ASSUME MediaTypes, NEW result \in Results, NEW state \in ResumeStates, EndMedia(result, state),
         UNCHANGED <<target, extras>>, \A w \in Workers : worker[w].pc \in {"free", "joined"}
  PROVE  MediaTypes'
<1> DEFINE delete == result = "cancelled" /\ stopReason = "delete" /\ state # NoState
<1>1. NoState \in ResumeStates /\ NoFile \in Files
  BY DEF ResumeStates, Files
<1>2. outcome'.result = result /\ outcome'.state \in ResumeStates
  BY <1>1 DEF EndMedia
<1>3. file' \in [Names -> [All -> Files]]
  BY <1>1, StateParts DEF EndMedia, MediaTypes, MediaTypeOK
<1>4. dirs' \subseteq Names /\ fresh' \subseteq Names \X All
  BY DEF EndMedia, MediaTypes, MediaTypeOK
<1>5. stage' = "ended" /\ UNCHANGED work /\ UNCHANGED owner
  BY DEF EndMedia
<1>6. MediaTypeOK'
  BY <1>2, <1>3, <1>4, <1>5 DEF MediaTypes, MediaTypeOK, work, owner, Results
<1>7. WorkersHaveJob'
  BY <1>5 DEF MediaTypes, WorkersHaveJob, work, Working
<1> QED  BY <1>6, <1>7 DEF MediaTypes

LEMMA CompleteTypes ==
  ASSUME MediaTypes, Complete, stage # "work",
         target' \in [Names -> Targets], extras' \subseteq Contents
  PROVE  MediaTypes'
<1>1. NoState \in ResumeStates /\ NoFile \in Files
  BY DEF ResumeStates, Files
<1>2. outcome'.result = "completed" /\ outcome'.state \in ResumeStates
  BY <1>1 DEF Complete
<1>3. file' \in [Names -> [All -> Files]]
  BY <1>1 DEF Complete, MediaTypes, MediaTypeOK
<1>4. dirs' \subseteq Names /\ fresh' \subseteq Names \X All
  BY DEF Complete, MediaTypes, MediaTypeOK
<1>5. stage' = "ended" /\ UNCHANGED work /\ UNCHANGED owner
  BY DEF Complete
<1>6. MediaTypeOK'
  BY <1>2, <1>3, <1>4, <1>5 DEF MediaTypes, MediaTypeOK, work, owner
<1>7. WorkersHaveJob'
  BY <1>5 DEF MediaTypes, WorkersHaveJob, work, Working
<1> QED  BY <1>6, <1>7 DEF MediaTypes

\* What the tracks are put together from.
LEMMA TrackParts ==
  ASSUME MediaTypes, stage \in {"concat", "mux", "main", "extra"}
  PROVE  /\ ~MissingSegment => \A t \in Tracks : Concatenated(t) \in Contents
         /\ Muxed \in Contents /\ track[1] \in Contents /\ {track[t] : t \in Tracks} \subseteq Contents
         /\ Contents \subseteq Targets
<1>1. name \in Names /\ file \in [Names -> [All -> Files]] /\ track \in [Tracks -> Contents]
  BY DEF MediaTypes, MediaTypeOK
<1>2. ASSUME ~MissingSegment, NEW t \in Tracks  PROVE Concatenated(t) \in Contents
  <2>1. \A i \in SegmentsOf(t) : file[name][i] \in Files /\ file[name][i] # NoFile
    BY <1>1, <1>2 DEF MissingSegment, SegmentsOf
  <2>2. \A i \in SegmentsOf(t) : file[name][i].plan \in Manifests
    BY <2>1 DEF Files
  <2>3. {p.plan : p \in {file[name][i] : i \in SegmentsOf(t)}} \in SUBSET Manifests
    BY <2>2
  <2> QED  BY <2>3 DEF Concatenated, Contents
<1>3. \A t \in Tracks : track[t].plans \in SUBSET Manifests
  BY <1>1 DEF Contents
<1>4. UNION {track[t].plans : t \in Tracks} \in SUBSET Manifests
  BY <1>3
<1>5. Muxed \in Contents
  BY <1>4 DEF Muxed, Contents
<1> QED  BY <1>1, <1>2, <1>5 DEF Targets

\* A place for an output has nothing but, when the user chose so, an older file.
LEMMA PlaceParts ==
  ASSUME NEW n \in Names, NEW m \in Places(n)
  PROVE  m \in Names /\ (Policy # "overwrite" => target[m] = Nothing)
  BY DEF Places

LEMMA CoordinateTypes ==
  ASSUME MediaTypes, Coordinate
  PROVE  MediaTypes'
<1>a. MediaTypeOK /\ WorkersHaveJob
  BY DEF MediaTypes
<1>b. StopResult \in Results /\ "failed" \in Results /\ NoState \in ResumeStates
  BY DEF StopResult, Results, ResumeStates
<1>c. stage # "work" => \A w \in Workers : worker[w].pc \in {"free", "joined"}
  BY <1>a DEF WorkersHaveJob
<1>1. CASE EndOfWork
  BY <1>1, <1>b, SnapshotParts, EndTypes DEF EndOfWork, AllJoined, Working
<1>2. CASE BeginMerge
  BY <1>2, <1>a DEF BeginMerge, AllJoined, MediaTypes, MediaTypeOK, WorkersHaveJob, work, disk, owner,
     Working
<1>3. CASE Concat
  <2>1. track' \in [Tracks -> Contents]
    BY <1>3, TrackParts DEF Concat
  <2> QED  BY <1>3, <1>a, <2>1 DEF Concat, MediaTypes, MediaTypeOK, WorkersHaveJob, disk, owner, Working
<1>4. CASE ConcatFails
  BY <1>4, <1>b, <1>c, SnapshotParts, EndTypes DEF ConcatFails, Working
<1>5. CASE PlaceMain
  <2>1. PICK m \in Places(name) : target' = [target EXCEPT ![m] = track[1]]
    BY <1>5 DEF PlaceMain
  <2>2. target' \in [Names -> Targets]
    BY <1>5, <1>a, <2>1, TrackParts, PlaceParts DEF PlaceMain, MediaTypeOK
  <2> QED  BY <1>5, <1>a, <2>2 DEF PlaceMain, MediaTypes, MediaTypeOK, WorkersHaveJob, work, owner,
              Working
<1>6. CASE PlaceExtras
  <2>1. extras' \subseteq Contents /\ target' \in [Names -> Targets]
    BY <1>6, <1>a, TrackParts DEF PlaceExtras, MediaTypeOK
  <2> QED  BY <1>6, <2>1, CompleteTypes DEF PlaceExtras
<1>7. CASE PlaceFails
  BY <1>7, <1>b, <1>c, SnapshotParts, EndTypes DEF PlaceFails, Working
<1>8. CASE ManifestStopped
  BY <1>8, <1>b, <1>c, EndTypes DEF ManifestStopped
<1>9. CASE MuxStopped
  BY <1>9, <1>b, <1>c, SnapshotParts, EndTypes DEF MuxStopped, Working
<1> QED  BY <1>1, <1>2, <1>3, <1>4, <1>5, <1>6, <1>7, <1>8, <1>9 DEF Coordinate

\* No job is left.
LEMMA NoJobTypes ==
  ASSUME NoJob
  PROVE  /\ stopReason' = "none" /\ plan' = "none" /\ canRemux' = FALSE /\ name' \in Names
         /\ done' = {} /\ queue' = {} /\ cachedKey' = FALSE /\ keyLock' = NoWorker /\ halt' = FALSE
         /\ worker' \in [Workers -> WorkerRecords] /\ track' \in [Tracks -> Contents]
         /\ \A w \in Workers : worker'[w].seg = 0 /\ worker'[w].pc = "free"
<1>1. Free \in WorkerRecords /\ Free.seg = 0 /\ Free.pc = "free"
  BY BeginParts DEF Free, Idle
<1>2. Nothing \in Contents /\ 0 \in Names
  BY DEF Nothing, Contents, Names
<1> QED  BY <1>1, <1>2 DEF NoJob

LEMMA ReportTypes ==
  ASSUME MediaTypes, ReportOutcome
  PROVE  MediaTypes'
<1>1. NoState \in ResumeStates
  BY DEF ResumeStates
<1>2. saved' \in ResumeStates /\ finished' \in BOOLEAN /\ stage' = "idle"
  BY <1>1 DEF ReportOutcome, MediaTypes, MediaTypeOK
<1>3. MediaTypeOK'
  BY <1>2, NoJobTypes DEF ReportOutcome, MediaTypes, MediaTypeOK, disk
<1>4. WorkersHaveJob'
  BY <1>2, NoJobTypes DEF ReportOutcome, WorkersHaveJob, Working
<1> QED  BY <1>3, <1>4 DEF MediaTypes

\* What a crash makes of a segment file, and then of an output.
LEMMA CrashFiles ==
  ASSUME MediaTypes, Crash
  PROVE  /\ \A n \in Names, i \in All :
              file'[n][i] = NoFile \/ file'[n][i] = file[n][i]
              \/ (file[n][i].data = "cached" /\ file'[n][i] = [file[n][i] EXCEPT !.data = "torn"])
         /\ file' \in [Names -> [All -> Files]]
<1> DEFINE After(lost, torn, n, i) ==
             IF <<n, i>> \in lost THEN NoFile
             ELSE IF file[n][i].data = "cached" /\ torn
                  THEN [file[n][i] EXCEPT !.data = "torn"] ELSE file[n][i]
<1>1. PICK lost \in SUBSET fresh, torn \in BOOLEAN :
        file' = [n \in Names |-> [i \in All |-> After(lost, torn, n, i)]]
  BY DEF Crash
<1>2. \A n \in Names, i \in All : file'[n][i] = After(lost, torn, n, i)
  BY <1>1
<1>3. \A n \in Names, i \in All : file[n][i] \in Files
  BY DEF MediaTypes, MediaTypeOK
<1>4. \A f \in Files : f.data = "cached" => [f EXCEPT !.data = "torn"] \in Files
  BY DEF Files, NoFile
<1>5. NoFile \in Files
  BY DEF Files
<1>6. ASSUME NEW n \in Names, NEW i \in All  PROVE After(lost, torn, n, i) \in Files
  <2>1. CASE <<n, i>> \in lost
    BY <2>1, <1>5
  <2>2. CASE <<n, i>> \notin lost /\ file[n][i].data = "cached" /\ torn
    BY <2>2, <1>3, <1>4
  <2>3. CASE <<n, i>> \notin lost /\ ~(file[n][i].data = "cached" /\ torn)
    BY <2>3, <1>3
  <2> QED  BY <2>1, <2>2, <2>3
<1>7. file' \in [Names -> [All -> Files]]
  BY <1>1, <1>6
<1>8. ASSUME NEW n \in Names, NEW i \in All
      PROVE  file'[n][i] = NoFile \/ file'[n][i] = file[n][i]
             \/ (file[n][i].data = "cached" /\ file'[n][i] = [file[n][i] EXCEPT !.data = "torn"])
  <2>1. file'[n][i] = After(lost, torn, n, i)
    BY <1>2
  <2> QED  BY <2>1, Zenon
<1> QED  BY <1>7, <1>8

LEMMA CrashTargets ==
  ASSUME MediaTypes, Crash
  PROVE  /\ \A n \in Names :
              \/ target'[n] = target[n]
              \/ /\ ~target[n].synced /\ target[n] \notin {Nothing, Foreign}
                 /\ target'[n] = [target[n] EXCEPT !.whole = FALSE]
                 /\ target[n] \in Contents
         /\ target' \in [Names -> Targets]
<1>1. target \in [Names -> Targets]
  BY DEF MediaTypes, MediaTypeOK
<1>2. \A n \in Names : target'[n] = IF ~target[n].synced /\ target[n] # Nothing
                                   THEN [target[n] EXCEPT !.whole = FALSE] ELSE target[n]
  BY DEF Crash
<1>3. Foreign.synced
  BY DEF Foreign
<1>4. \A c \in Contents : [c EXCEPT !.whole = FALSE] \in Contents
  BY DEF Contents
<1>5. ASSUME NEW n \in Names
      PROVE  /\ \/ target'[n] = target[n]
                \/ /\ ~target[n].synced /\ target[n] \notin {Nothing, Foreign}
                   /\ target'[n] = [target[n] EXCEPT !.whole = FALSE]
                   /\ target[n] \in Contents
             /\ target'[n] \in Targets
  <2>1. CASE ~target[n].synced /\ target[n] # Nothing
    <3>1. target[n] \notin {Nothing, Foreign} /\ target[n] \in Contents
      BY <2>1, <1>1, <1>3 DEF Targets
    <3>2. target'[n] = [target[n] EXCEPT !.whole = FALSE]
      BY <1>2, <2>1
    <3>3. target'[n] \in Targets
      BY <3>1, <3>2, <1>4 DEF Targets
    <3> QED  BY <2>1, <3>1, <3>2, <3>3
  <2>2. CASE ~(~target[n].synced /\ target[n] # Nothing)
    <3>1. target'[n] = target[n]
      BY <1>2, <2>2
    <3> QED  BY <3>1, <1>1
  <2> QED  BY <2>1, <2>2
<1>6. target' = [n \in Names |-> target'[n]]
  BY DEF Crash
<1> QED  BY <1>5, <1>6

LEMMA CrashTypes ==
  ASSUME MediaTypes, Crash
  PROVE  MediaTypes'
<1>1. NoState \in ResumeStates
  BY DEF ResumeStates
<1>2. stage' = "idle" /\ outcome'.result = "none" /\ outcome'.state = NoState
  BY DEF Crash, NoOutcome
<1>3. fresh' = {} /\ crashes' \in 0 .. MaxCrashes
  BY DEF Crash, MediaTypes, MediaTypeOK
<1>4. MediaTypeOK'
  BY <1>1, <1>2, <1>3, NoJobTypes, CrashFiles, CrashTargets DEF Crash, MediaTypes, MediaTypeOK
<1>5. WorkersHaveJob'
  BY <1>2, NoJobTypes DEF Crash, WorkersHaveJob, Working
<1> QED  BY <1>4, <1>5 DEF MediaTypes

LEMMA ClaimableParts == Claimable \subseteq Names
  BY DEF Claimable, Names

LEMMA BeginTypes ==
  ASSUME MediaTypes, NEW p \in Manifests, NEW n \in Names, NEW have \in SUBSET All,
         BeginWork(p, n, have)
  PROVE  /\ MediaTypes'
         /\ worker' = [w \in Workers |-> Free] /\ Free.seg = 0 /\ Free.pc = "free"
<1>1. Free \in WorkerRecords /\ Free.seg = 0 /\ Free.pc = "free"
  BY BeginParts DEF Free, Idle
<1>2. MediaTypeOK'
  BY <1>1 DEF BeginWork, MediaTypes, MediaTypeOK, owner
<1>3. WorkersHaveJob'
  BY <1>1 DEF BeginWork, WorkersHaveJob
<1> QED  BY <1>1, <1>2, <1>3 DEF MediaTypes, BeginWork

LEMMA EnvironmentTypes ==
  ASSUME MediaTypes, Environment
  PROVE  MediaTypes'
<1>a. MediaTypeOK /\ WorkersHaveJob
  BY DEF MediaTypes
<1>b. StopResult \in Results /\ {"failed", "mismatch"} \subseteq Results /\ NoState \in ResumeStates
  BY DEF StopResult, Results, ResumeStates
<1>c. stage # "work" => \A w \in Workers : worker[w].pc \in {"free", "joined"}
  BY <1>a DEF WorkersHaveJob
<1>1. CASE StartJob
  <2>1. outcome'.result = "none" /\ outcome'.state \in ResumeStates /\ runs' \in 0 .. MaxRuns
    BY <1>1, <1>a, <1>b DEF StartJob, NoOutcome, MediaTypeOK
  <2> QED  BY <1>1, <1>a, <2>1 DEF StartJob, MediaTypes, MediaTypeOK, WorkersHaveJob, work, disk, Working
<1>2. CASE ReportOutcome
  BY <1>2, ReportTypes
<1>3. CASE Checkpoint
  <2>1. saved' \in ResumeStates
    BY <1>3, SnapshotParts DEF Checkpoint, Working
  <2> QED  BY <1>3, <1>a, <2>1 DEF Checkpoint, MediaTypes, MediaTypeOK, WorkersHaveJob, work, disk, Working
<1>4. CASE Crash
  BY <1>4, CrashTypes
<1>5. CASE ManifestFails
  BY <1>5, <1>b, <1>c, EndTypes DEF ManifestFails
<1>6. CASE BeginFresh
  BY <1>6, BeginTypes, ClaimableParts DEF BeginFresh
<1>7. CASE NameTaken
  BY <1>7, <1>b, <1>c, EndTypes DEF NameTaken
<1>8. CASE BeginResumed
  <2>1. saved.name \in Names /\ Completed(saved) \subseteq All
    BY <1>8, <1>a, StateParts DEF BeginResumed, MediaTypeOK, Completed
  <2> QED  BY <1>8, <2>1, BeginTypes DEF BeginResumed
<1>9. CASE TracksChanged
  BY <1>9, <1>a, <1>b, <1>c, EndTypes DEF TracksChanged, MediaTypeOK
<1>10. CASE AnotherFile
  <2>1. target' \in [Names -> Targets]
    BY <1>10, <1>a DEF AnotherFile, MediaTypeOK, Targets
  <2> QED  BY <1>10, <1>a, <2>1 DEF AnotherFile, MediaTypes, MediaTypeOK, WorkersHaveJob, work, owner,
              Working
<1>11. CASE Mux
  <2>1. PICK m \in Places(name) : target' = [target EXCEPT ![m] = Muxed]
    BY <1>11 DEF Mux
  <2>2. target' \in [Names -> Targets] /\ extras' \subseteq Contents
    BY <1>11, <1>a, <2>1, TrackParts, PlaceParts DEF Mux, MediaTypeOK
  <2> QED  BY <1>11, <2>2, CompleteTypes DEF Mux
<1>12. CASE MuxFails
  BY <1>12, <1>b, <1>c, SnapshotParts, EndTypes DEF MuxFails, Working
<1>13. ASSUME NEW r \in {"pause", "cancel", "delete"}, RequestStop(r)  PROVE MediaTypes'
  <2>1. stopReason' \in {"none", "pause", "cancel", "delete"}
    BY <1>13, <1>a DEF RequestStop, AfterStop, MediaTypeOK
  <2> QED  BY <1>13, <1>a, <2>1 DEF RequestStop, MediaTypes, MediaTypeOK, WorkersHaveJob, disk, owner,
              Working
<1> QED  BY <1>1, <1>2, <1>3, <1>4, <1>5, <1>6, <1>7, <1>8, <1>9, <1>10, <1>11, <1>12, <1>13
         DEF Environment

\* Every variable keeps its type.
LEMMA MediaTypesStep ==
  ASSUME MediaTypes, [MediaNext]_mediaVars
  PROVE  MediaTypes'
<1>1. ASSUME NEW w \in Workers, LocalStep(w) \/ NetworkStep(w)  PROVE MediaTypes'
  BY <1>1, LocalTypes, NetworkTypes
<1>2. CASE Coordinate
  BY <1>2, CoordinateTypes
<1>3. CASE Environment
  BY <1>3, EnvironmentTypes
<1>4. CASE UNCHANGED mediaVars
  BY <1>4 DEF MediaTypes, MediaTypeOK, WorkersHaveJob, mediaVars, work, disk, owner, Working
<1> QED  BY <1>1, <1>2, <1>3, <1>4 DEF MediaNext

(***************************************************************************)
(* The place of every segment.                                             *)
(***************************************************************************)

\* A worker goes on to r: with its segment, or because it had to give it up.
LEMMA PlacedGoesOn ==
  ASSUME MediaTypes, SegmentsPlaced, NEW w \in Workers, NEW r \in WorkerRecords, SetWorker(w, r),
         stage = "work", worker[w].pc # "err", r.seg \in {worker[w].seg, 0},
         \/ Stopping \/ r.pc = "err"
         \/ r.seg = worker[w].seg /\ (r.pc \in {"ok", "joined"} => queue = {}),
         UNCHANGED <<stage, stopReason, halt, queue, done>>
  PROVE  SegmentsPlaced'
<1>1. \A v \in Workers : worker'[v] = IF v = w THEN r ELSE worker[v]
  BY DEF SetWorker, MediaTypes, MediaTypeOK
<1>2. queue \subseteq All /\ done \subseteq All /\ 0 \notin All
  BY DEF MediaTypes, MediaTypeOK
<1>3. queue' \cap done' = {} /\ \A v \in Workers : worker'[v].seg \notin queue' \cup done'
  BY <1>1, <1>2 DEF SegmentsPlaced
<1>4. \A u, v \in Workers : u # v => worker'[u].seg # worker'[v].seg \/ worker'[u].seg = 0
  BY <1>1 DEF SegmentsPlaced
<1>5. ASSUME ~Stopping', NEW v \in Workers, worker'[v].pc \in {"ok", "joined"}  PROVE queue' = {}
  BY <1>1, <1>5 DEF SegmentsPlaced, Stopping
<1>6. ASSUME ~Stopping', \A v \in Workers : worker'[v].pc # "err", NEW i \in All
      PROVE  i \in queue' \cup done' \/ \E v \in Workers : worker'[v].seg = i
  <2>1. r.seg = worker[w].seg /\ ~Stopping
    BY <1>1, <1>6 DEF Stopping
  <2>2. \A v \in Workers : worker[v].pc # "err" /\ worker'[v].seg = worker[v].seg
    BY <1>1, <1>6, <2>1
  <2> QED  BY <2>1, <2>2 DEF SegmentsPlaced
<1> QED  BY <1>3, <1>4, <1>5, <1>6 DEF SegmentsPlaced, Working

LEMMA PlacedTake ==
  ASSUME MediaTypes, SegmentsPlaced, NEW w \in Workers, Take(w)
  PROVE  SegmentsPlaced'
<1>0. PICK i \in queue : SetWorker(w, Begin("fetch", i)) /\ queue' = queue \ {i}
  BY DEF Take
<1>1. \A v \in Workers : worker'[v] = IF v = w THEN Begin("fetch", i) ELSE worker[v]
  BY <1>0 DEF SetWorker, MediaTypes, MediaTypeOK
<1>2. i \in All /\ i # 0 /\ Begin("fetch", i).seg = i /\ Begin("fetch", i).pc = "fetch"
  BY <1>0, BeginParts DEF MediaTypes, MediaTypeOK
<1>3. worker[w].seg = 0 /\ worker[w].pc = "free" /\ stage = "work" /\ ~Stopping /\ queue # {}
      /\ UNCHANGED <<stage, stopReason, halt, done>>
  BY WorkerParts DEF Take, OnlyWorkers
<1>4. queue' \cap done' = {} /\ \A v \in Workers : worker'[v].seg \notin queue' \cup done'
  BY <1>0, <1>1, <1>2, <1>3 DEF SegmentsPlaced
<1>5. \A u, v \in Workers : u # v => worker'[u].seg # worker'[v].seg \/ worker'[u].seg = 0
  BY <1>0, <1>1, <1>2, <1>3 DEF SegmentsPlaced
<1>6. ASSUME NEW v \in Workers, worker'[v].pc \in {"ok", "joined"}  PROVE queue' = {}
  BY <1>1, <1>2, <1>3, <1>6 DEF SegmentsPlaced
<1>7. ASSUME \A v \in Workers : worker'[v].pc # "err", NEW k \in All
      PROVE  k \in queue' \cup done' \/ \E v \in Workers : worker'[v].seg = k
  <2>1. \A v \in Workers : worker[v].pc # "err"
    BY <1>1, <1>3, <1>7
  <2>2. k \in queue \cup done \/ \E v \in Workers : worker[v].seg = k
    BY <1>3, <2>1 DEF SegmentsPlaced
  <2>3. CASE k = i
    BY <1>1, <1>2, <2>3
  <2>4. CASE k # i /\ k \in queue \cup done
    BY <1>0, <1>3, <2>4
  <2>5. CASE \E v \in Workers : worker[v].seg = k
    BY <1>1, <1>2, <1>3, <2>5
  <2> QED  BY <2>2, <2>3, <2>4, <2>5
<1> QED  BY <1>3, <1>4, <1>5, <1>6, <1>7 DEF SegmentsPlaced, Working

LEMMA PlacedFinish ==
  ASSUME MediaTypes, SegmentsPlaced, NEW w \in Workers, Finish(w)
  PROVE  SegmentsPlaced'
<1>0. Free \in WorkerRecords /\ Free.seg = 0 /\ Free.pc = "free"
  BY BeginParts DEF Free, Idle
<1>1. \A v \in Workers : worker'[v] = IF v = w THEN Free ELSE worker[v]
  BY DEF Finish, SetWorker, MediaTypes, MediaTypeOK
<1>2. worker[w].seg \in All /\ worker[w].pc = "finish" /\ stage = "work"
      /\ UNCHANGED <<stage, stopReason, halt, queue>>
  BY WorkerParts DEF Finish, OnlyWorkers
<1>3. done' = done \cup {worker[w].seg} /\ 0 \notin All /\ queue \subseteq All /\ done \subseteq All
  BY DEF Finish, MediaTypes, MediaTypeOK
<1>4. queue' \cap done' = {} /\ \A v \in Workers : worker'[v].seg \notin queue' \cup done'
  BY <1>0, <1>1, <1>2, <1>3 DEF SegmentsPlaced
<1>5. \A u, v \in Workers : u # v => worker'[u].seg # worker'[v].seg \/ worker'[u].seg = 0
  BY <1>0, <1>1, <1>2, <1>3 DEF SegmentsPlaced
<1>6. ASSUME ~Stopping', NEW v \in Workers, worker'[v].pc \in {"ok", "joined"}  PROVE queue' = {}
  BY <1>0, <1>1, <1>2, <1>6 DEF SegmentsPlaced, Stopping
<1>7. ASSUME ~Stopping', \A v \in Workers : worker'[v].pc # "err", NEW k \in All
      PROVE  k \in queue' \cup done' \/ \E v \in Workers : worker'[v].seg = k
  <2>1. \A v \in Workers : worker[v].pc # "err"
    BY <1>1, <1>2, <1>7
  <2>2. k \in queue \cup done \/ \E v \in Workers : worker[v].seg = k
    BY <1>2, <1>7, <2>1 DEF SegmentsPlaced, Stopping
  <2> QED  BY <2>2, <1>0, <1>1, <1>2, <1>3
<1> QED  BY <1>2, <1>4, <1>5, <1>6, <1>7 DEF SegmentsPlaced, Working

LEMMA PlacedJoin ==
  ASSUME MediaTypes, SegmentsPlaced, NEW w \in Workers, Join(w)
  PROVE  SegmentsPlaced'
<1>1. \A v \in Workers : worker'[v] = IF v = w THEN [worker[w] EXCEPT !.pc = "joined"] ELSE worker[v]
  BY DEF Join, SetPc, MediaTypes, MediaTypeOK
<1>2. \A v \in Workers : worker'[v].seg = worker[v].seg
  BY <1>1, WorkerParts DEF WorkerRecords
<1>3. stage = "work" /\ UNCHANGED <<stage, stopReason, queue, done>> /\ worker[w].pc \in {"ok", "err"}
      /\ (~halt' => ~halt /\ worker[w].pc = "ok")
  BY DEF Join
<1>4. \A v \in Workers : v # w => worker'[v].pc = worker[v].pc
  BY <1>1
<1>5. ASSUME ~Stopping', NEW v \in Workers, worker'[v].pc \in {"ok", "joined"}  PROVE queue' = {}
  BY <1>3, <1>4, <1>5 DEF SegmentsPlaced, Stopping
<1>6. ASSUME ~Stopping', \A v \in Workers : worker'[v].pc # "err", NEW k \in All
      PROVE  k \in queue' \cup done' \/ \E v \in Workers : worker'[v].seg = k
  <2>1. \A v \in Workers : worker[v].pc # "err"
    BY <1>3, <1>4, <1>6 DEF Stopping
  <2> QED  BY <1>2, <1>3, <1>6, <2>1 DEF SegmentsPlaced, Stopping
<1> QED  BY <1>2, <1>3, <1>5, <1>6 DEF SegmentsPlaced, Working

LEMMA PlacedLocal ==
  ASSUME MediaTypes, SegmentsPlaced, NEW w \in Workers, LocalStep(w)
  PROVE  SegmentsPlaced'
<1> DEFINE At(pc) == [worker[w] EXCEPT !.pc = pc]
<1>a. Idle("ok") \in WorkerRecords /\ Idle("ok").seg = 0 /\ Idle("ok").pc = "ok"
  BY BeginParts DEF Idle
<1>b. \A pc \in {"ok", "fetch", "sync", "rename", "finish"} :
        At(pc) \in WorkerRecords /\ At(pc).seg = worker[w].seg /\ At(pc).pc = pc
  BY WorkerParts DEF WorkerRecords
<1>1. CASE Leave(w)
  BY <1>1, <1>b, WorkerParts, PlacedGoesOn DEF Leave, OnlyWorkers
<1>2. CASE Abort(w)
  BY <1>2, <1>a, WorkerParts, PlacedGoesOn DEF Abort, OnlyWorkers
<1>3. CASE Retry(w)
  BY <1>3, <1>b, WorkerParts, PlacedGoesOn DEF Retry, OnlyWorkers
<1>4. CASE WriteTemporary(w)
  BY <1>4, <1>b, WorkerParts, PlacedGoesOn DEF WriteTemporary, OnlyWorkers
<1>5. CASE SyncTemporary(w)
  <2> DEFINE r == [worker[w] EXCEPT !.pc = "rename", !.synced = TRUE]
  <2>1. r \in WorkerRecords /\ r.seg = worker[w].seg /\ r.pc = "rename"
    BY WorkerParts DEF WorkerRecords
  <2> QED  BY <1>5, <2>1, WorkerParts, PlacedGoesOn DEF SyncTemporary, OnlyWorkers
<1>6. CASE RenameTemporary(w)
  BY <1>6, <1>b, WorkerParts, PlacedGoesOn DEF RenameTemporary, OnlyWorkers
<1> QED  BY <1>1, <1>2, <1>3, <1>4, <1>5, <1>6, PlacedTake, PlacedFinish, PlacedJoin DEF LocalStep

LEMMA PlacedNetwork ==
  ASSUME MediaTypes, SegmentsPlaced, NEW w \in Workers, NetworkStep(w)
  PROVE  SegmentsPlaced'
<1> DEFINE At(pc) == [worker[w] EXCEPT !.pc = pc]
<1>a. Idle("err") \in WorkerRecords /\ Idle("err").seg = 0 /\ Idle("err").pc = "err"
  BY BeginParts DEF Idle
<1>b. \A pc \in {"key", "keyfetch", "write"} :
        At(pc) \in WorkerRecords /\ At(pc).seg = worker[w].seg /\ At(pc).pc = pc
  BY WorkerParts DEF WorkerRecords
<1>1. CASE Fetched(w)
  BY <1>1, <1>b, WorkerParts, PlacedGoesOn DEF Fetched, OnlyWorkers
<1>2. CASE AskKey(w)
  BY <1>2, <1>b, WorkerParts, PlacedGoesOn DEF AskKey, OnlyWorkers
<1>3. CASE WriteFails(w)
  BY <1>3, <1>a, WorkerParts, PlacedGoesOn DEF WriteFails, OnlyWorkers
<1>4. ASSUME NEW b \in BOOLEAN, KeyReady(w, b)  PROVE SegmentsPlaced'
  BY <1>4, <1>a, <1>b, WorkerParts, PlacedGoesOn DEF KeyReady, OnlyWorkers
<1>5. ASSUME NEW b \in BOOLEAN, FetchFails(w, b)  PROVE SegmentsPlaced'
  <2>1. ASSUME b /\ worker[w].attempt < MaxRetries  PROVE SegmentsPlaced'
    <3> DEFINE r == [worker[w] EXCEPT !.pc = "backoff", !.attempt = worker[w].attempt + 1]
    <3>1. worker[w] \in WorkerRecords /\ worker[w].pc \in {"fetch", "keyfetch"} /\ stage = "work"
      BY <1>5, WorkerParts DEF FetchFails
    <3>2. worker[w].attempt + 1 \in 0 .. MaxRetries
      BY <2>1, <3>1 DEF WorkerRecords
    <3>3. r \in WorkerRecords /\ r.seg = worker[w].seg /\ r.pc = "backoff"
      BY <3>1, <3>2 DEF WorkerRecords
    <3>4. SetWorker(w, r)
      BY <1>5, <2>1 DEF FetchFails
    <3> HIDE DEF r
    <3> QED  BY <1>5, <3>1, <3>3, <3>4, PlacedGoesOn DEF FetchFails, OnlyWorkers
  <2>2. ASSUME ~(b /\ worker[w].attempt < MaxRetries)  PROVE SegmentsPlaced'
    <3>1. SetWorker(w, Idle("err"))
      BY <1>5, <2>2 DEF FetchFails
    <3> QED  BY <1>5, <3>1, <1>a, WorkerParts, PlacedGoesOn DEF FetchFails, OnlyWorkers
  <2> QED  BY <2>1, <2>2, Zenon
<1> QED  BY <1>1, <1>2, <1>3, <1>4, <1>5 DEF NetworkStep

\* The workers are all joined and the job goes on: every segment is done.
LEMMA AllDone ==
  ASSUME MediaTypes, SegmentsPlaced, AllJoined, ~StopShort
  PROVE  done = All
<1>1. ~halt /\ (stopReason = "none" \/ done = All) /\ stage = "work"
  BY DEF StopShort, AllJoined
<1>2. CASE stopReason = "none"
  <2>1. \A w \in Workers : worker[w].pc = "joined" /\ worker[w].seg = 0
    BY WorkerParts DEF AllJoined
  <2>2. queue = {}
    BY <1>1, <1>2, <2>1 DEF SegmentsPlaced, Stopping
  <2>3. \A i \in All : i \in queue \cup done \/ \E w \in Workers : worker[w].seg = i
    BY <1>1, <1>2, <2>1 DEF SegmentsPlaced, Stopping
  <2>4. done \subseteq All /\ 0 \notin All
    BY DEF MediaTypes, MediaTypeOK
  <2> QED  BY <2>1, <2>2, <2>3, <2>4
<1> QED  BY <1>1, <1>2

LEMMA PlacedCoordinate ==
  ASSUME MediaTypes, SegmentsPlaced, Coordinate
  PROVE  SegmentsPlaced'
<1>1. CASE BeginMerge
  <2>1. stage' = "concat" /\ UNCHANGED <<queue, done, worker, halt, stopReason>>
    BY <1>1 DEF BeginMerge, work
  <2> QED  BY <1>1, <2>1, AllDone DEF BeginMerge, SegmentsPlaced
<1>2. CASE Concat \/ PlaceMain
  <2>1. stage \in Working \ {"work"} /\ stage' \in Working \ {"work"} /\ UNCHANGED done
    BY <1>2 DEF Concat, PlaceMain, Working, work
  <2> QED  BY <2>1 DEF SegmentsPlaced
<1>3. CASE EndOfWork \/ ConcatFails \/ PlaceExtras \/ PlaceFails \/ ManifestStopped \/ MuxStopped
  <2>1. stage' = "ended"
    BY <1>3 DEF EndOfWork, ConcatFails, PlaceExtras, PlaceFails, ManifestStopped, MuxStopped, EndMedia,
       Complete
  <2> QED  BY <2>1 DEF SegmentsPlaced, Working
<1> QED  BY <1>1, <1>2, <1>3 DEF Coordinate

LEMMA PlacedBegin ==
  ASSUME MediaTypes, NEW p \in Manifests, NEW n \in Names, NEW have \in SUBSET All,
         BeginWork(p, n, have)
  PROVE  SegmentsPlaced'
<1>1. \A w \in Workers : worker'[w].seg = 0 /\ worker'[w].pc = "free"
  BY BeginTypes
<1>2. stage' = "work" /\ done' = have /\ queue' = All \ have /\ 0 \notin All
  BY DEF BeginWork
<1> QED  BY <1>1, <1>2 DEF SegmentsPlaced, Working

LEMMA PlacedEnvironment ==
  ASSUME MediaTypes, SegmentsPlaced, Environment
  PROVE  SegmentsPlaced'
<1>1. CASE StartJob \/ ReportOutcome \/ Crash \/ ManifestFails \/ NameTaken \/ TracksChanged \/ Mux
           \/ MuxFails
  <2>1. stage' \in {"manifest", "idle", "ended"}
    BY <1>1 DEF StartJob, ReportOutcome, Crash, ManifestFails, NameTaken, TracksChanged, Mux, MuxFails,
       EndMedia, Complete
  <2> QED  BY <2>1 DEF SegmentsPlaced, Working
<1>2. CASE Checkpoint \/ AnotherFile
  BY <1>2 DEF Checkpoint, AnotherFile, SegmentsPlaced, Stopping, work
<1>3. CASE BeginFresh
  BY <1>3, PlacedBegin, ClaimableParts DEF BeginFresh
<1>4. CASE BeginResumed
  <2>1. saved.name \in Names /\ Completed(saved) \subseteq All
    BY <1>4, StateParts DEF BeginResumed, MediaTypes, MediaTypeOK, Completed
  <2> QED  BY <1>4, <2>1, PlacedBegin DEF BeginResumed
<1>5. ASSUME NEW r \in {"pause", "cancel", "delete"}, RequestStop(r)  PROVE SegmentsPlaced'
  <2>1. UNCHANGED <<stage, queue, done, worker, halt>> /\ (stopReason' = "none" => stopReason = "none")
    BY <1>5 DEF RequestStop, AfterStop
  <2> QED  BY <2>1 DEF SegmentsPlaced, Stopping
<1> QED  BY <1>1, <1>2, <1>3, <1>4, <1>5 DEF Environment

LEMMA PlacedStep ==
  ASSUME MediaTypes, SegmentsPlaced, [MediaNext]_mediaVars
  PROVE  SegmentsPlaced'
<1>1. ASSUME NEW w \in Workers, LocalStep(w) \/ NetworkStep(w)  PROVE SegmentsPlaced'
  BY <1>1, PlacedLocal, PlacedNetwork
<1>2. CASE UNCHANGED mediaVars
  BY <1>2 DEF SegmentsPlaced, Stopping, mediaVars, work
<1> QED  BY <1>1, <1>2, PlacedCoordinate, PlacedEnvironment DEF MediaNext

(***************************************************************************)
(* What a resume state relies on.                                          *)
(***************************************************************************)

\* A worker goes on to r and no file changes.
LEMMA FilesGoOn ==
  ASSUME MediaTypes, FilesDurable, NEW w \in Workers, NEW r, SetWorker(w, r), r.pc # "finish",
         r.pc = "rename" => r.synced, UNCHANGED <<stage, plan, name, done, file, saved, outcome>>
  PROVE  FilesDurable'
<1>1. \A v \in Workers : worker'[v] = IF v = w THEN r ELSE worker[v]
  BY DEF SetWorker, MediaTypes, MediaTypeOK
<1>2. ASSUME NEW v \in Workers
      PROVE  /\ worker'[v].pc = "rename" => worker'[v].synced
             /\ worker'[v].pc = "finish" => file'[name'][worker'[v].seg] = Whole(plan')
  BY <1>1 DEF FilesDurable
<1> QED  BY <1>2 DEF FilesDurable, Durable

LEMMA FilesRename ==
  ASSUME MediaTypes, FilesDurable, NEW w \in Workers, RenameTemporary(w)
  PROVE  FilesDurable'
<1>1. stage = "work" /\ worker[w].seg \in All /\ name \in Names /\ plan \in Manifests
  BY WorkerParts DEF RenameTemporary, MediaTypes, MediaTypeOK, WorkersHaveJob, Working
<1>2. worker[w].synced
  BY DEF RenameTemporary, FilesDurable
<1>3. file' = [file EXCEPT ![name][worker[w].seg] = Whole(plan)]
  BY <1>2 DEF RenameTemporary, Whole
<1>4. \A n \in Names, i \in All :
        file'[n][i] = IF n = name /\ i = worker[w].seg THEN Whole(plan) ELSE file[n][i]
  BY <1>1, <1>3 DEF MediaTypes, MediaTypeOK
<1>5. UNCHANGED <<stage, plan, name, done, saved, outcome>>
  BY DEF RenameTemporary, OnlyWorkers, owner
<1>6. \A v \in Workers : worker'[v] = IF v = w THEN [worker[w] EXCEPT !.pc = "finish"] ELSE worker[v]
  BY DEF RenameTemporary, SetPc, MediaTypes, MediaTypeOK
<1>7. worker'[w].pc = "finish" /\ worker'[w].seg = worker[w].seg
  BY <1>6, WorkerParts DEF WorkerRecords
<1>8. \A n \in Names, i \in All : file'[n][i].data \in {"none", "synced"}
  BY <1>4 DEF FilesDurable, Whole
<1>9. /\ \A i \in done' : file'[name'][i] = Whole(plan')
      /\ saved' # NoState => saved'.plan = plan' /\ saved'.name = name'
  BY <1>1, <1>4, <1>5 DEF FilesDurable, Working, MediaTypes, MediaTypeOK
<1>10. ASSUME NEW v \in Workers, worker'[v].pc = "finish"
       PROVE  file'[name'][worker'[v].seg] = Whole(plan')
  <2>1. CASE v = w
    BY <1>1, <1>4, <1>5, <1>7, <2>1
  <2>2. CASE v # w
    <3>1. worker[v].pc = "finish" /\ worker'[v] = worker[v]
      BY <1>6, <1>10, <2>2
    <3>2. worker[v].seg \in All /\ file[name][worker[v].seg] = Whole(plan)
      BY <3>1, WorkerParts DEF FilesDurable
    <3> QED  BY <3>1, <3>2, <1>1, <1>4, <1>5
  <2> QED  BY <2>1, <2>2
<1>11. \A v \in Workers : worker'[v].pc = "rename" => worker'[v].synced
  BY <1>6, <1>7 DEF FilesDurable
<1>12. Durable(saved)'
  <2> SUFFICES ASSUME saved # NoState, NEW i \in saved.completed
               PROVE  file'[saved.name][i] \in {NoFile, Whole(saved.plan)}
    BY <1>5 DEF Durable
  <2>1. saved.plan = plan /\ saved.name = name /\ i \in All
    BY <1>1, StateParts DEF FilesDurable, Working, MediaTypes, MediaTypeOK
  <2> QED  BY <2>1, <1>1, <1>4 DEF FilesDurable, Durable
<1> QED  BY <1>1, <1>5, <1>8, <1>9, <1>10, <1>11, <1>12 DEF FilesDurable

LEMMA FilesFinish ==
  ASSUME MediaTypes, FilesDurable, NEW w \in Workers, Finish(w)
  PROVE  FilesDurable'
<1>0. Free.pc = "free"
  BY DEF Free, Idle, Begin
<1>1. \A v \in Workers : worker'[v] = IF v = w THEN Free ELSE worker[v]
  BY DEF Finish, SetWorker, MediaTypes, MediaTypeOK
<1>2. done' = done \cup {worker[w].seg} /\ file[name][worker[w].seg] = Whole(plan)
      /\ UNCHANGED <<stage, plan, name, file, saved, outcome>> /\ stage = "work"
  BY WorkerParts DEF Finish, FilesDurable, OnlyWorkers, owner
<1>3. ASSUME NEW v \in Workers
      PROVE  /\ worker'[v].pc = "rename" => worker'[v].synced
             /\ worker'[v].pc = "finish" => file'[name'][worker'[v].seg] = Whole(plan')
  BY <1>0, <1>1, <1>2 DEF FilesDurable
<1>4. \A i \in done' : file'[name'][i] = Whole(plan')
  BY <1>2 DEF FilesDurable, Working
<1> QED  BY <1>2, <1>3, <1>4 DEF FilesDurable, Durable

LEMMA FilesWorker ==
  ASSUME MediaTypes, FilesDurable, NEW w \in Workers, LocalStep(w) \/ NetworkStep(w)
  PROVE  FilesDurable'
<1> DEFINE At(pc) == [worker[w] EXCEPT !.pc = pc]
<1>a. \A pc \in {"ok", "err", "fetch"}, i \in {0} \cup All :
        Begin(pc, i).pc = pc /\ Idle(pc).pc = pc
  BY DEF Begin, Idle
<1>b. \A pc \in {"ok", "joined", "key", "keyfetch", "write", "sync", "fetch"} : At(pc).pc = pc
  BY WorkerParts DEF WorkerRecords
<1>1. CASE Take(w)
  <2>1. PICK i \in queue : SetWorker(w, Begin("fetch", i))
    BY <1>1 DEF Take
  <2>2. i \in All
    BY <2>1 DEF MediaTypes, MediaTypeOK
  <2> QED  BY <1>1, <2>1, <2>2, <1>a, FilesGoOn DEF Take, OnlyWorkers, owner
<1>2. CASE Leave(w)
  BY <1>2, <1>b, WorkerParts, FilesGoOn DEF Leave, OnlyWorkers, owner
<1>3. CASE Abort(w)
  BY <1>3, <1>a, WorkerParts, FilesGoOn DEF Abort, OnlyWorkers, owner
<1>4. CASE Retry(w)
  BY <1>4, <1>b, WorkerParts, FilesGoOn DEF Retry, OnlyWorkers, owner
<1>5. CASE WriteTemporary(w)
  BY <1>5, <1>b, WorkerParts, FilesGoOn DEF WriteTemporary, OnlyWorkers, owner
<1>6. CASE SyncTemporary(w)
  <2> DEFINE r == [worker[w] EXCEPT !.pc = "rename", !.synced = TRUE]
  <2>1. r.pc = "rename" /\ r.synced
    BY WorkerParts DEF WorkerRecords
  <2>2. SetWorker(w, r)
    BY <1>6 DEF SyncTemporary
  <2> HIDE DEF r
  <2> QED  BY <1>6, <2>1, <2>2, FilesGoOn DEF SyncTemporary, OnlyWorkers, owner
<1>7. CASE Join(w)
  BY <1>7, <1>b, WorkerParts, FilesGoOn DEF Join, disk, owner
<1>8. CASE Fetched(w)
  BY <1>8, <1>b, WorkerParts, FilesGoOn DEF Fetched, OnlyWorkers, owner
<1>9. CASE AskKey(w)
  BY <1>9, <1>b, WorkerParts, FilesGoOn DEF AskKey, OnlyWorkers, owner
<1>10. CASE WriteFails(w)
  BY <1>10, <1>a, WorkerParts, FilesGoOn DEF WriteFails, OnlyWorkers, owner
<1>11. ASSUME NEW b \in BOOLEAN, KeyReady(w, b)  PROVE FilesDurable'
  BY <1>11, <1>a, <1>b, WorkerParts, FilesGoOn DEF KeyReady, OnlyWorkers, owner
<1>12. ASSUME NEW b \in BOOLEAN, FetchFails(w, b)  PROVE FilesDurable'
  <2>1. PICK r : SetWorker(w, r) /\ r.pc \in {"backoff", "err"}
    <3>1. CASE b /\ worker[w].attempt < MaxRetries
      <4>1. [worker[w] EXCEPT !.pc = "backoff", !.attempt = worker[w].attempt + 1].pc = "backoff"
        BY WorkerParts DEF WorkerRecords
      <4>2. SetWorker(w, [worker[w] EXCEPT !.pc = "backoff", !.attempt = worker[w].attempt + 1])
        BY <1>12, <3>1 DEF FetchFails
      <4> QED  BY <4>1, <4>2
    <3>2. CASE ~(b /\ worker[w].attempt < MaxRetries)
      <4>1. SetWorker(w, Idle("err"))
        BY <1>12, <3>2 DEF FetchFails
      <4> QED  BY <4>1, <1>a
    <3> QED  BY <3>1, <3>2, Zenon
  <2> QED  BY <1>12, <2>1, FilesGoOn DEF FetchFails, OnlyWorkers, owner
<1> QED  BY <1>1, <1>2, <1>3, <1>4, <1>5, <1>6, <1>7, <1>8, <1>9, <1>10, <1>11, <1>12, FilesRename,
            FilesFinish DEF LocalStep, NetworkStep

\* The job ends with a state that is as good as the saved one or the job's own.
LEMMA FilesEnd ==
  ASSUME MediaTypes, FilesDurable, NEW result, NEW state \in ResumeStates, EndMedia(result, state),
         Durable(state), \A w \in Workers : worker[w].pc \in {"free", "joined"}
  PROVE  FilesDurable'
<1>1. \A n \in Names, i \in All : file'[n][i] \in {NoFile, file[n][i]}
  BY DEF EndMedia, MediaTypes, MediaTypeOK
<1>2. stage' = "ended" /\ UNCHANGED <<worker, saved>> /\ outcome'.state \in {NoState, state}
  BY DEF EndMedia, work, owner
<1>3. \A n \in Names, i \in All : file'[n][i].data \in {"none", "synced"}
  BY <1>1 DEF FilesDurable, NoFile
<1>4. ASSUME NEW s \in ResumeStates, Durable(s), s # NoState, NEW i \in s.completed
      PROVE  file'[s.name][i] \in {NoFile, Whole(s.plan)}
  BY <1>1, <1>4, StateParts DEF Durable
<1>5. Durable(saved)' /\ Durable(outcome.state)'
  BY <1>2, <1>4 DEF Durable, FilesDurable, MediaTypes, MediaTypeOK
<1> QED  BY <1>2, <1>3, <1>5 DEF FilesDurable, Working

LEMMA FilesComplete ==
  ASSUME MediaTypes, FilesDurable, Complete, stage # "work"
  PROVE  FilesDurable'
<1>1. \A n \in Names, i \in All : file'[n][i] \in {NoFile, file[n][i]}
  BY DEF Complete, MediaTypes, MediaTypeOK
<1>2. stage' = "ended" /\ UNCHANGED <<worker, saved>> /\ outcome'.state = NoState
  BY DEF Complete, work, owner
<1>3. \A n \in Names, i \in All : file'[n][i].data \in {"none", "synced"}
  BY <1>1 DEF FilesDurable, NoFile
<1>4. Durable(saved)' /\ Durable(outcome.state)'
  BY <1>1, <1>2, StateParts DEF Durable, FilesDurable, MediaTypes, MediaTypeOK
<1>5. \A w \in Workers : worker'[w].pc \in {"free", "joined"}
  BY <1>2 DEF MediaTypes, WorkersHaveJob
<1> QED  BY <1>2, <1>3, <1>4, <1>5 DEF FilesDurable, Working

\* The state a job ends with is as good as its own or the saved one.
LEMMA StatesDurable ==
  ASSUME MediaTypes, FilesDurable
  PROVE  Durable(NoState) /\ Durable(saved) /\ (stage \in Working => Durable(Snapshot))
  BY SnapshotParts DEF Durable, FilesDurable

LEMMA FilesCoordinate ==
  ASSUME MediaTypes, FilesDurable, Coordinate
  PROVE  FilesDurable'
<1>a. Durable(NoState) /\ (stage \in Working => Durable(Snapshot) /\ Snapshot \in ResumeStates)
      /\ NoState \in ResumeStates
  BY StatesDurable, SnapshotParts DEF ResumeStates
<1>b. stage # "work" => \A w \in Workers : worker[w].pc \in {"free", "joined"}
  BY DEF MediaTypes, WorkersHaveJob
<1>1. CASE EndOfWork
  BY <1>1, <1>a, FilesEnd DEF EndOfWork, AllJoined, Working
<1>2. CASE BeginMerge \/ Concat \/ PlaceMain
  <2>1. /\ stage \in Working /\ stage' \in Working
        /\ UNCHANGED <<plan, name, done, worker, file, saved, outcome>>
    BY <1>2 DEF BeginMerge, Concat, PlaceMain, AllJoined, Working, work, disk, owner
  <2> QED  BY <2>1 DEF FilesDurable, Durable, Working
<1>3. CASE ConcatFails \/ PlaceFails \/ MuxStopped
  BY <1>3, <1>a, <1>b, FilesEnd DEF ConcatFails, PlaceFails, MuxStopped, Working
<1>4. CASE PlaceExtras
  BY <1>4, FilesComplete DEF PlaceExtras
<1>5. CASE ManifestStopped
  BY <1>5, <1>a, <1>b, FilesEnd DEF ManifestStopped
<1> QED  BY <1>1, <1>2, <1>3, <1>4, <1>5 DEF Coordinate

LEMMA FilesBegin ==
  ASSUME MediaTypes, FilesDurable, NEW p \in Manifests, NEW n \in Names, NEW have \in SUBSET All,
         BeginWork(p, n, have), \A i \in have : file[n][i] = Whole(p),
         saved # NoState => saved.plan = p /\ saved.name = n
  PROVE  FilesDurable'
<1>1. \A w \in Workers : worker'[w].pc = "free"
  BY BeginTypes
<1>2. stage' = "work" /\ plan' = p /\ name' = n /\ done' = have /\ UNCHANGED <<file, saved>>
  BY DEF BeginWork, owner
<1> QED  BY <1>1, <1>2 DEF FilesDurable, Durable

LEMMA FilesEnvironment ==
  ASSUME MediaTypes, FilesDurable, Environment
  PROVE  FilesDurable'
<1>a. /\ Durable(NoState) /\ NoState \in ResumeStates
      /\ Durable(saved) /\ saved \in ResumeStates /\ outcome.state \in ResumeStates
      /\ stage \in Working => Durable(Snapshot) /\ Snapshot \in ResumeStates
  BY StatesDurable, SnapshotParts DEF ResumeStates, MediaTypes, MediaTypeOK
<1>b. stage # "work" => \A w \in Workers : worker[w].pc \in {"free", "joined"}
  BY DEF MediaTypes, WorkersHaveJob
<1>1. CASE StartJob
  BY <1>1 DEF StartJob, FilesDurable, Durable, Working, work, disk
<1>2. CASE ReportOutcome
  <2>1. stage' = "idle" /\ saved' \in {NoState, saved, outcome.state} /\ UNCHANGED file
    BY <1>2 DEF ReportOutcome, disk
  <2>2. \A w \in Workers : worker'[w].pc = "free"
    BY <1>2, NoJobTypes DEF ReportOutcome
  <2>3. Durable(saved) /\ Durable(outcome.state) /\ Durable(NoState)
    BY <1>2, <1>a DEF ReportOutcome, FilesDurable
  <2> QED  BY <2>1, <2>2, <2>3 DEF FilesDurable, Durable, Working
<1>3. CASE Checkpoint
  <2>1. stage \in Working /\ saved' = Snapshot /\ UNCHANGED <<stage, plan, name, done, worker, file, outcome>>
    BY <1>3 DEF Checkpoint, Working, work, disk
  <2> QED  BY <2>1, <1>a, SnapshotParts DEF FilesDurable, Durable, Working
<1>4. CASE Crash
  <2>1. \A n \in Names, i \in All : file'[n][i] \in {NoFile, file[n][i]}
    BY <1>4, CrashFiles DEF FilesDurable
  <2>2. stage' = "idle" /\ UNCHANGED saved
    BY <1>4 DEF Crash
  <2>3. \A w \in Workers : worker'[w].pc = "free"
    BY <1>4, NoJobTypes DEF Crash
  <2>4. Durable(saved)'
    BY <2>1, <2>2, <1>a, StateParts DEF Durable
  <2>5. \A n \in Names, i \in All : file'[n][i].data \in {"none", "synced"}
    BY <2>1 DEF FilesDurable, NoFile
  <2> QED  BY <2>2, <2>3, <2>4, <2>5 DEF FilesDurable, Working
<1>5. CASE ManifestFails \/ NameTaken \/ TracksChanged
  BY <1>5, <1>a, <1>b, FilesEnd DEF ManifestFails, NameTaken, TracksChanged
<1>6. CASE BeginFresh
  BY <1>6, FilesBegin, ClaimableParts DEF BeginFresh
<1>7. CASE BeginResumed
  <2>1. PICK p \in Manifests : p = saved.plan /\ BeginWork(p, saved.name, Completed(saved))
    BY <1>7 DEF BeginResumed, SameTracks
  <2>2. saved.name \in Names /\ Completed(saved) \subseteq All /\ saved # NoState
    BY <1>7, <1>a, StateParts DEF BeginResumed, Completed
  <2>3. \A i \in Completed(saved) : file[saved.name][i] = Whole(p)
    BY <2>1, <2>2, <1>a DEF Completed, Durable
  <2> QED  BY <2>1, <2>2, <2>3, FilesBegin
<1>8. CASE AnotherFile
  BY <1>8 DEF AnotherFile, FilesDurable, Durable, work, owner
<1>9. CASE Mux
  BY <1>9, FilesComplete DEF Mux
<1>10. CASE MuxFails
  BY <1>10, <1>a, <1>b, FilesEnd DEF MuxFails, Working
<1>11. ASSUME NEW r \in {"pause", "cancel", "delete"}, RequestStop(r)  PROVE FilesDurable'
  BY <1>11 DEF RequestStop, FilesDurable, Durable, disk, owner
<1> QED  BY <1>1, <1>2, <1>3, <1>4, <1>5, <1>6, <1>7, <1>8, <1>9, <1>10, <1>11 DEF Environment

LEMMA FilesStep ==
  ASSUME MediaTypes, FilesDurable, [MediaNext]_mediaVars
  PROVE  FilesDurable'
<1>1. ASSUME NEW w \in Workers, LocalStep(w) \/ NetworkStep(w)  PROVE FilesDurable'
  BY <1>1, FilesWorker
<1>2. CASE UNCHANGED mediaVars
  BY <1>2 DEF FilesDurable, Durable, mediaVars, work, disk, owner
<1> QED  BY <1>1, <1>2, FilesCoordinate, FilesEnvironment DEF MediaNext

(***************************************************************************)
(* What is put together.                                                   *)
(***************************************************************************)

\* An output as it should be.
Sound(o) == (\E p \in Manifests : o.plans \subseteq {p}) /\ (o.synced => o.whole)

\* The tracks are put together from every segment.
LEMMA TracksConcat ==
  ASSUME MediaTypes, SegmentsPlaced, FilesDurable, Concat
  PROVE  TracksWhole'
<1>1. done = All /\ plan' = plan /\ track' = [t \in Tracks |-> Concatenated(t)]
  BY DEF Concat, SegmentsPlaced, Working
<1>2. \A i \in All : file[name][i] = Whole(plan)
  BY <1>1 DEF Concat, FilesDurable, Working
<1>3. ASSUME NEW t \in Tracks
      PROVE  Concatenated(t).plans \subseteq {plan} /\ Concatenated(t).whole /\ Concatenated(t).synced
  <2> DEFINE parts == {file[name][i] : i \in SegmentsOf(t)}
  <2>1. \A p \in parts : p = Whole(plan)
    BY <1>2 DEF SegmentsOf
  <2>2. \A p \in parts : p.plan = plan /\ p.data # "torn"
    BY <2>1 DEF Whole
  <2>3. {p.plan : p \in parts} \subseteq {plan}
    BY <2>2
  <2> HIDE DEF parts
  <2>4. Concatenated(t) = [plans |-> {p.plan : p \in parts},
                           whole |-> \A p \in parts : p.data # "torn", synced |-> TRUE]
    BY DEF Concatenated, parts
  <2> QED  BY <2>2, <2>3, <2>4
<1> QED  BY <1>1, <1>3 DEF TracksWhole

LEMMA TracksStep ==
  ASSUME MediaTypes, SegmentsPlaced, FilesDurable, TracksWhole, [MediaNext]_mediaVars
  PROVE  TracksWhole'
<1>1. CASE Concat
  BY <1>1, TracksConcat
<1>2. ASSUME NEW w \in Workers, LocalStep(w) \/ NetworkStep(w)  PROVE TracksWhole'
  <2>1. UNCHANGED <<stage, plan, track>>
    BY <1>2 DEF LocalStep, NetworkStep, Take, Leave, Abort, Retry, WriteTemporary, SyncTemporary,
       RenameTemporary, Finish, Join, Fetched, AskKey, WriteFails, KeyReady, FetchFails, OnlyWorkers
  <2> QED  BY <2>1 DEF TracksWhole
<1>3. CASE EndOfWork \/ BeginMerge \/ ConcatFails \/ PlaceExtras \/ PlaceFails \/ ManifestStopped
           \/ MuxStopped
  <2>1. stage' \in {"ended", "concat"}
    BY <1>3 DEF EndOfWork, BeginMerge, ConcatFails, PlaceExtras, PlaceFails, ManifestStopped, MuxStopped,
       EndMedia, Complete
  <2> QED  BY <2>1 DEF TracksWhole
<1>4. CASE PlaceMain \/ Checkpoint \/ AnotherFile
  BY <1>4 DEF PlaceMain, Checkpoint, AnotherFile, TracksWhole, work
<1>5. CASE StartJob \/ ReportOutcome \/ Crash \/ ManifestFails \/ BeginFresh \/ NameTaken
           \/ BeginResumed \/ TracksChanged \/ Mux \/ MuxFails
  <2>1. stage' \in {"manifest", "idle", "ended", "work"}
    BY <1>5 DEF StartJob, ReportOutcome, Crash, ManifestFails, BeginFresh, NameTaken, BeginResumed,
       TracksChanged, Mux, MuxFails, EndMedia, Complete, BeginWork
  <2> QED  BY <2>1 DEF TracksWhole
<1>6. ASSUME NEW r \in {"pause", "cancel", "delete"}, RequestStop(r)  PROVE TracksWhole'
  BY <1>6 DEF RequestStop, TracksWhole
<1>7. CASE UNCHANGED mediaVars
  BY <1>7 DEF TracksWhole, mediaVars, work
<1> QED  BY <1>1, <1>2, <1>3, <1>4, <1>5, <1>6, <1>7 DEF MediaNext, Coordinate, Environment

\* One more output at a name.
LEMMA OutputPlaced ==
  ASSUME MediaTypes, OutputIsWhole, NEW m \in Names, NEW o, Sound(o),
         target' = [target EXCEPT ![m] = o], UNCHANGED extras
  PROVE  OutputIsWhole'
<1>1. \A n \in Names : target'[n] = IF n = m THEN o ELSE target[n]
  BY DEF MediaTypes, MediaTypeOK
<1>2. ASSUME NEW x \in Outputs'  PROVE Sound(x)
  <2>1. x = o \/ x \in Outputs
    BY <1>1 DEF Outputs
  <2> QED  BY <2>1 DEF OutputIsWhole, Sound
<1> QED  BY <1>2 DEF OutputIsWhole, Sound

LEMMA OutputCrash ==
  ASSUME MediaTypes, OutputIsWhole, Crash
  PROVE  OutputIsWhole'
<1>1. extras' = extras
  BY DEF Crash
<1>2. ASSUME NEW n \in Names, target'[n] \notin {Nothing, Foreign}  PROVE Sound(target'[n])
  <2>1. CASE target'[n] = target[n]
    BY <1>2, <2>1 DEF OutputIsWhole, Sound, Outputs
  <2>2. CASE /\ ~target[n].synced /\ target[n] \notin {Nothing, Foreign}
             /\ target'[n] = [target[n] EXCEPT !.whole = FALSE]
             /\ target[n] \in Contents
    <3>1. target'[n].plans = target[n].plans /\ ~target'[n].synced
      BY <2>2 DEF Contents
    <3>2. target[n] \in Outputs
      BY <2>2 DEF Outputs
    <3> QED  BY <3>1, <3>2 DEF OutputIsWhole, Sound
  <2> QED  BY <2>1, <2>2, CrashTargets
<1>3. \A x \in Outputs' : Sound(x)
  BY <1>1, <1>2 DEF OutputIsWhole, Sound, Outputs
<1> QED  BY <1>3 DEF OutputIsWhole, Sound

\* Steps that place nothing.
LEMMA OutputStays ==
  ASSUME OutputIsWhole, UNCHANGED <<target, extras>>
  PROVE  OutputIsWhole'
  BY DEF OutputIsWhole, Outputs

\* The steps after which the destination is as it was.
LEMMA DestinationStays ==
  ASSUME [MediaNext]_mediaVars, ~Crash, ~AnotherFile, ~Mux, ~PlaceMain, ~PlaceExtras
  PROVE  UNCHANGED <<target, extras>>
<1>1. ASSUME NEW w \in Workers, LocalStep(w) \/ NetworkStep(w)  PROVE UNCHANGED <<target, extras>>
  BY <1>1 DEF LocalStep, NetworkStep, Take, Leave, Abort, Retry, WriteTemporary, SyncTemporary,
     RenameTemporary, Finish, Join, Fetched, AskKey, WriteFails, KeyReady, FetchFails, OnlyWorkers, disk
<1>2. CASE Coordinate
  BY <1>2 DEF Coordinate, EndOfWork, BeginMerge, Concat, ConcatFails, PlaceFails, ManifestStopped,
     MuxStopped, disk
<1>3. CASE Environment
  BY <1>3 DEF Environment, StartJob, ReportOutcome, Checkpoint, ManifestFails, BeginFresh, NameTaken,
     BeginResumed, TracksChanged, MuxFails, RequestStop, BeginWork, disk
<1>4. CASE UNCHANGED mediaVars
  BY <1>4 DEF mediaVars, disk
<1> QED  BY <1>1, <1>2, <1>3, <1>4 DEF MediaNext

LEMMA OutputStep ==
  ASSUME MediaTypes, TracksWhole, OutputIsWhole, [MediaNext]_mediaVars
  PROVE  OutputIsWhole'
<1>a. stage \in {"mux", "main", "extra"} => plan \in Manifests /\ \A t \in Tracks : Sound(track[t])
  BY DEF MediaTypes, WorkersHaveJob, Working, TracksWhole, Sound
<1>b. name \in Names
  BY DEF MediaTypes, MediaTypeOK
<1>1. CASE Crash
  BY <1>1, OutputCrash
<1>2. CASE AnotherFile
  <2>1. \A n \in Names : target'[n] \in {target[n], Foreign}
    BY <1>2 DEF AnotherFile, MediaTypes, MediaTypeOK
  <2> QED  BY <1>2, <2>1 DEF AnotherFile, OutputIsWhole, Outputs
<1>3. CASE Mux
  <2>1. PICK m \in Places(name) : target' = [target EXCEPT ![m] = Muxed]
    BY <1>3 DEF Mux
  <2>2. UNION {track[t].plans : t \in Tracks} \subseteq {plan}
    BY <1>3 DEF Mux, TracksWhole
  <2>3. Sound(Muxed)
    BY <1>3, <1>a, <2>2 DEF Mux, Muxed, Sound
  <2> QED  BY <1>3, <1>b, <2>1, <2>3, PlaceParts, OutputPlaced DEF Mux
<1>4. CASE PlaceMain
  <2>1. PICK m \in Places(name) : target' = [target EXCEPT ![m] = track[1]]
    BY <1>4 DEF PlaceMain
  <2> QED  BY <1>4, <1>a, <1>b, <2>1, PlaceParts, OutputPlaced DEF PlaceMain
<1>5. CASE PlaceExtras
  <2>1. \A x \in Outputs' : x \in Outputs \/ \E t \in Tracks : x = track[t]
    BY <1>5 DEF PlaceExtras, Outputs
  <2>2. \A x \in Outputs' : Sound(x)
    BY <1>5, <1>a, <2>1 DEF PlaceExtras, OutputIsWhole, Sound
  <2> QED  BY <2>2 DEF OutputIsWhole, Sound
<1> QED  BY <1>1, <1>2, <1>3, <1>4, <1>5, DestinationStays, OutputStays

(***************************************************************************)
(* The theorems.                                                           *)
(***************************************************************************)
LEMMA MediaInvariantInit == MediaInit => MediaInvariant
<1> SUFFICES ASSUME MediaInit  PROVE MediaInvariant
  OBVIOUS
<1>1. stage = "idle" /\ Free.seg = 0 /\ Free.pc = "free"
  BY DEF MediaInit, Free, Idle, Begin
<1>2. SegmentsPlaced /\ TracksWhole
  BY <1>1 DEF SegmentsPlaced, TracksWhole, Working
<1>3. FilesDurable
  BY <1>1 DEF MediaInit, FilesDurable, Durable, NoFile, Working
<1>4. OutputIsWhole
  BY DEF MediaInit, OutputIsWhole, Outputs
<1> QED  BY <1>2, <1>3, <1>4, MediaTypesInit DEF MediaInvariant, MediaTypes

LEMMA MediaInvariantStep == MediaInvariant /\ [MediaNext]_mediaVars => MediaInvariant'
  BY MediaTypesStep, PlacedStep, FilesStep, TracksStep, OutputStep DEF MediaInvariant, MediaTypes

LEMMA MediaInvariantHolds == MediaSpec => []MediaInvariant
  BY MediaInvariantInit, MediaInvariantStep, PTL DEF MediaSpec

\* Every variable of an HLS or DASH download has its type, and a worker has a segment exactly when
\* it is at work on one (media/mod.rs).
THEOREM MediaTypeCorrect == MediaSpec => [](MediaTypeOK /\ WorkersHaveJob)
<1>1. MediaInvariant => MediaTypeOK /\ WorkersHaveJob
  BY DEF MediaInvariant
<1> QED  BY <1>1, MediaInvariantHolds, PTL

\* No two workers have a segment, none is lost, and a finished one has its file.
LEMMA PlacesFollow == MediaInvariant => SegmentsHaveOnePlace
<1> SUFFICES ASSUME MediaInvariant, stage = "work", NEW i \in All
             PROVE  /\ i \in done => i \notin queue /\ Holders(i) = {} /\ file[name][i].plan = plan
                    /\ Cardinality(Holders(i)) + Cardinality({i} \cap queue) <= 1
                    /\ (~Stopping /\ (\A w \in Workers : worker[w].pc # "err") =>
                          i \in queue \cup done \/ Holders(i) # {})
  BY DEF SegmentsHaveOnePlace
<1>1. SegmentsPlaced /\ FilesDurable
  BY DEF MediaInvariant
<1>2. i \in done => i \notin queue /\ Holders(i) = {} /\ file[name][i].plan = plan
  BY <1>1 DEF SegmentsPlaced, FilesDurable, Holders, Working, Whole
<1>3. Cardinality({}) = 0 /\ \A x : Cardinality({x}) = 1
  BY FS_EmptySet, FS_Singleton
<1>4. Cardinality(Holders(i)) + Cardinality({i} \cap queue) <= 1
  <2>1. CASE Holders(i) = {}
    <3>1. {i} \cap queue \in {{}, {i}}
      OBVIOUS
    <3>2. Cardinality(Holders(i)) = 0 /\ Cardinality({i} \cap queue) \in {0, 1}
      BY <2>1, <3>1, <1>3
    <3> QED  BY <3>2
  <2>2. CASE Holders(i) # {}
    <3>1. PICK w \in Workers : worker[w].seg = i
      BY <2>2 DEF Holders
    <3>2. i # 0
      OBVIOUS
    <3>3. Holders(i) = {w} /\ {i} \cap queue = {}
      BY <3>1, <3>2, <1>1 DEF Holders, SegmentsPlaced
    <3>4. Cardinality(Holders(i)) = 1 /\ Cardinality({i} \cap queue) = 0
      BY <3>3, <1>3
    <3> QED  BY <3>4
  <2> QED  BY <2>1, <2>2
<1>5. ~Stopping /\ (\A w \in Workers : worker[w].pc # "err") => i \in queue \cup done \/ Holders(i) # {}
  BY <1>1 DEF SegmentsPlaced, Holders
<1> QED  BY <1>2, <1>4, <1>5

\* HLS and DASH downloads (media/mod.rs: run_inner, worker, write_segment, concat_tracks): whatever
\* stops, failures, power losses and changed manifests came before, an output is put together from
\* whole segments of one manifest, every segment of a working job has one place, and a segment that
\* a saved state calls completed is on stable storage or is fetched again.
THEOREM MediaOutputCorrect == MediaSpec => []MediaOutputOK
<1>1. MediaInvariant => CompletedIsDurable
  BY DEF MediaInvariant, FilesDurable, Durable, CompletedIsDurable, Completed, Whole
<1>2. MediaInvariant => MediaOutputOK
  BY <1>1, PlacesFollow DEF MediaInvariant, MediaOutputOK
<1> QED  BY <1>2, MediaInvariantHolds, PTL

\* Unless the user chose to overwrite, no step of a stream's download, and no power loss, replaces or
\* damages a file that is not the job's own (claim_work_dir, place).
THEOREM ForeignFilesSafe == MediaSpec => ForeignFilesKept
<1>1. ASSUME MediaTypes, [MediaNext]_mediaVars  PROVE ForeignFileStep
  <2> SUFFICES ASSUME Policy # "overwrite", NEW n \in Names, target[n] = Foreign
               PROVE  target'[n] = Foreign
    BY DEF ForeignFileStep
  <2>a. name \in Names /\ target \in [Names -> Targets] /\ Foreign # Nothing
    BY <1>1 DEF MediaTypes, MediaTypeOK, Foreign, Nothing
  <2>1. CASE Crash
    BY <1>1, <2>1, CrashTargets
  <2>2. CASE AnotherFile
    BY <2>2, <2>a DEF AnotherFile
  <2>3. CASE Mux
    BY <2>3, <2>a, PlaceParts DEF Mux
  <2>4. CASE PlaceMain
    BY <2>4, <2>a, PlaceParts DEF PlaceMain
  <2>5. CASE PlaceExtras
    BY <2>5 DEF PlaceExtras
  <2> QED  BY <1>1, <2>1, <2>2, <2>3, <2>4, <2>5, DestinationStays
<1>2. MediaInvariant => MediaTypes
  BY DEF MediaInvariant, MediaTypes
<1> QED  BY <1>1, <1>2, MediaInvariantHolds, PTL DEF ForeignFilesKept, MediaSpec
=============================================================================
