------------------------------ MODULE MediaJob ------------------------------
(***************************************************************************)
(* One HLS or DASH download (prism-engine, media/mod.rs): the manifest is  *)
(* resolved into tracks of segments, workers fetch the segments into files *)
(* of a work directory, and when all are there the tracks are put together *)
(* and moved to the chosen name.  The job is paused, cancelled, killed by  *)
(* a crash and resumed from the list of completed segments that its owner  *)
(* saved; a resumed job resolves the manifest anew.                        *)
(*                                                                         *)
(* Segments are numbered through all tracks.  A file is what resuming and  *)
(* merging can tell of it: from which manifest it is, and whether its      *)
(* bytes are on stable storage ("synced"), only in the system's cache      *)
(* ("cached") or lost in part by a crash ("torn").                         *)
(***************************************************************************)
EXTENDS Naturals, Sequences, FiniteSets

CONSTANTS
  Workers,        \* the parallel segment workers
  NoWorker,       \* none of them
  Tracks,         \* the tracks of a manifest; the first is the main one
  TrackOf,        \* the track of each segment
  Keyed,          \* the encrypted segments, all under one key
  MaxRetries,
  Policy,         \* "rename", "overwrite" or "fail"
  Manifests,      \* what the address may resolve to: identifiers of tracks
  MaxName,        \* bound: the name and its numbered variants
  MaxRuns,        \* bound: runs of the job
  MaxCrashes      \* bound: crashes

\* The segments, numbered through all tracks.
All == DOMAIN TrackOf

SegmentsOf(t) == {i \in All : TrackOf[i] = t}

Names == 0 .. MaxName

NoFile == [plan |-> "none", data |-> "none"]
Files == {NoFile} \cup [plan : Manifests, data : {"synced", "cached", "torn"}]

\* What a track is put together from: the manifests of its segments.
Contents == [plans : SUBSET Manifests, whole : BOOLEAN, synced : BOOLEAN]

\* What may be found at a name: nothing, somebody else's file, or an output.
Nothing == [plans |-> {}, whole |-> FALSE, synced |-> FALSE]
Foreign == [plans |-> {"foreign"}, whole |-> TRUE, synced |-> TRUE]
Targets == {Nothing, Foreign} \cup Contents

NoState == [plan |-> "none", completed |-> {}, name |-> 0]
ResumeStates ==
  {NoState} \cup [plan : Manifests, completed : SUBSET All, name : Names]

ASSUME MediaAssumption ==
  /\ Workers # {} /\ NoWorker \notin Workers
  /\ 1 \in Tracks /\ TrackOf \in [All -> Tracks] /\ All \subseteq Nat \ {0}
  /\ Policy \in {"rename", "overwrite", "fail"}
  /\ "none" \notin Manifests
  /\ MaxRetries \in Nat /\ MaxName \in Nat /\ MaxRuns \in Nat /\ MaxCrashes \in Nat

VARIABLES
  stage,       \* where the job is; "idle" when there is none
  stopReason,  \* JobShared::stop_reason: "none", "pause", "cancel", "delete"
  plan,        \* the resolved manifest
  canRemux,    \* ffmpeg is there and remuxing is wanted
  name,        \* the final name, and with it the work directory
  done,        \* MediaInner::done
  queue,       \* Fetch::queue; segments are pushed in order and only popped
  worker,      \* the segment workers
  cachedKey,   \* the key has been fetched
  keyLock,     \* who holds Fetch::keys
  halt,        \* the child token: a worker failed
  track,       \* the put together tracks
  outcome,     \* result and resume state of the ended job
  saved,       \* the resume state its owner keeps
  finished,    \* the owner knows that it completed
  dirs,        \* the work directories that exist
  file,        \* the segment files in them
  fresh,       \* segment files whose directory entry a crash may lose
  target,      \* what lies at the names of the destination
  extras,      \* the separate tracks placed beside an output
  runs, crashes

work == <<stopReason, plan, canRemux, name, done, queue, worker, cachedKey, keyLock, halt, track>>
disk == <<dirs, file, fresh, target, extras>>
owner == <<saved, finished, runs, crashes>>
mediaVars == <<stage, work, outcome, disk, owner>>

WorkerRecords ==
  [pc : {"free", "fetch", "key", "keyfetch", "backoff", "write", "sync", "rename", "finish",
         "ok", "err", "joined"},
   seg : {0} \cup All, attempt : 0 .. MaxRetries, synced : BOOLEAN]
Begin(pc, i) == [pc |-> pc, seg |-> i, attempt |-> 0, synced |-> FALSE]
Idle(pc) == Begin(pc, 0)
Free == Idle("free")

MediaTypeOK ==
  /\ stage \in {"idle", "manifest", "work", "concat", "mux", "main", "extra", "ended"}
  /\ stopReason \in {"none", "pause", "cancel", "delete"}
  /\ plan \in Manifests \cup {"none"} /\ canRemux \in BOOLEAN /\ name \in Names
  /\ done \subseteq All /\ queue \subseteq All
  /\ worker \in [Workers -> WorkerRecords]
  /\ cachedKey \in BOOLEAN /\ keyLock \in Workers \cup {NoWorker} /\ halt \in BOOLEAN
  /\ track \in [Tracks -> Contents]
  /\ outcome.result \in {"none", "completed", "paused", "cancelled", "failed", "mismatch"}
  /\ outcome.state \in ResumeStates /\ saved \in ResumeStates
  /\ finished \in BOOLEAN /\ dirs \subseteq Names
  /\ file \in [Names -> [All -> Files]] /\ fresh \subseteq Names \X All
  /\ target \in [Names -> Targets] /\ extras \subseteq Contents
  /\ runs \in 0 .. MaxRuns /\ crashes \in 0 .. MaxCrashes

NoOutcome == [result |-> "none", state |-> NoState]

NoJob ==
  /\ stopReason' = "none" /\ plan' = "none" /\ canRemux' = FALSE /\ name' = 0
  /\ done' = {} /\ queue' = {} /\ worker' = [w \in Workers |-> Free]
  /\ cachedKey' = FALSE /\ keyLock' = NoWorker /\ halt' = FALSE
  /\ track' = [t \in Tracks |-> Nothing]

MediaInit ==
  /\ stage = "idle"
  /\ stopReason = "none" /\ plan = "none" /\ canRemux = FALSE /\ name = 0
  /\ done = {} /\ queue = {} /\ worker = [w \in Workers |-> Free]
  /\ cachedKey = FALSE /\ keyLock = NoWorker /\ halt = FALSE
  /\ track = [t \in Tracks |-> Nothing]
  /\ outcome = NoOutcome /\ saved = NoState /\ finished = FALSE
  /\ dirs = {} /\ file = [n \in Names |-> [i \in All |-> NoFile]] /\ fresh = {}
  /\ target \in [Names -> {Nothing, Foreign}] /\ target[MaxName] = Nothing
  /\ extras = {} /\ runs = 0 /\ crashes = 0

------------------------------------------------------------------------------
(* Start, stop and end.                                                     *)

\* The owner starts the job, with the state it saved if it has one.
StartJob ==
  /\ stage = "idle" /\ ~finished /\ runs < MaxRuns
  /\ stage' = "manifest" /\ runs' = runs + 1 /\ outcome' = NoOutcome
  /\ UNCHANGED <<work, disk, saved, finished, crashes>>

\* request_stop: cancel wins over pause, a wish to delete sticks.
AfterStop(r) ==
  CASE stopReason \in {"cancel", "delete"} /\ r = "pause" -> stopReason
    [] stopReason = "delete" /\ r = "cancel" -> stopReason
    [] OTHER -> r

RequestStop(r) ==
  /\ stage \notin {"idle", "ended"}
  /\ stopReason # AfterStop(r)
  /\ stopReason' = AfterStop(r)
  /\ UNCHANGED <<stage, plan, canRemux, name, done, queue, worker, cachedKey, keyLock, halt,
                 track, outcome, disk, owner>>

\* MediaProgress::resume_state.
Snapshot == [plan |-> plan, completed |-> done, name |-> name]

StopResult == IF stopReason \in {"cancel", "delete"} THEN "cancelled" ELSE "paused"

\* run: what the job ends with; a cancelled one with a state deletes its work directory.
EndMedia(result, state) ==
  LET delete == result = "cancelled" /\ stopReason = "delete" /\ state # NoState
  IN  /\ stage' = "ended"
      /\ outcome' = [result |-> result, state |-> IF delete THEN NoState ELSE state]
      /\ dirs' = IF delete THEN dirs \ {state.name} ELSE dirs
      /\ file' = IF delete THEN [file EXCEPT ![state.name] = [i \in All |-> NoFile]] ELSE file
      /\ fresh' = IF delete THEN {f \in fresh : f[1] # state.name} ELSE fresh
      /\ UNCHANGED <<work, owner>>

\* The owner takes the outcome: it keeps a state it is given, forgets it on completion and on
\* deletion, and goes on with what it has otherwise.
ReportOutcome ==
  /\ stage = "ended" /\ stage' = "idle"
  /\ finished' = (outcome.result = "completed")
  /\ saved' = IF outcome.result = "completed" \/ stopReason = "delete" THEN NoState
              ELSE IF outcome.state # NoState THEN outcome.state ELSE saved
  /\ NoJob
  /\ UNCHANGED <<outcome, disk, runs, crashes>>

\* JobShared::checkpoint of a job that has a progress source, and the row its owner writes.
Checkpoint ==
  /\ stage \in {"work", "concat", "mux", "main", "extra"}
  /\ saved' = Snapshot
  /\ UNCHANGED <<stage, work, outcome, disk, finished, runs, crashes>>

\* A power loss.  Of a segment file that was renamed since the last start the directory entry
\* may be lost, of a file that was not synced the bytes.
Crash ==
  /\ crashes < MaxCrashes /\ crashes' = crashes + 1
  /\ \E lost \in SUBSET fresh, torn \in BOOLEAN :
       file' = [n \in Names |-> [i \in All |->
                  IF <<n, i>> \in lost THEN NoFile
                  ELSE IF file[n][i].data = "cached" /\ torn
                       THEN [file[n][i] EXCEPT !.data = "torn"]
                       ELSE file[n][i]]]
  /\ target' = [n \in Names |->
       IF ~target[n].synced /\ target[n] # Nothing
       THEN [target[n] EXCEPT !.whole = FALSE] ELSE target[n]]
  /\ fresh' = {} /\ stage' = "idle" /\ outcome' = NoOutcome
  /\ NoJob
  /\ UNCHANGED <<dirs, extras, saved, finished, runs>>

------------------------------------------------------------------------------
(* The manifest, the destination and the work directory.                    *)

\* The manifest cannot be fetched or is not supported.
ManifestFails ==
  /\ stage = "manifest"
  /\ EndMedia("failed", NoState)
  /\ UNCHANGED <<target, extras>>

ManifestStopped ==
  /\ stage = "manifest" /\ stopReason # "none"
  /\ EndMedia(StopResult, NoState)
  /\ UNCHANGED <<target, extras>>

\* claim_work_dir: the names it may settle on.
Claimable ==
  CASE Policy = "rename" ->
         LET free == {n \in Names : target[n] = Nothing /\ n \notin dirs}
         IN  {n \in free : \A m \in free : n <= m}
    [] Policy = "overwrite" -> {0}
    [] Policy = "fail" -> IF target[0] = Nothing THEN {0} ELSE {}

\* The workers start with the segments that are not done.
BeginWork(p, n, have) ==
  /\ stage' = "work" /\ plan' = p /\ canRemux' \in BOOLEAN
  /\ name' = n /\ done' = have /\ queue' = All \ have
  /\ worker' = [w \in Workers |-> Free]
  /\ cachedKey' = FALSE /\ keyLock' = NoWorker /\ halt' = FALSE
  /\ dirs' = dirs \cup {n}
  /\ UNCHANGED <<stopReason, track, outcome, file, fresh, target, extras, owner>>

\* run_inner without a resume state.
BeginFresh ==
  /\ stage = "manifest" /\ saved = NoState
  /\ \E p \in Manifests, n \in Claimable : BeginWork(p, n, {})

\* ConflictPolicy::Fail and the name is taken.
NameTaken ==
  /\ stage = "manifest" /\ saved = NoState /\ Policy = "fail" /\ Claimable = {}
  /\ EndMedia("failed", NoState)
  /\ UNCHANGED <<target, extras>>

\* Mutant: the files of a state are not looked for.
Completed_NotLookedFor(r) == r.completed

\* The segments of a resume state that need not be fetched again.
Completed(r) == {i \in r.completed : file[r.name][i] # NoFile}

\* Mutant: any tracks will do.
SameTracks_Any(p, r) == TRUE

\* run_inner with a resume state: the tracks must be those of the state.
SameTracks(p, r) == p = r.plan

BeginResumed ==
  /\ stage = "manifest" /\ saved # NoState
  /\ \E p \in Manifests :
       SameTracks(p, saved) /\ BeginWork(p, saved.name, Completed(saved))

TracksChanged ==
  /\ stage = "manifest" /\ saved # NoState
  /\ \E p \in Manifests : ~SameTracks(p, saved)
  /\ EndMedia("mismatch", saved)
  /\ UNCHANGED <<target, extras>>

------------------------------------------------------------------------------
(* The segment workers.                                                     *)

Stopping == stopReason # "none" \/ halt

SetWorker(w, r) == worker' = [worker EXCEPT ![w] = r]
SetPc(w, pc) == worker' = [worker EXCEPT ![w].pc = pc]

OnlyWorkers == UNCHANGED <<stage, stopReason, plan, canRemux, name, halt, track, outcome, target,
                           extras, dirs, owner>>

FreeKey(w) == IF keyLock = w THEN NoWorker ELSE keyLock

\* The next segment of the queue.
Take(w) ==
  /\ stage = "work" /\ worker[w].pc = "free" /\ ~Stopping /\ queue # {}
  /\ \E i \in queue :
       /\ \A k \in queue : i <= k
       /\ queue' = queue \ {i}
       /\ SetWorker(w, Begin("fetch", i))
  /\ OnlyWorkers /\ UNCHANGED <<done, cachedKey, keyLock, file, fresh>>

Leave(w) ==
  /\ stage = "work" /\ worker[w].pc = "free" /\ (Stopping \/ queue = {})
  /\ SetPc(w, "ok")
  /\ OnlyWorkers /\ UNCHANGED <<queue, done, cachedKey, keyLock, file, fresh>>

\* The body of the segment is complete; an encrypted one waits for its key.
Fetched(w) ==
  /\ worker[w].pc = "fetch"
  /\ SetPc(w, IF worker[w].seg \in Keyed THEN "key" ELSE "write")
  /\ OnlyWorkers /\ UNCHANGED <<queue, done, cachedKey, keyLock, file, fresh>>

\* Fetch::key keeps its lock while it asks for the key.
AskKey(w) ==
  /\ worker[w].pc = "key" /\ keyLock = NoWorker /\ ~cachedKey
  /\ keyLock' = w /\ SetPc(w, "keyfetch")
  /\ OnlyWorkers /\ UNCHANGED <<queue, done, cachedKey, file, fresh>>

\* The key is there; the segment is decrypted with it or cannot be.
KeyReady(w, ok) ==
  /\ \/ worker[w].pc = "keyfetch"
     \/ worker[w].pc = "key" /\ keyLock = NoWorker /\ cachedKey
  /\ cachedKey' = TRUE /\ keyLock' = FreeKey(w)
  /\ SetWorker(w, IF ok THEN [worker[w] EXCEPT !.pc = "write"] ELSE Idle("err"))
  /\ OnlyWorkers /\ UNCHANGED <<queue, done, file, fresh>>

\* download fails: it is tried again after a delay, or the worker gives up.
FetchFails(w, transient) ==
  /\ worker[w].pc \in {"fetch", "keyfetch"}
  /\ keyLock' = FreeKey(w)
  /\ IF transient /\ worker[w].attempt < MaxRetries
     THEN SetWorker(w, [worker[w] EXCEPT !.pc = "backoff", !.attempt = @ + 1])
     ELSE SetWorker(w, Idle("err"))
  /\ OnlyWorkers /\ UNCHANGED <<queue, done, cachedKey, file, fresh>>

Retry(w) ==
  /\ worker[w].pc = "backoff" /\ SetPc(w, "fetch")
  /\ OnlyWorkers /\ UNCHANGED <<queue, done, cachedKey, keyLock, file, fresh>>

\* Mutant: the wait for a key is not interrupted.
Abort_NotForKeys(w) ==
  /\ Stopping /\ worker[w].pc \in {"fetch", "backoff"}
  /\ SetWorker(w, Idle("ok")) /\ keyLock' = FreeKey(w)
  /\ OnlyWorkers /\ UNCHANGED <<queue, done, cachedKey, file, fresh>>

\* The stop token interrupts a download and the delay before the next attempt.
Abort(w) ==
  /\ Stopping /\ worker[w].pc \in {"fetch", "key", "keyfetch", "backoff"}
  /\ SetWorker(w, Idle("ok")) /\ keyLock' = FreeKey(w)
  /\ OnlyWorkers /\ UNCHANGED <<queue, done, cachedKey, file, fresh>>

\* Mutant: the temporary file is renamed without being synced.
WriteTemporary_NotSynced(w) ==
  /\ worker[w].pc = "write" /\ SetPc(w, "rename")
  /\ OnlyWorkers /\ UNCHANGED <<queue, done, cachedKey, keyLock, file, fresh>>

\* write_segment, which nothing interrupts: the temporary file, its sync, the rename.
WriteTemporary(w) ==
  /\ worker[w].pc = "write" /\ SetPc(w, "sync")
  /\ OnlyWorkers /\ UNCHANGED <<queue, done, cachedKey, keyLock, file, fresh>>

SyncTemporary(w) ==
  /\ worker[w].pc = "sync"
  /\ SetWorker(w, [worker[w] EXCEPT !.pc = "rename", !.synced = TRUE])
  /\ OnlyWorkers /\ UNCHANGED <<queue, done, cachedKey, keyLock, file, fresh>>

RenameTemporary(w) ==
  /\ worker[w].pc = "rename"
  /\ file' = [file EXCEPT ![name][worker[w].seg] =
                [plan |-> plan, data |-> IF worker[w].synced THEN "synced" ELSE "cached"]]
  /\ fresh' = fresh \cup {<<name, worker[w].seg>>}
  /\ SetPc(w, "finish")
  /\ OnlyWorkers /\ UNCHANGED <<queue, done, cachedKey, keyLock>>

\* The disk is full or gone.
WriteFails(w) ==
  /\ worker[w].pc \in {"write", "sync", "rename"}
  /\ SetWorker(w, Idle("err"))
  /\ OnlyWorkers /\ UNCHANGED <<queue, done, cachedKey, keyLock, file, fresh>>

\* MediaProgress::finish, and the loop again.
Finish(w) ==
  /\ worker[w].pc = "finish"
  /\ done' = done \cup {worker[w].seg}
  /\ SetWorker(w, Free)
  /\ OnlyWorkers /\ UNCHANGED <<queue, cachedKey, keyLock, file, fresh>>

------------------------------------------------------------------------------
(* Joining the workers and merging the tracks.                              *)

\* The first error stops the other workers.
Join(w) ==
  /\ stage = "work" /\ worker[w].pc \in {"ok", "err"}
  /\ SetPc(w, "joined")
  /\ halt' = (halt \/ worker[w].pc = "err")
  /\ UNCHANGED <<stage, stopReason, plan, canRemux, name, done, queue, cachedKey, keyLock, track,
                 outcome, disk, owner>>

AllJoined == stage = "work" /\ \A w \in Workers : worker[w].pc = "joined"

\* A failed or stopped job ends with its state; one that has every segment goes on, even
\* when it was asked to stop.
StopShort == halt \/ (stopReason # "none" /\ done # All)

EndOfWork ==
  /\ AllJoined /\ StopShort
  /\ EndMedia(IF halt THEN "failed" ELSE StopResult, Snapshot)
  /\ UNCHANGED <<target, extras>>

BeginMerge ==
  /\ AllJoined /\ ~StopShort
  /\ stage' = "concat"
  /\ UNCHANGED <<work, outcome, disk, owner>>

\* concat_tracks: every segment file of a track, in order, synced.
Concatenated(t) ==
  LET parts == {file[name][i] : i \in SegmentsOf(t)}
  IN  [plans |-> {p.plan : p \in parts}, whole |-> \A p \in parts : p.data # "torn",
       synced |-> TRUE]

MissingSegment == \E i \in All : file[name][i] = NoFile

Concat ==
  /\ stage = "concat" /\ ~MissingSegment
  /\ track' = [t \in Tracks |-> Concatenated(t)]
  /\ stage' = IF canRemux THEN "mux" ELSE "main"
  /\ UNCHANGED <<stopReason, plan, canRemux, name, done, queue, worker, cachedKey, keyLock, halt,
                 outcome, disk, owner>>

ConcatFails ==
  /\ stage = "concat"
  /\ EndMedia("failed", Snapshot)
  /\ UNCHANGED <<target, extras>>

\* Another program puts a file where the output is to go, just before it is moved there.
AnotherFile ==
  /\ stage \in {"mux", "main"} /\ target[name] = Nothing /\ \A n \in Names : target[n] # Foreign
  /\ target' = [target EXCEPT ![name] = Foreign]
  /\ UNCHANGED <<stage, work, outcome, dirs, file, fresh, extras, owner>>

\* Mutant: a rename that replaces.
Places_Replacing(n) == {n}

\* place: where an output may be moved to.
Places(n) ==
  CASE Policy = "overwrite" -> {n}
    [] Policy = "fail" -> {m \in {n} : target[m] = Nothing}
    [] Policy = "rename" -> IF target[n] = Nothing THEN {n}
                            ELSE {m \in Names : m > n /\ target[m] = Nothing}

\* remux::mux: ffmpeg joins the tracks into a file that is not synced.
Muxed ==
  [plans |-> UNION {track[t].plans : t \in Tracks},
   whole |-> \A t \in Tracks : track[t].whole, synced |-> FALSE]

\* The end of run_inner: the work directory is removed.
Complete ==
  /\ stage' = "ended" /\ outcome' = [result |-> "completed", state |-> NoState]
  /\ dirs' = dirs \ {name} /\ file' = [file EXCEPT ![name] = [i \in All |-> NoFile]]
  /\ fresh' = {f \in fresh : f[1] # name}
  /\ UNCHANGED <<work, owner>>

Mux ==
  /\ stage = "mux"
  /\ \E m \in Places(name) : target' = [target EXCEPT ![m] = Muxed]
  /\ Complete /\ UNCHANGED extras

\* ffmpeg fails, or the name is taken.
MuxFails ==
  /\ stage = "mux"
  /\ EndMedia("failed", Snapshot)
  /\ UNCHANGED <<target, extras>>

MuxStopped ==
  /\ stage = "mux" /\ stopReason # "none"
  /\ EndMedia(StopResult, Snapshot)
  /\ UNCHANGED <<target, extras>>

\* Without ffmpeg the first track becomes the output ...
PlaceMain ==
  /\ stage = "main"
  /\ \E m \in Places(name) : target' = [target EXCEPT ![m] = track[1]]
  /\ stage' = "extra"
  /\ UNCHANGED <<work, outcome, dirs, file, fresh, extras, owner>>

\* ... and the others are placed beside it, under names of their own.
PlaceExtras ==
  /\ stage = "extra"
  /\ extras' = extras \cup {track[t] : t \in Tracks \ {1}}
  /\ Complete /\ UNCHANGED target

PlaceFails ==
  /\ stage \in {"main", "extra"}
  /\ EndMedia("failed", Snapshot)
  /\ UNCHANGED <<target, extras>>

------------------------------------------------------------------------------
LocalStep(w) ==
  \/ Take(w) \/ Leave(w) \/ Abort(w) \/ Retry(w)
  \/ WriteTemporary(w) \/ SyncTemporary(w) \/ RenameTemporary(w) \/ Finish(w) \/ Join(w)

NetworkStep(w) ==
  \/ Fetched(w) \/ AskKey(w) \/ WriteFails(w)
  \/ \E b \in BOOLEAN : KeyReady(w, b) \/ FetchFails(w, b)

Coordinate ==
  \/ EndOfWork \/ BeginMerge \/ Concat \/ ConcatFails \/ PlaceMain \/ PlaceExtras \/ PlaceFails
  \/ ManifestStopped \/ MuxStopped

Environment ==
  \/ StartJob \/ ReportOutcome \/ Checkpoint \/ Crash
  \/ ManifestFails \/ BeginFresh \/ NameTaken \/ BeginResumed \/ TracksChanged
  \/ AnotherFile \/ Mux \/ MuxFails
  \/ \E r \in {"pause", "cancel", "delete"} : RequestStop(r)

MediaNext ==
  \/ \E w \in Workers : LocalStep(w) \/ NetworkStep(w)
  \/ Coordinate \/ Environment

\* Nothing is assumed of the network, of ffmpeg or of the owner.
MediaFairness == (\A w \in Workers : WF_mediaVars(LocalStep(w))) /\ WF_mediaVars(Coordinate)

MediaSpec == MediaInit /\ [][MediaNext]_mediaVars

------------------------------------------------------------------------------
Outputs == ({target[n] : n \in Names} \ {Nothing, Foreign}) \cup extras

\* What a run places at its destination is made of whole segments of one manifest, whatever
\* pauses, failures, crashes and changed manifests came before (run_inner, concat_tracks).
\* Only a remuxed output, which is never synced, may be damaged by a later power loss.
OutputIsWhole ==
  \A o \in Outputs :
    (\E p \in Manifests : o.plans \subseteq {p}) /\ (o.synced => o.whole)

\* Every segment of a working job is queued, with exactly one worker, or done, as long as
\* no worker had to give its segment up (worker, MediaProgress::finish).
Holders(i) == {w \in Workers : worker[w].seg = i}

SegmentsHaveOnePlace ==
  stage = "work" =>
    \A i \in All :
      /\ (i \in done => i \notin queue /\ Holders(i) = {} /\ file[name][i].plan = plan)
      /\ Cardinality(Holders(i)) + Cardinality({i} \cap queue) <= 1
      /\ (~Stopping /\ (\A w \in Workers : worker[w].pc # "err") =>
            i \in queue \cup done \/ Holders(i) # {})

\* A segment that a saved state calls completed is, where its file is found, whole and of the
\* state's manifest: a resumed job skips it (resume_state, write_segment).
CompletedIsDurable ==
  saved # NoState =>
    \A i \in Completed(saved) :
      file[saved.name][i] = [plan |-> saved.plan, data |-> "synced"]

\* HLS and DASH downloads (media/mod.rs): a finished download is put together from segments of
\* one manifest, no two workers have the same segment, none is lost, and a segment that the
\* saved state counts as done is on stable storage, through stops, crashes and a changed manifest.
MediaOutputOK == OutputIsWhole /\ SegmentsHaveOnePlace /\ CompletedIsDurable

\* A job that is stopped ends, wherever the workers are: waiting for a key, for the network,
\* for a retry or for the disk (worker, run_inner).
AskedToStop == stopReason # "none"
NotRunning == stage \in {"idle", "ended"}
StoppedJobEnds == AskedToStop ~> NotRunning

\* Unless the user chose to overwrite, a file that is not the job's own is never replaced
\* (claim_work_dir, place).
ForeignFileStep ==
  Policy # "overwrite" => \A n \in Names : target[n] = Foreign => target'[n] = Foreign
ForeignFilesKept == [][ForeignFileStep]_mediaVars

=============================================================================
