------------------------- MODULE SegmentedTransfer -------------------------
(***************************************************************************)
(* One segmented download of the engine, over any number of runs: the      *)
(* connection workers (worker.rs), the writer thread behind its channel    *)
(* (writer.rs), the part of the supervisor that ends the transfer          *)
(* (supervisor.rs), the end of the job (transfer.rs, end_job), the durable *)
(* checkpoint (job.rs) and the resume state the manager keeps (manager/).  *)
(*                                                                         *)
(* A run starts from the saved resume state, is paused, fails, completes   *)
(* or is cut by a crash, which keeps every synced byte and any subset of   *)
(* the others.                                                             *)
(*                                                                         *)
(* Awaits of a worker that only wait (host permit, rate limiters, memory   *)
(* budget) are delays here.  Between checking `stop` and acting on the     *)
(* table a worker does nothing the others see, so the worker's steps are   *)
(* guarded by ~Stopping; the one step a stopped worker still completes is  *)
(* Submit, which follows the accounting of a chunk with no await.  How     *)
(* many connections run and how often they retry is left open.             *)
(***************************************************************************)
EXTENDS SegmentTable, FiniteSets

CONSTANTS
  RequestSizes,  \* Sizes of a bounded request (request_size, tuned at run time).
  MaxChunk,      \* Bound: bytes of one received chunk.
  WriteBuffer,   \* write_buffer: bytes a worker's buffer coalesces before it is written.
  WriteMayFail,  \* Whether a write or a sync of the part file may return an error.
  PartFileMayVanish, \* Whether the part file may be gone, or cut, when a run starts.
  MaxRuns,       \* Bound: runs of the download (a start or a resume each).
  MaxCheckpoints, \* Bound: checkpoints the manager asks for.
  MaxCrashes     \* Bound: crashes of the process or the machine.

ASSUME TransferAssumption ==
  /\ RequestSizes \subseteq Nat \ {0}
  /\ MaxChunk \in Nat \ {0}
  /\ WriteBuffer \in Nat
  /\ WriteMayFail \in BOOLEAN
  /\ PartFileMayVanish \in BOOLEAN
  /\ MaxRuns \in Nat /\ MaxCheckpoints \in Nat /\ MaxCrashes \in Nat

VARIABLES
  segs,      \* The segment table.
  wk,        \* The workers: where each is, and its assignment.
  chan,      \* The channel to the writer thread.
  buffer,    \* The writer's pending buffer of each worker.
  flushing,  \* What the writer is flushing its buffers for ("no" when it is not).
  failed,    \* The writer's sticky error flag.
  disk,      \* Bytes of the file the operating system has been given.
  synced,    \* Bytes that survive a power loss.
  ckpt,      \* The manager's checkpoint request: its stage and answer.
  final,     \* What the flush of end_job returned (empty: nothing).
  saved,     \* The resume state in the database (empty: none).
  phase,     \* Stage of the job.
  done,      \* The supervisor has seen every byte received.
  fatal,     \* The transfer has failed.
  paused,    \* A pause was requested.
  count      \* How many runs, checkpoints and crashes there were (for the bounds).

jobVars == << phase, done, fatal, paused >>
savedVars == << ckpt, final, saved >>
storageVars == << disk, synced, failed >>
writerVars == << buffer, flushing >>
vars == << segs, wk, chan, writerVars, storageVars, savedVars, jobVars, count >>

-----------------------------------------------------------------------------
Assigned == {"open", "pump", "hand", "last"}
WorkerStates == {"off", "idle", "fatal", "gaveup"} \cup Assigned
Phases == {"off", "run", "flush", "flushed", "close", "ended", "complete"}
Flushes == {"checkpoint", "end", "close"}

\* [cursor, to) is the piece a worker has accounted and not yet submitted.
WorkerRecords == [pc : WorkerStates, seg : Nat, race : BOOLEAN,
                  cursor : Offsets, to : Offsets, reqEnd : Offsets]
Buffers == [seg : Nat, from : Offsets, to : Offsets]
Messages == [kind : {"chunk"}, worker : Workers, seg : Nat, from : Offsets, to : Offsets]
            \cup [kind : Flushes, worker : {NoWorker}, seg : {0}, from : {0}, to : {0}]
Checkpoints == [at : {"no", "asked", "answered"}, states : Seq(SegmentStates)]

Off == [pc |-> "off", seg |-> 0, race |-> FALSE, cursor |-> 0, to |-> 0, reqEnd |-> 0]
Idle == [Off EXCEPT !.pc = "idle"]
AssignedTo(i, cursor, race) ==
  [pc |-> "open", seg |-> i, race |-> race, cursor |-> cursor, to |-> cursor, reqEnd |-> 0]

NoBuffer == [seg |-> 0, from |-> 0, to |-> 0]
NoBuffers == [w \in Workers |-> NoBuffer]
Control(kind) == [kind |-> kind, worker |-> NoWorker, seg |-> 0, from |-> 0, to |-> 0]
NoCheckpoint == [at |-> "no", states |-> << >>]

Span(from, to) == from .. to - 1
\* Mutant: the last byte does not stop the idle workers.
Stopping_NotWhenDone == fatal \/ paused
Stopping == done \/ fatal \/ paused
Whole == AllDone(segs) /\ ~fatal
\* Mutant: the supervisor finalizes without joining the workers.
NoneRunning_NotAwaited == TRUE
NoneRunning == \A w \in Workers : wk[w].pc = "off"

\* try_retire: never below one running worker.
OthersRunning(w) == \E v \in Workers \ {w} : wk[v].pc # "off"

\* Nothing of an earlier worker of this name is left: the next one may use it as a fresh id.
Fresh(w) == /\ wk[w].pc = "off"
            /\ buffer[w] = NoBuffer
            /\ \A k \in DOMAIN chan : chan[k].worker # w

\* Mutant: a request reaches beyond the end of its segment.
RequestEnd_Unclipped(cursor, end, n) == cursor + n

\* Where a bounded request of size n ends.
RequestEnd(cursor, end, n) == Smaller(end, cursor + n)

Init ==
  /\ segs = FreshTable
  /\ wk = [w \in Workers |-> Off]
  /\ chan = << >>
  /\ buffer = NoBuffers
  /\ flushing = "no"
  /\ failed = FALSE
  /\ disk = {} /\ synced = {}
  /\ ckpt = NoCheckpoint /\ final = << >> /\ saved = << >>
  /\ phase = "off" /\ done = FALSE /\ fatal = FALSE /\ paused = FALSE
  /\ count = [runs |-> 0, checkpoints |-> 0, crashes |-> 0]

-----------------------------------------------------------------------------
(***************************************************************************)
(* Starting a run.  The probe's response becomes the first worker's        *)
(* stream; only a resumed run records the request's end in the table.      *)
(***************************************************************************)
FirstWorker(table, resumed) ==
  \/ /\ FirstPending(table) = {}
     /\ segs' = table
     /\ UNCHANGED wk
  \/ \E w \in Workers, i \in FirstPending(table), n \in RequestSizes :
       LET pos == table[i].pos
           reqEnd == RequestEnd(pos, table[i].end, n)
           taken == TakeOwner(table, i, w)
       IN  /\ segs' = IF resumed THEN SetRequestEnd(taken, i, w, reqEnd) ELSE taken
           /\ wk' = [wk EXCEPT ![w] =
                      [AssignedTo(i, pos, FALSE) EXCEPT !.pc = "pump", !.reqEnd = reqEnd]]

BeginRun ==
  /\ phase = "off" /\ count.runs < MaxRuns
  /\ phase' = "run"
  /\ count' = [count EXCEPT !.runs = @ + 1]
  /\ UNCHANGED << chan, writerVars, savedVars, done, fatal, paused >>

\* A first run creates the part file; the setup may also fail, which changes nothing.  So
\* does a run whose part file fails verify_against_disk: what is saved stays saved.
StartFresh ==
  /\ saved = << >> \/ PartFileMayVanish
  /\ FirstWorker(FreshTable, FALSE)
  /\ BeginRun
  /\ disk' = {} /\ synced' = {}
  /\ UNCHANGED failed

Resume ==
  /\ saved # << >>
  /\ FirstWorker(FromStates(saved), TRUE)
  /\ BeginRun
  /\ UNCHANGED storageVars

-----------------------------------------------------------------------------
(***************************************************************************)
(* The connection workers.                                                 *)
(***************************************************************************)
Spawn(w) ==
  /\ phase = "run" /\ ~Stopping
  /\ Fresh(w)
  /\ Unowned(segs) \cup Raceable(segs) # {}
  /\ wk' = [wk EXCEPT ![w] = Idle]
  /\ UNCHANGED << segs, chan, writerVars, storageVars, savedVars, jobVars, count >>

Take(w, table, i, race) ==
  /\ segs' = table
  /\ wk' = [wk EXCEPT ![w] = AssignedTo(i, table[i].pos, race)]

Acquire(w) ==
  /\ ~Stopping
  /\ wk[w].pc = "idle"
  /\ \/ \E i \in LargestOf(segs, Unowned(segs)) : Take(w, TakeOwner(segs, i, w), i, FALSE)
     \/ /\ Unowned(segs) = {}
        /\ \E i \in LargestOf(segs, Splittable(segs)) :
             Take(w, Split(segs, i, w), Len(segs) + 1, FALSE)
     \/ /\ Unowned(segs) = {} /\ Splittable(segs) = {}
        /\ \E i \in Raceable(segs) : Take(w, TakeRacer(segs, i, w), i, TRUE)
  /\ UNCHANGED << chan, writerVars, storageVars, savedVars, jobVars, count >>

\* Nothing to acquire (whether a tail is raced depends on rates), or one worker too many.
LeaveIdle(w) ==
  /\ ~Stopping
  /\ wk[w].pc = "idle"
  /\ \/ Unowned(segs) = {} /\ Splittable(segs) = {}
     \/ OthersRunning(w)
  /\ wk' = [wk EXCEPT ![w] = Off]
  /\ UNCHANGED << segs, chan, writerVars, storageVars, savedVars, jobVars, count >>

\* Request [cursor, reqEnd); the server may promise a shorter range (`promised`).
Open(w) ==
  LET a == wk[w]
      end == segs[a.seg].end
  IN  /\ ~Stopping
      /\ a.pc = "open"
      /\ IF a.cursor >= end
         THEN wk' = [wk EXCEPT ![w] = Idle] /\ UNCHANGED segs
         ELSE \E n \in RequestSizes :
                LET reqEnd == IF a.race THEN end ELSE RequestEnd(a.cursor, end, n)
                IN  /\ segs' = IF a.race THEN segs ELSE SetRequestEnd(segs, a.seg, w, reqEnd)
                    /\ \E promised \in a.cursor + 1 .. reqEnd :
                         wk' = [wk EXCEPT ![w].pc = "pump", ![w].reqEnd = promised]
      /\ UNCHANGED << chan, writerVars, storageVars, savedVars, jobVars, count >>

\* A chunk of n bytes is accounted in the table; what is left of it is submitted next.
Receive(w) ==
  LET a == wk[w]
  IN  /\ ~Stopping
      /\ a.pc = "pump"
      /\ \E n \in 1 .. MaxChunk :
           LET accepted == Accepted(segs, a.seg, w, a.cursor, n)
               to == a.cursor + accepted
           IN  /\ a.cursor + n <= a.reqEnd
               /\ IF accepted = 0
                  THEN wk' = [wk EXCEPT ![w] = Idle] /\ UNCHANGED segs
                  ELSE /\ segs' = Advance(segs, a.seg, to)
                       /\ wk' = [wk EXCEPT ![w].to = to,
                                           ![w].pc = IF to >= segs[a.seg].end \/ Done(segs'[a.seg])
                                                     THEN "last" ELSE "hand"]
      /\ UNCHANGED << chan, writerVars, storageVars, savedVars, jobVars, count >>

Submit(w) ==
  LET a == wk[w]
  IN  /\ a.pc \in {"hand", "last"}
      /\ IF failed
         THEN /\ segs' = Release(segs, a.seg, w)
              /\ wk' = [wk EXCEPT ![w] = [Off EXCEPT !.pc = "fatal"]]
              /\ UNCHANGED chan
         ELSE /\ chan' = Append(chan, [kind |-> "chunk", worker |-> w, seg |-> a.seg,
                                       from |-> a.cursor, to |-> a.to])
              /\ wk' = [wk EXCEPT ![w] =
                         IF a.pc = "last" THEN Idle
                         ELSE [a EXCEPT !.pc = "pump", !.cursor = a.to]]
              /\ UNCHANGED segs
      /\ UNCHANGED << writerVars, storageVars, savedVars, jobVars, count >>

\* The promised range is complete: go on with the next request, or retire between two.
EndOfRange(w) ==
  LET a == wk[w]
  IN  /\ ~Stopping
      /\ a.pc = "pump" /\ a.cursor >= a.reqEnd
      /\ \/ /\ a.cursor >= segs[a.seg].end
            /\ wk' = [wk EXCEPT ![w] = Idle]
            /\ UNCHANGED segs
         \/ /\ a.cursor < segs[a.seg].end
            /\ wk' = [wk EXCEPT ![w] = AssignedTo(a.seg, a.cursor, a.race)]
            /\ UNCHANGED segs
         \/ /\ a.cursor < segs[a.seg].end /\ ~a.race /\ OthersRunning(w)
            /\ wk' = [wk EXCEPT ![w] = Off]
            /\ segs' = Release(segs, a.seg, w)
      /\ UNCHANGED << chan, writerVars, storageVars, savedVars, jobVars, count >>

\* change_url replaced the source: the stream is opened again at the cursor.
Reopen(w) ==
  /\ ~Stopping
  /\ wk[w].pc = "pump"
  /\ wk' = [wk EXCEPT ![w] = AssignedTo(wk[w].seg, wk[w].cursor, wk[w].race)]
  /\ UNCHANGED << segs, chan, writerVars, storageVars, savedVars, jobVars, count >>

\* on_failure: open again after a delay, leave because the server refused it (only beside another
\* connection), give up after too many failures, or fail the whole transfer.
Fail(w) ==
  LET a == wk[w]
  IN  /\ ~Stopping
      /\ a.pc \in {"open", "pump"}
      /\ \/ /\ wk' = [wk EXCEPT ![w] = AssignedTo(a.seg, a.cursor, a.race)]
            /\ UNCHANGED segs
         \/ \E exit \in {"off", "gaveup", "fatal"} :
              /\ exit = "off" => OthersRunning(w)
              /\ wk' = [wk EXCEPT ![w] = [Off EXCEPT !.pc = exit]]
              /\ segs' = Release(segs, a.seg, w)
      /\ UNCHANGED << chan, writerVars, storageVars, savedVars, jobVars, count >>

StopExit(w) ==
  LET a == wk[w]
  IN  /\ Stopping
      /\ a.pc \in {"idle", "open", "pump"}
      /\ segs' = IF a.pc = "idle" THEN segs ELSE Release(segs, a.seg, w)
      /\ wk' = [wk EXCEPT ![w] = Off]
      /\ UNCHANGED << chan, writerVars, storageVars, savedVars, jobVars, count >>

-----------------------------------------------------------------------------
(***************************************************************************)
(* The supervisor and the user's pause.                                    *)
(***************************************************************************)
\* A worker's exit is joined.  The last one to give up fails the transfer.
Join(w) ==
  /\ phase = "run"
  /\ wk[w].pc \in {"fatal", "gaveup"}
  /\ wk' = [wk EXCEPT ![w] = Off]
  /\ fatal' = \/ fatal
              \/ wk[w].pc = "fatal"
              \/ ~OthersRunning(w) /\ ~AllDone(segs)
  /\ UNCHANGED << segs, chan, writerVars, storageVars, savedVars, phase, done, paused, count >>

SeeAllDone ==
  /\ phase = "run" /\ ~done /\ AllDone(segs)
  /\ done' = TRUE
  /\ UNCHANGED << segs, wk, chan, writerVars, storageVars, savedVars, phase, fatal, paused, count >>

\* The tick finds the writer's error.
SeeWriteError ==
  /\ phase = "run" /\ failed /\ ~fatal
  /\ fatal' = TRUE
  /\ UNCHANGED << segs, wk, chan, writerVars, storageVars, savedVars, phase, done, paused, count >>

Pause ==
  /\ phase = "run" /\ ~paused
  /\ paused' = TRUE
  /\ UNCHANGED << segs, wk, chan, writerVars, storageVars, savedVars, phase, done, fatal, count >>

\* No worker is left: finalize closes the writer, any other end flushes it first.
EndTransfer ==
  /\ phase = "run"
  /\ NoneRunning
  /\ Stopping \/ AllDone(segs)
  /\ phase' = IF Whole THEN "close" ELSE "flush"
  /\ chan' = Append(chan, Control(IF Whole THEN "close" ELSE "end"))
  /\ UNCHANGED << segs, wk, writerVars, storageVars, savedVars, done, fatal, paused, count >>

EndClose ==
  /\ phase = "flushed"
  /\ phase' = "close"
  /\ chan' = Append(chan, Control("close"))
  /\ UNCHANGED << segs, wk, writerVars, storageVars, savedVars, done, fatal, paused, count >>

-----------------------------------------------------------------------------
(***************************************************************************)
(* The writer thread.  A flush writes one buffer per step, in any order    *)
(* (swap_remove reorders the pending list).                                *)
(***************************************************************************)
Write(b) ==
  \/ /\ disk' = disk \cup Span(b.from, b.to)
     /\ segs' = OnFlushed(segs, b.seg, b.from, b.to)
     /\ UNCHANGED failed
  \/ /\ WriteMayFail
     /\ failed' = TRUE
     /\ UNCHANGED << disk, segs >>

\* A chunk joins its worker's buffer if contiguous, otherwise the old buffer is written
\* first; a failed write drops the buffers of the others too.  The engine-wide budget may be
\* low then: everything held is flushed.
TakeChunk ==
  LET m == Head(chan)
      b == buffer[m.worker]
      new == [seg |-> m.seg, from |-> m.from, to |-> m.to]
      merged == [b EXCEPT !.to = m.to]
      contiguous == b.seg = m.seg /\ b.to = m.from
      Hold(c) == buffer' = [IF failed' THEN NoBuffers ELSE buffer EXCEPT ![m.worker] = c]
  IN  /\ flushing = "no"
      /\ chan # << >> /\ m.kind = "chunk"
      /\ chan' = Tail(chan)
      /\ \/ /\ failed
            /\ UNCHANGED << segs, buffer, disk, failed, flushing >>
         \/ /\ ~failed
            /\ flushing' \in {"no", "pressure"}
            /\ \/ /\ b = NoBuffer
                  /\ UNCHANGED << segs, disk, failed >>
                  /\ Hold(new)
               \/ /\ b # NoBuffer /\ contiguous /\ merged.to - merged.from < WriteBuffer
                  /\ UNCHANGED << segs, disk, failed >>
                  /\ Hold(merged)
               \/ /\ b # NoBuffer /\ contiguous /\ merged.to - merged.from >= WriteBuffer
                  /\ Write(merged)
                  /\ Hold(NoBuffer)
               \/ /\ b # NoBuffer /\ ~contiguous
                  /\ Write(b)
                  /\ Hold(new)
      /\ UNCHANGED << wk, synced, savedVars, jobVars, count >>

TakeControl ==
  /\ flushing = "no"
  /\ chan # << >> /\ Head(chan).kind # "chunk"
  /\ flushing' = Head(chan).kind
  /\ chan' = Tail(chan)
  /\ UNCHANGED << segs, wk, buffer, storageVars, savedVars, jobVars, count >>

\* No message for IDLE_FLUSH.
IdleFlush ==
  /\ flushing = "no"
  /\ chan = << >> /\ \E w \in Workers : buffer[w] # NoBuffer
  /\ flushing' = "pressure"
  /\ UNCHANGED << segs, wk, chan, buffer, storageVars, savedVars, jobVars, count >>

\* Mutant: a buffer is given up without being written.
FlushBuffer_Forgets(w) ==
  /\ flushing # "no"
  /\ buffer[w] # NoBuffer
  /\ buffer' = [buffer EXCEPT ![w] = NoBuffer]
  /\ UNCHANGED << segs, wk, chan, flushing, storageVars, savedVars, jobVars, count >>

FlushBuffer(w) ==
  /\ flushing # "no"
  /\ buffer[w] # NoBuffer
  /\ buffer' = [buffer EXCEPT ![w] = NoBuffer]
  /\ \/ failed /\ UNCHANGED << segs, disk, failed >>
     \/ ~failed /\ Write(buffer[w])
  /\ UNCHANGED << wk, chan, flushing, synced, savedVars, jobVars, count >>

Flushed == /\ flushing # "no"
           /\ \A w \in Workers : buffer[w] = NoBuffer
           /\ flushing' = "no"

\* Mutant: a flush answers without the fsync.
SyncSucceeds_Skipped == ~failed /\ UNCHANGED << synced, failed >>
SyncSucceeds == ~failed /\ synced' = disk /\ UNCHANGED failed
SyncFails == (failed \/ WriteMayFail) /\ failed' = TRUE /\ UNCHANGED synced

FinishPressure ==
  /\ flushing = "pressure" /\ Flushed
  /\ UNCHANGED << segs, wk, chan, buffer, storageVars, savedVars, jobVars, count >>

\* The states are captured after the sync.
FinishCheckpoint ==
  /\ flushing = "checkpoint" /\ Flushed
  /\ \/ SyncSucceeds /\ ckpt' = [at |-> "answered", states |-> DurableStates(segs)]
     \/ SyncFails /\ ckpt' = NoCheckpoint
  /\ UNCHANGED << segs, wk, chan, buffer, disk, final, saved, jobVars, count >>

FinishEnd ==
  /\ flushing = "end" /\ Flushed
  /\ phase' = "flushed"
  /\ \/ SyncSucceeds /\ final' = DurableStates(segs)
     \/ SyncFails /\ UNCHANGED final
  /\ UNCHANGED << segs, wk, chan, buffer, disk, ckpt, saved, done, fatal, paused, count >>

\* The thread ends; a checkpoint still in the channel is dropped unanswered.
FinishClose ==
  /\ flushing = "close" /\ Flushed
  /\ \/ SyncSucceeds /\ phase' = IF Whole THEN "complete" ELSE "ended"
     \/ SyncFails /\ phase' = "ended"
  /\ chan' = << >>
  /\ ckpt' = IF ckpt.at = "asked" THEN NoCheckpoint ELSE ckpt
  /\ UNCHANGED << segs, wk, buffer, disk, final, saved, done, fatal, paused, count >>

-----------------------------------------------------------------------------
(***************************************************************************)
(* The manager: periodic checkpoints, the outcome of the job, a crash.     *)
(***************************************************************************)
AskCheckpoint ==
  /\ phase \in {"run", "flush", "flushed"}
  /\ ckpt.at = "no" /\ count.checkpoints < MaxCheckpoints
  /\ ckpt' = [NoCheckpoint EXCEPT !.at = "asked"]
  /\ chan' = Append(chan, Control("checkpoint"))
  /\ count' = [count EXCEPT !.checkpoints = @ + 1]
  /\ UNCHANGED << segs, wk, writerVars, storageVars, final, saved, jobVars >>

\* A job that has ended answers with its final state.
AskEnded ==
  /\ phase = "ended" /\ final # << >>
  /\ ckpt.at = "no" /\ count.checkpoints < MaxCheckpoints
  /\ ckpt' = [at |-> "answered", states |-> final]
  /\ count' = [count EXCEPT !.checkpoints = @ + 1]
  /\ UNCHANGED << segs, wk, chan, writerVars, storageVars, final, saved, jobVars >>

\* Whenever the manager gets to it, even after the job ended or a new run began.
SaveCheckpoint ==
  /\ ckpt.at = "answered"
  /\ saved' = ckpt.states
  /\ ckpt' = NoCheckpoint
  /\ UNCHANGED << segs, wk, chan, writerVars, storageVars, final, jobVars, count >>

EndRun ==
  /\ phase' = "off"
  /\ segs' = FreshTable
  /\ wk' = [w \in Workers |-> Off]
  /\ chan' = << >>
  /\ buffer' = NoBuffers
  /\ flushing' = "no" /\ failed' = FALSE
  /\ final' = << >>
  /\ done' = FALSE /\ fatal' = FALSE /\ paused' = FALSE

\* handle_outcome of a paused or failed job.  Without an answer of end_job's flush,
\* resume_state() falls back to what the table says was written.
SaveOutcome ==
  /\ phase = "ended"
  /\ saved' = IF final # << >> THEN final ELSE DurableStates(segs)
  /\ EndRun
  /\ UNCHANGED << disk, synced, ckpt, count >>

Crash ==
  /\ phase # "complete"
  /\ count.crashes < MaxCrashes
  /\ count' = [count EXCEPT !.crashes = @ + 1]
  /\ \E kept \in SUBSET (disk \ synced) : disk' = synced \cup kept
  /\ synced' = disk'
  /\ ckpt' = NoCheckpoint
  /\ EndRun
  /\ UNCHANGED saved

Finished ==
  /\ phase = "complete" \/ (phase = "off" /\ count.runs = MaxRuns)
  /\ UNCHANGED vars

-----------------------------------------------------------------------------
WorkerStep(w) ==
  \/ Spawn(w) \/ Acquire(w) \/ LeaveIdle(w) \/ Open(w) \/ Receive(w) \/ Submit(w)
  \/ EndOfRange(w) \/ Reopen(w) \/ Fail(w) \/ StopExit(w)

WriterStep ==
  \/ TakeChunk \/ TakeControl \/ IdleFlush \/ (\E w \in Workers : FlushBuffer(w))
  \/ FinishPressure \/ FinishCheckpoint \/ FinishEnd \/ FinishClose

SupervisorStep ==
  \/ (\E w \in Workers : Join(w))
  \/ SeeAllDone \/ SeeWriteError \/ EndTransfer \/ EndClose

ManagerStep ==
  \/ StartFresh \/ Resume \/ Pause \/ AskCheckpoint \/ AskEnded \/ SaveCheckpoint \/ SaveOutcome

Next ==
  \/ \E w \in Workers : WorkerStep(w)
  \/ WriterStep \/ SupervisorStep \/ ManagerStep \/ Crash \/ Finished

Spec == Init /\ [][Next]_vars

(***************************************************************************)
(* What the runtime guarantees: a task that can run is polled, the writer  *)
(* thread is scheduled, and the manager handles a delivered outcome.       *)
(* Nothing is assumed of the network, the user or the disk.                *)
(***************************************************************************)
Fairness ==
  /\ \A w \in Workers : WF_vars(Submit(w)) /\ WF_vars(StopExit(w))
  /\ WF_vars(WriterStep) /\ WF_vars(SupervisorStep) /\ WF_vars(SaveOutcome)

FairSpec == Spec /\ Fairness
-----------------------------------------------------------------------------
(***************************************************************************)
(* What must hold.                                                         *)
(***************************************************************************)
\* Every variable keeps its type.
TypeOK ==
  /\ segs \in Seq(Segments)
  /\ wk \in [Workers -> WorkerRecords]
  /\ chan \in Seq(Messages)
  /\ buffer \in [Workers -> Buffers]
  /\ flushing \in {"no", "pressure"} \cup Flushes
  /\ failed \in BOOLEAN
  /\ disk \in SUBSET Bytes /\ synced \in SUBSET Bytes
  /\ ckpt \in Checkpoints
  /\ final \in Seq(SegmentStates) /\ saved \in Seq(SegmentStates)
  /\ phase \in Phases
  /\ done \in BOOLEAN /\ fatal \in BOOLEAN /\ paused \in BOOLEAN
  /\ count \in [runs : 0 .. MaxRuns, checkpoints : 0 .. MaxCheckpoints,
                crashes : 0 .. MaxCrashes]

\* However splits, races and releases interleave, the segments partition the file and the
\* frontiers stay ordered (start <= written <= pos <= end): validate() accepts every state.
SegmentsPartitionFile ==
  /\ ValidStates(segs) /\ ValidStates(DurableStates(segs))
  /\ \A i \in DOMAIN segs : segs[i].start <= segs[i].written /\ segs[i].written <= segs[i].pos

\* Where the bytes accounted as received are: with a worker, in the channel, or buffered.
InMemory ==
  UNION ({Span(wk[w].cursor, wk[w].to) : w \in {v \in Workers : wk[v].pc \in {"hand", "last"}}}
         \cup {Span(chan[k].from, chan[k].to) : k \in DOMAIN chan}
         \cup {Span(buffer[w].from, buffer[w].to) : w \in Workers})

\* No byte is lost on its way: as long as no write failed, a byte below a receive frontier
\* is on disk or still held in memory ("the table never claims bytes that were not handed
\* to the writer"), also when two workers race and when a segment changes hands.
ReceivedIsHeld ==
  ~failed => Claimed(segs) \subseteq disk \cup InMemory

\* What the table counts as written has reached the operating system.
WrittenIsOnDisk == Claimed(DurableStates(segs)) \subseteq disk

\* A segment is held only by workers that are on it, so none is left to a worker that is
\* gone or elsewhere: nobody would fetch its rest.
HoldersAreAtWork ==
  \A i \in DOMAIN segs :
    /\ segs[i].owner = NoWorker => segs[i].racer = NoWorker
    /\ segs[i].owner # NoWorker => segs[i].owner # segs[i].racer
    /\ \A w \in Workers : Holds(segs[i], w) => wk[w].pc \in Assigned /\ wk[w].seg = i

\* writer.rs, manager::checkpoint: a persisted state never claims bytes that are not
\* durably on disk, whatever crash follows.
SavedIsDurable == Claimed(saved) \subseteq synced

\* Completed is reported only for a whole, synced file: no worker, channel or buffer still
\* holds a byte of it.
CompleteIsWhole == phase = "complete" => synced = Bytes

\* Within a run no received or written byte is taken back, and a segment only loses a
\* tail it has not reached.
ProgressIsKept ==
  [][phase = "run" /\ phase' = "run" =>
       \A i \in DOMAIN segs :
         /\ i \in DOMAIN segs'
         /\ segs'[i].start = segs[i].start
         /\ segs'[i].pos >= segs[i].pos
         /\ segs'[i].written >= segs[i].written
         /\ segs'[i].end <= segs[i].end]_vars

\* Seen by whoever keeps the resume state, the download is a DurableDownload.
Durable == INSTANCE DurableDownload WITH
             Content <- Bytes, claimed <- Claimed(saved), durable <- synced,
             finished <- phase = "complete"
ImplementsDurableDownload == Durable!Spec

\* A pause, a failure or the last byte ends the run: no worker, flush or message is
\* waited for in vain.
MustEnd == phase = "run" /\ (Stopping \/ AllDone(segs))
RunOver == phase \in {"off", "complete"}
StoppedRunEnds == MustEnd ~> RunOver
=============================================================================
