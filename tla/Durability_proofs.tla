-------------------------- MODULE Durability_proofs --------------------------
(***************************************************************************)
(* As long as no write or sync of the part file fails and no part file     *)
(* vanishes, no stored resume state claims a byte that would not survive a *)
(* power loss, whatever workers, flushes, checkpoints, pauses and crashes  *)
(* interleave.                                                             *)
(*                                                                         *)
(* The saved state alone is no invariant to induct on.  It comes from a    *)
(* checkpoint's answer or from what end_job's flush returned; both are     *)
(* captured after a sync of everything the table counted as written; and   *)
(* resume_state()'s fallback to the unsynced table is never taken, because *)
(* every path of a run to "ended" has either passed end_job's flush or     *)
(* closed a whole file.                                                    *)
(***************************************************************************)
EXTENDS SegmentedTransfer_proofs

\* What the table counts as written is on disk, and no write has failed.
StorageSound == ~failed /\ TableFlushed(segs, disk) /\ synced \subseteq disk

\* Everything that is or may become the saved state claims synced bytes.
ClaimsSound ==
  /\ Claimed(saved) \subseteq synced
  /\ Claimed(final) \subseteq synced
  /\ ckpt.at = "answered" => Claimed(ckpt.states) \subseteq synced

\* The writer is asked to close, or closes.
Closing ==
  phase = "close" \/ flushing = "close" \/ \E k \in DOMAIN chan : chan[k].kind = "close"

\* A writer is closed after end_job's flush, or with every byte received and no worker left.
EndSound ==
  /\ phase \in {"flushed", "ended"} => final # << >>
  /\ Closing => final # << >> \/ (phase # "run" /\ Whole /\ NoneRunning)

\* Between two runs nothing is under way, and no checkpoint of a never saved download waits.
QuietBetweenRuns ==
  phase = "off" =>
    /\ NoneRunning
    /\ chan = << >> /\ flushing = "no" /\ final = << >>
    /\ \A w \in Workers : buffer[w] = NoBuffer
    /\ saved = << >> => ckpt.at # "answered"

DurabilityInvariant == StorageSound /\ ClaimsSound /\ EndSound /\ QuietBetweenRuns

-----------------------------------------------------------------------------
\* A step that changes neither storage nor claims, appends at most a chunk to the channel, and
\* is a run's or a worker's, keeps the invariant if the table stays sound.
LEMMA RunningStep ==
  ASSUME DurabilityInvariant,
         phase = "run" \/ ~NoneRunning, phase # "off", phase' = phase,
         TableFlushed(segs', disk), flushing' = flushing,
         \A k \in DOMAIN chan' : chan'[k].kind = "close" => \E j \in DOMAIN chan : chan[j].kind = "close",
         UNCHANGED << storageVars, savedVars >>
  PROVE  DurabilityInvariant'
<1>1. StorageSound' /\ ClaimsSound'
  BY DEF DurabilityInvariant, StorageSound, ClaimsSound, storageVars, savedVars
<1>2. Closing => final # << >>
  BY DEF DurabilityInvariant, EndSound
<1>3. Closing' => Closing
  BY DEF Closing
<1>4. EndSound'
  BY <1>2, <1>3 DEF DurabilityInvariant, EndSound, savedVars
<1>5. QuietBetweenRuns'
  BY DEF QuietBetweenRuns
<1>6. QED
  BY <1>1, <1>4, <1>5 DEF DurabilityInvariant

\* No worker's step makes the table claim a byte as written.
LEMMA WorkerTable ==
  ASSUME TypeInvariant, TableFlushed(segs, disk), NEW w \in Workers, WorkerStep(w)
  PROVE  TableFlushed(segs', disk)
<1> DEFINE a == wk[w]
<1>1. CASE segs' = segs
  BY <1>1
<1>2. CASE segs' = Release(segs, a.seg, w)
  BY <1>2, ReleaseFlushed
<1>3. CASE Acquire(w)
  <2>1. ASSUME NEW i \in LargestOf(segs, Unowned(segs)), Take(w, TakeOwner(segs, i, w), i, FALSE)
        PROVE  TableFlushed(segs', disk)
    BY <2>1, TakeFlushed DEF Take, LargestOf, Unowned
  <2>2. ASSUME NEW i \in LargestOf(segs, Splittable(segs)),
               Take(w, Split(segs, i, w), Len(segs) + 1, FALSE)
        PROVE  TableFlushed(segs', disk)
    BY <2>2, SplitFlushed DEF Take, LargestOf
  <2>3. ASSUME NEW i \in Raceable(segs), Take(w, TakeRacer(segs, i, w), i, TRUE)
        PROVE  TableFlushed(segs', disk)
    BY <2>3, TakeFlushed DEF Take, Raceable
  <2>4. QED
    BY <1>3, <2>1, <2>2, <2>3 DEF Acquire
<1>4. CASE Open(w)
  <2>1. a.pc \in Assigned
    BY <1>4 DEF Open, Assigned
  <2>2. a.seg \in DOMAIN segs /\ segs[a.seg] \in Segments /\ a.cursor \in Offsets
    BY <2>1, ReassignedType
  <2>3. segs[a.seg].end \in Offsets
    BY <2>2 DEF Segments
  <2>4. CASE a.cursor < segs[a.seg].end
    <3>1. PICK n \in RequestSizes :
            \/ segs' = segs
            \/ segs' = SetRequestEnd(segs, a.seg, w, RequestEnd(a.cursor, segs[a.seg].end, n))
      BY <1>4, <2>2, <2>3, <2>4, SizesAssumption DEF Open, Offsets
    <3>2. n \in Nat
      BY TransferAssumption
    <3>3. RequestEnd(a.cursor, segs[a.seg].end, n) \in Offsets
      BY <2>2, <2>3, <3>2, SizesAssumption DEF RequestEnd, Smaller, Offsets
    <3>4. QED
      BY <3>1, <3>3, SetRequestEndFlushed
  <2>5. CASE ~(a.cursor < segs[a.seg].end)
    BY <1>4, <2>2, <2>3, <2>5, SizesAssumption DEF Open, Offsets
  <2>6. QED
    BY <2>4, <2>5
<1>5. CASE Receive(w)
  <2>1. a.pc \in Assigned
    BY <1>5 DEF Receive, Assigned
  <2>2. a.seg \in DOMAIN segs /\ a.cursor \in Offsets /\ segs \in Seq(Segments)
    BY <2>1, ReassignedType DEF TypeInvariant, TypeOK
  <2>3. PICK n \in 1 .. MaxChunk :
          \/ segs' = segs
          \/ segs' = Advance(segs, a.seg, a.cursor + Accepted(segs, a.seg, w, a.cursor, n))
    BY <1>5 DEF Receive
  <2>4. n \in Nat
    BY TransferAssumption
  <2>5. a.cursor + Accepted(segs, a.seg, w, a.cursor, n) \in Offsets
    BY <2>2, <2>4, AcceptedBounds
  <2>6. QED
    BY <2>2, <2>3, <2>5, AdvanceFlushed
<1>6. \/ segs' = segs \/ segs' = Release(segs, a.seg, w)
      \/ Acquire(w) \/ Open(w) \/ Receive(w)
  BY DEF WorkerStep, Spawn, LeaveIdle, Submit, EndOfRange, Reopen, Fail, StopExit
<1>7. QED
  BY <1>1, <1>2, <1>3, <1>4, <1>5, <1>6

\* A worker's step keeps the invariant.
LEMMA WorkerDurable ==
  ASSUME TypeInvariant, DurabilityInvariant, NEW w \in Workers, WorkerStep(w)
  PROVE  DurabilityInvariant'
<1>1. phase = "run" \/ ~NoneRunning
  BY DEF WorkerStep, Spawn, Acquire, LeaveIdle, Open, Receive, Submit, EndOfRange, Reopen, Fail,
         StopExit, NoneRunning, Assigned
<1>2. phase # "off"
  BY <1>1 DEF DurabilityInvariant, QuietBetweenRuns
<1>3. phase' = phase /\ flushing' = flushing /\ UNCHANGED << storageVars, savedVars >>
  BY DEF WorkerStep, Spawn, Acquire, LeaveIdle, Open, Receive, Submit, EndOfRange, Reopen, Fail,
         StopExit, jobVars, writerVars
<1>4. TableFlushed(segs', disk)
  BY WorkerTable DEF DurabilityInvariant, StorageSound
<1>5. \A k \in DOMAIN chan' :
        chan'[k].kind = "close" => \E j \in DOMAIN chan : chan[j].kind = "close"
  <2>1. CASE chan' = chan
    BY <2>1
  <2>2. CASE Submit(w) /\ chan' # chan
    <3>1. PICK m : chan' = Append(chan, m) /\ m.kind = "chunk"
      BY <2>2 DEF Submit
    <3>2. chan \in Seq(Messages)
      BY DEF TypeInvariant, TypeOK
    <3>3. /\ Len(chan) \in Nat /\ DOMAIN chan = 1 .. Len(chan)
          /\ DOMAIN chan' = 1 .. Len(chan) + 1
          /\ chan'[Len(chan) + 1] = m
          /\ \A k \in 1 .. Len(chan) : chan'[k] = chan[k]
      BY <3>1, <3>2
    <3>4. QED
      BY <3>1, <3>3
  <2>3. QED
    BY <2>1, <2>2 DEF WorkerStep, Spawn, Acquire, LeaveIdle, Open, Receive, EndOfRange, Reopen,
                      Fail, StopExit
<1>6. QED
  BY <1>1, <1>2, <1>3, <1>4, <1>5, RunningStep

\* A run starts with a table that claims nothing, or what the saved state claims.
LEMMA StartDurable ==
  ASSUME ~PartFileMayVanish, TypeInvariant, DurabilityInvariant, StartFresh \/ Resume
  PROVE  DurabilityInvariant'
<1>1. /\ phase = "off" /\ phase' = "run"
      /\ UNCHANGED << chan, writerVars, savedVars >>
  BY DEF StartFresh, Resume, BeginRun
<1>2. /\ chan = << >> /\ flushing = "no" /\ final = << >>
      /\ saved = << >> => ckpt.at # "answered"
      /\ synced \subseteq disk /\ ~failed /\ ClaimsSound
  BY <1>1 DEF DurabilityInvariant, QuietBetweenRuns, StorageSound
<1>3. saved \in Seq(SegmentStates)
  BY DEF TypeInvariant, TypeOK
<1>4. ASSUME NEW d, NEW table, NEW resumed \in BOOLEAN,
             TableFlushed(table, d), FirstWorker(table, resumed)
      PROVE  TableFlushed(segs', d)
  <2>1. CASE segs' = table
    BY <1>4, <2>1
  <2>2. ASSUME NEW w \in Workers, NEW i \in FirstPending(table), NEW n \in RequestSizes,
               LET pos == table[i].pos
                   reqEnd == RequestEnd(pos, table[i].end, n)
                   taken == TakeOwner(table, i, w)
               IN  segs' = IF resumed THEN SetRequestEnd(taken, i, w, reqEnd) ELSE taken
        PROVE  TableFlushed(segs', d)
    <3> DEFINE reqEnd == RequestEnd(table[i].pos, table[i].end, n)
               taken == TakeOwner(table, i, w)
    <3>1. i \in DOMAIN table /\ n \in Nat
      BY TransferAssumption DEF FirstPending
    <3>2. TableFlushed(taken, d)
      BY <1>4, <3>1, TakeFlushed
    <3>3. table[i] \in Segments
      BY <1>4, <3>1 DEF TableFlushed, FlushedSegments
    <3>4. table[i].pos \in Offsets /\ table[i].end \in Offsets
      BY <3>3 DEF Segments
    <3>5. reqEnd \in Offsets
      BY <3>1, <3>4, SizesAssumption DEF RequestEnd, Smaller, Offsets
    <3>6. segs' = IF resumed THEN SetRequestEnd(taken, i, w, reqEnd) ELSE taken
      BY <2>2
    <3> HIDE DEF taken, reqEnd
    <3>7. QED
      BY <3>2, <3>5, <3>6, SetRequestEndFlushed
  <2>3. QED
    BY <1>4, <2>1, <2>2 DEF FirstWorker
<1>5. StorageSound' /\ ClaimsSound'
  <2>1. CASE StartFresh
    <3>1. /\ saved = << >> /\ disk' = {} /\ synced' = {} /\ failed' = failed
          /\ FirstWorker(FreshTable, FALSE)
      BY <2>1 DEF StartFresh
    <3>2. TableFlushed(FreshTable, {})
      <4>1. 0 \in Offsets /\ Total \in Offsets
        BY ZeroOffset
      <4>2. NewSegment(0, 0, Total) \in FlushedSegments({})
        BY <4>1, NewSegmentFlushed
      <4>3. QED
        BY <4>2 DEF TableFlushed, FreshTable
    <3>3. TableFlushed(segs', {})
      BY <1>4, <3>1, <3>2
    <3>4. Claimed(<< >>) = {}
      BY DEF Claimed
    <3>5. QED
      BY <1>1, <1>2, <3>1, <3>3, <3>4 DEF StorageSound, ClaimsSound, savedVars
  <2>2. CASE Resume
    <3>1. saved # << >> /\ FirstWorker(FromStates(saved), TRUE) /\ UNCHANGED storageVars
      BY <2>2 DEF Resume
    <3>2. Claimed(saved) \subseteq disk
      BY <1>2 DEF ClaimsSound
    <3>3. TableFlushed(FromStates(saved), disk)
      BY <1>3, <3>1, <3>2, FromStatesFlushed
    <3>4. TableFlushed(segs', disk)
      BY <1>4, <3>1, <3>3
    <3>5. QED
      BY <1>1, <1>2, <3>1, <3>4 DEF StorageSound, ClaimsSound, savedVars, storageVars
  <2>3. QED
    BY <2>1, <2>2
<1>6. ~Closing'
  BY <1>1, <1>2 DEF Closing, writerVars
<1>7. EndSound' /\ QuietBetweenRuns'
  BY <1>1, <1>6 DEF EndSound, QuietBetweenRuns
<1>8. QED
  BY <1>5, <1>7 DEF DurabilityInvariant

\* The supervisor closes the writer right away only when the file is whole.
LEMMA SupervisorDurable ==
  ASSUME TypeInvariant, DurabilityInvariant,
         \/ \E w \in Workers : Join(w)
         \/ SeeAllDone \/ SeeWriteError \/ Pause \/ EndTransfer \/ EndClose \/ AskCheckpoint
  PROVE  DurabilityInvariant'
<1>1. CASE (\E w \in Workers : Join(w)) \/ SeeAllDone \/ SeeWriteError \/ Pause
  <2>1. /\ phase = "run" /\ phase' = phase /\ segs' = segs /\ chan' = chan
        /\ flushing' = flushing /\ UNCHANGED << storageVars, savedVars >>
    BY <1>1 DEF Join, SeeAllDone, SeeWriteError, Pause, writerVars
  <2>2. TableFlushed(segs', disk)
    BY <2>1 DEF DurabilityInvariant, StorageSound
  <2>3. QED
    BY <2>1, <2>2, RunningStep
<1>2. CASE EndTransfer
  <2>1. /\ phase = "run" /\ NoneRunning /\ phase' = IF Whole THEN "close" ELSE "flush"
        /\ chan' = Append(chan, Control(IF Whole THEN "close" ELSE "end"))
        /\ UNCHANGED << segs, wk, writerVars, storageVars, savedVars, fatal >>
    BY <1>2 DEF EndTransfer
  <2>2. StorageSound' /\ ClaimsSound'
    BY <2>1 DEF DurabilityInvariant, StorageSound, ClaimsSound, storageVars, savedVars
  <2>3. CASE Whole
    <3>1. phase' # "run" /\ Whole' /\ NoneRunning'
      BY <2>1, <2>3 DEF Whole, NoneRunning
    <3>2. phase' = "close"
      BY <2>1, <2>3
    <3>3. QED
      BY <2>2, <3>1, <3>2 DEF DurabilityInvariant, EndSound, QuietBetweenRuns
  <2>4. CASE ~Whole
    <3>1. phase' = "flush" /\ chan' = Append(chan, Control("end"))
      BY <2>1, <2>4
    <3>2. chan \in Seq(Messages)
      BY DEF TypeInvariant, TypeOK
    <3>3. \A k \in DOMAIN chan' : chan'[k].kind = "close" => k \in DOMAIN chan /\ chan'[k] = chan[k]
      <4>1. Control("end").kind = "end"
        BY DEF Control
      <4> HIDE DEF Control
      <4>2. QED
        BY <3>1, <3>2, <4>1
    <3>4. Closing' => Closing
      BY <2>1, <3>1, <3>3 DEF Closing, writerVars
    <3>5. Closing => final # << >>
      BY <2>1 DEF DurabilityInvariant, EndSound
    <3>6. EndSound'
      BY <2>1, <3>1, <3>4, <3>5 DEF EndSound, savedVars
    <3>7. QED
      BY <2>2, <3>1, <3>6 DEF DurabilityInvariant, QuietBetweenRuns
  <2>5. QED
    BY <2>3, <2>4
<1>3. CASE EndClose
  <2>1. /\ phase = "flushed" /\ phase' = "close"
        /\ UNCHANGED << segs, wk, writerVars, storageVars, savedVars >>
    BY <1>3 DEF EndClose
  <2>2. final' # << >>
    BY <2>1 DEF DurabilityInvariant, EndSound, savedVars
  <2>3. StorageSound' /\ ClaimsSound'
    BY <2>1 DEF DurabilityInvariant, StorageSound, ClaimsSound, storageVars, savedVars
  <2>4. QED
    BY <2>1, <2>2, <2>3 DEF DurabilityInvariant, EndSound, QuietBetweenRuns
<1>4. CASE AskCheckpoint
  <2>1. /\ phase # "off" /\ phase' = phase /\ ckpt'.at = "asked"
        /\ chan' = Append(chan, Control("checkpoint"))
        /\ UNCHANGED << segs, wk, writerVars, storageVars, final, saved, fatal >>
    BY <1>4 DEF AskCheckpoint, jobVars, NoCheckpoint
  <2>2. StorageSound' /\ ClaimsSound'
    BY <2>1 DEF DurabilityInvariant, StorageSound, ClaimsSound, storageVars
  <2>3. chan \in Seq(Messages)
    BY DEF TypeInvariant, TypeOK
  <2>4. \A k \in DOMAIN chan' : chan'[k].kind = "close" => k \in DOMAIN chan /\ chan'[k] = chan[k]
    <3>1. Control("checkpoint").kind = "checkpoint"
      BY DEF Control
    <3> HIDE DEF Control
    <3>2. QED
      BY <2>1, <2>3, <3>1
  <2>5. Closing' => Closing
    BY <2>1, <2>4 DEF Closing, writerVars
  <2>6. (Whole /\ NoneRunning) => (Whole' /\ NoneRunning')
    BY <2>1 DEF Whole, NoneRunning
  <2>7. EndSound'
    BY <2>1, <2>5, <2>6 DEF DurabilityInvariant, EndSound
  <2>8. QED
    BY <2>1, <2>2, <2>7 DEF DurabilityInvariant, QuietBetweenRuns
<1>5. QED
  BY <1>1, <1>2, <1>3, <1>4

\* A write that cannot fail leaves the table sound and a whole file whole.
LEMMA WriteSound ==
  ASSUME ~WriteMayFail, TypeInvariant, StorageSound, NEW b \in Buffers, Write(b)
  PROVE  /\ ~failed' /\ TableFlushed(segs', disk') /\ disk \subseteq disk'
         /\ AllDone(segs) => AllDone(segs')
<1>1. b.from \in Offsets /\ b.to \in Offsets /\ segs \in Seq(Segments)
  BY DEF Buffers, TypeInvariant, TypeOK
<1>2. /\ disk' = disk \cup (b.from .. b.to - 1) /\ failed' = failed
      /\ segs' = OnFlushed(segs, b.seg, b.from, b.to)
  BY DEF Write, Span
<1>3. TableFlushed(segs', disk')
  BY <1>1, <1>2, OnFlushedFlushed DEF StorageSound
<1>4. AllDone(segs) => AllDone(segs')
  BY <1>1, <1>2, OnFlushedKeepsDone
<1>5. QED
  BY <1>2, <1>3, <1>4 DEF StorageSound

\* A step of the writer that answers nothing keeps the invariant.
LEMMA WriterKeeps ==
  ASSUME DurabilityInvariant, phase # "off",
         ~failed', TableFlushed(segs', disk'), disk \subseteq disk',
         AllDone(segs) => AllDone(segs'),
         Closing' => Closing,
         UNCHANGED << wk, synced, savedVars, jobVars >>
  PROVE  DurabilityInvariant'
<1>1. StorageSound' /\ ClaimsSound'
  BY DEF DurabilityInvariant, StorageSound, ClaimsSound, savedVars
<1>2. (phase # "run" /\ Whole /\ NoneRunning) => (phase' # "run" /\ Whole' /\ NoneRunning')
  BY DEF Whole, NoneRunning, jobVars
<1>3. EndSound'
  BY <1>2 DEF DurabilityInvariant, EndSound, savedVars, jobVars
<1>4. QuietBetweenRuns'
  BY DEF QuietBetweenRuns, jobVars
<1>5. QED
  BY <1>1, <1>3, <1>4 DEF DurabilityInvariant

\* Taking messages and writing buffers keep the invariant.
LEMMA WriterDurable ==
  ASSUME ~WriteMayFail, TypeInvariant, DurabilityInvariant,
         \/ TakeChunk \/ TakeControl \/ IdleFlush \/ FinishPressure
         \/ \E w \in Workers : FlushBuffer(w)
  PROVE  DurabilityInvariant'
<1>1. phase # "off"
  BY DEF DurabilityInvariant, QuietBetweenRuns, TakeChunk, TakeControl, IdleFlush,
         FinishPressure, FlushBuffer
<1>2. UNCHANGED << wk, synced, savedVars, jobVars >>
  BY DEF TakeChunk, TakeControl, IdleFlush, FinishPressure, FlushBuffer, storageVars
<1>3. StorageSound /\ chan \in Seq(Messages) /\ buffer \in [Workers -> Buffers]
  BY DEF DurabilityInvariant, TypeInvariant, TypeOK
<1>4. /\ ~failed' /\ TableFlushed(segs', disk') /\ disk \subseteq disk'
      /\ AllDone(segs) => AllDone(segs')
  <2>1. CASE UNCHANGED << segs, disk, failed >>
    BY <1>3, <2>1 DEF StorageSound
  <2>2. ASSUME NEW b \in Buffers, Write(b)
        PROVE  /\ ~failed' /\ TableFlushed(segs', disk') /\ disk \subseteq disk'
               /\ AllDone(segs) => AllDone(segs')
    BY <1>3, <2>2, WriteSound
  <2>3. CASE TakeChunk
    <3> DEFINE m == Head(chan)
               b == buffer[m.worker]
               merged == [b EXCEPT !.to = m.to]
    <3>1. m \in Messages /\ m.kind = "chunk"
      BY <1>3, <2>3 DEF TakeChunk
    <3>2. m \in [kind : {"chunk"}, worker : Workers, seg : Nat, from : Offsets, to : Offsets]
      BY <3>1 DEF Messages, Flushes
    <3>3. m.worker \in Workers /\ m.to \in Offsets
      BY <3>2
    <3> HIDE DEF m
    <3>4. b \in Buffers
      BY <1>3, <3>3
    <3> HIDE DEF b
    <3>5. merged \in Buffers
      BY <3>3, <3>4 DEF Buffers
    <3> HIDE DEF merged
    <3>6. UNCHANGED << segs, disk, failed >> \/ Write(b) \/ Write(merged)
      BY <2>3 DEF TakeChunk, m, b, merged
    <3>7. QED
      BY <2>1, <2>2, <3>4, <3>5, <3>6
  <2>4. ASSUME NEW w \in Workers, FlushBuffer(w)
        PROVE  /\ ~failed' /\ TableFlushed(segs', disk') /\ disk \subseteq disk'
               /\ AllDone(segs) => AllDone(segs')
    <3>1. buffer[w] \in Buffers
      BY <1>3
    <3>2. UNCHANGED << segs, disk, failed >> \/ Write(buffer[w])
      BY <2>4 DEF FlushBuffer
    <3>3. QED
      BY <2>1, <2>2, <3>1, <3>2
  <2>5. QED
    BY <2>1, <2>3, <2>4 DEF TakeControl, IdleFlush, FinishPressure, storageVars
<1>5. Closing' => Closing
  <2>1. CASE TakeChunk \/ TakeControl
    <3>1. chan # << >> /\ chan' = Tail(chan)
      BY <2>1 DEF TakeChunk, TakeControl
    <3>2. /\ 1 \in DOMAIN chan /\ Head(chan) = chan[1]
          /\ \A k \in DOMAIN chan' : k + 1 \in DOMAIN chan /\ chan'[k] = chan[k + 1]
      BY <1>3, <3>1
    <3>3. flushing' \in {"no", "pressure"} \/ flushing' = chan[1].kind
      BY <2>1, <3>2 DEF TakeChunk, TakeControl
    <3>4. flushing' = "close" => chan[1].kind = "close" \/ flushing = "close"
      BY <3>3
    <3>5. phase' = phase
      BY <1>2 DEF jobVars
    <3>6. QED
      BY <3>2, <3>4, <3>5 DEF Closing
  <2>2. CASE IdleFlush \/ FinishPressure \/ \E w \in Workers : FlushBuffer(w)
    BY <1>2, <2>2 DEF IdleFlush, FinishPressure, FlushBuffer, Flushed, Closing, jobVars
  <2>3. QED
    BY <2>1, <2>2
<1>6. QED
  BY <1>1, <1>2, <1>4, <1>5, WriterKeeps

\* What a flush answers was written before the sync and captured after it.
LEMMA AnswerDurable ==
  ASSUME ~WriteMayFail, DurabilityInvariant, FinishCheckpoint \/ FinishEnd \/ FinishClose
  PROVE  DurabilityInvariant'
<1>1. /\ ~failed' /\ synced' = disk /\ disk' = disk /\ segs' = segs /\ wk' = wk
      /\ saved' = saved /\ fatal' = fatal /\ buffer' = buffer /\ flushing' = "no"
  BY DEF FinishCheckpoint, FinishEnd, FinishClose, SyncSucceeds, SyncFails, Flushed,
         DurabilityInvariant, StorageSound, jobVars
<1>2. StorageSound'
  BY <1>1 DEF DurabilityInvariant, StorageSound
<1>3. phase # "off"
  BY DEF DurabilityInvariant, QuietBetweenRuns, FinishCheckpoint, FinishEnd, FinishClose
<1>4. Claimed(DurableStates(segs)) \subseteq disk /\ DurableStates(segs) # << >>
  BY DurableStatesClaimed DEF DurabilityInvariant, StorageSound
<1>5. /\ Claimed(saved) \subseteq disk /\ Claimed(final) \subseteq disk
      /\ ckpt.at = "answered" => Claimed(ckpt.states) \subseteq disk
  BY DEF DurabilityInvariant, StorageSound, ClaimsSound
<1>6. Whole' = Whole /\ NoneRunning' = NoneRunning
  BY <1>1 DEF Whole, NoneRunning
<1>7. CASE FinishCheckpoint
  <2>1. /\ final' = final /\ phase' = phase /\ chan' = chan
        /\ ckpt' = [at |-> "answered", states |-> DurableStates(segs)]
    BY <1>7 DEF FinishCheckpoint, SyncFails, DurabilityInvariant, StorageSound, jobVars
  <2>2. ClaimsSound'
    BY <1>1, <1>4, <1>5, <2>1 DEF ClaimsSound
  <2>3. Closing' => Closing
    BY <1>1, <2>1 DEF Closing
  <2>4. EndSound'
    BY <1>6, <2>1, <2>3 DEF DurabilityInvariant, EndSound
  <2>5. QED
    BY <1>2, <1>3, <2>1, <2>2, <2>4 DEF DurabilityInvariant, QuietBetweenRuns
<1>8. CASE FinishEnd
  <2>1. final' = DurableStates(segs) /\ phase' = "flushed" /\ ckpt' = ckpt
    BY <1>8 DEF FinishEnd, SyncFails, DurabilityInvariant, StorageSound
  <2>2. ClaimsSound'
    BY <1>1, <1>4, <1>5, <2>1 DEF ClaimsSound
  <2>3. EndSound'
    BY <1>4, <2>1 DEF EndSound
  <2>4. QED
    BY <1>2, <2>1, <2>2, <2>3 DEF DurabilityInvariant, QuietBetweenRuns
<1>9. CASE FinishClose
  <2>1. /\ flushing = "close" /\ final' = final /\ ckpt' \in {ckpt, NoCheckpoint} /\ chan' = << >>
        /\ phase' = IF Whole THEN "complete" ELSE "ended"
    BY <1>9 DEF FinishClose, SyncFails, DurabilityInvariant, StorageSound
  <2>2. ClaimsSound'
    BY <1>1, <1>5, <2>1 DEF ClaimsSound, NoCheckpoint
  <2>3. Closing /\ ~Closing'
    BY <1>1, <2>1 DEF Closing
  <2>4. Whole \/ final # << >>
    BY <2>3 DEF DurabilityInvariant, EndSound
  <2>5. EndSound'
    BY <2>1, <2>3, <2>4 DEF EndSound
  <2>6. phase' # "off"
    BY <2>1
  <2>7. QED
    BY <1>2, <2>2, <2>5, <2>6 DEF DurabilityInvariant, QuietBetweenRuns
<1>10. QED
  BY <1>7, <1>8, <1>9

\* A job that has ended answers a checkpoint with its final state.
LEMMA AskEndedDurable ==
  ASSUME DurabilityInvariant, AskEnded
  PROVE  DurabilityInvariant'
<1>1. /\ phase = "ended" /\ ckpt' = [at |-> "answered", states |-> final]
      /\ UNCHANGED << segs, wk, chan, writerVars, storageVars, final, saved, jobVars >>
  BY DEF AskEnded
<1>2. StorageSound' /\ ClaimsSound'
  BY <1>1 DEF DurabilityInvariant, StorageSound, ClaimsSound, storageVars
<1>3. Closing' = Closing /\ Whole' = Whole /\ NoneRunning' = NoneRunning /\ phase' = phase
  BY <1>1 DEF Closing, Whole, NoneRunning, writerVars, jobVars
<1>4. EndSound' /\ QuietBetweenRuns'
  BY <1>1, <1>3 DEF DurabilityInvariant, EndSound, QuietBetweenRuns
<1>5. QED
  BY <1>2, <1>4 DEF DurabilityInvariant

\* Storing a checkpoint's answer, however late, keeps the invariant.
LEMMA SaveCheckpointDurable ==
  ASSUME DurabilityInvariant, SaveCheckpoint
  PROVE  DurabilityInvariant'
<1>1. /\ ckpt.at = "answered" /\ saved' = ckpt.states /\ ckpt'.at = "no"
      /\ UNCHANGED << segs, wk, chan, writerVars, storageVars, final, jobVars >>
  BY DEF SaveCheckpoint, NoCheckpoint
<1>2. StorageSound' /\ ClaimsSound'
  BY <1>1 DEF DurabilityInvariant, StorageSound, ClaimsSound, storageVars
<1>3. Closing' = Closing /\ Whole' = Whole /\ NoneRunning' = NoneRunning
  BY <1>1 DEF Closing, Whole, NoneRunning, writerVars, jobVars
<1>4. EndSound'
  BY <1>1, <1>3 DEF DurabilityInvariant, EndSound, jobVars
<1>5. QuietBetweenRuns'
  BY <1>1, <1>3 DEF DurabilityInvariant, QuietBetweenRuns, jobVars, writerVars
<1>6. QED
  BY <1>2, <1>4, <1>5 DEF DurabilityInvariant

\* A run leaves nothing behind but its files, its checkpoint and its saved state.
LEMMA EndRunDurable ==
  ASSUME EndRun, synced' \subseteq disk', Claimed(saved') \subseteq synced',
         ckpt'.at = "answered" => Claimed(ckpt'.states) \subseteq synced',
         saved' = << >> => ckpt'.at # "answered"
  PROVE  DurabilityInvariant'
<1>1. /\ phase' = "off" /\ segs' = FreshTable /\ wk' = [w \in Workers |-> Off] /\ chan' = << >>
      /\ buffer' = NoBuffers
      /\ flushing' = "no" /\ failed' = FALSE /\ final' = << >>
  BY DEF EndRun
<1>2. TableFlushed(FreshTable, disk')
  <2>1. NewSegment(0, 0, Total) \in FlushedSegments(disk')
    BY ZeroOffset, NewSegmentFlushed
  <2>2. QED
    BY <2>1 DEF TableFlushed, FreshTable
<1>3. Claimed(<< >>) = {}
  BY DEF Claimed
<1>4. StorageSound' /\ ClaimsSound'
  BY <1>1, <1>2, <1>3 DEF StorageSound, ClaimsSound
<1>5. EndSound'
  BY <1>1 DEF EndSound, Closing
<1>6. QuietBetweenRuns'
  BY <1>1 DEF QuietBetweenRuns, NoneRunning, Off, NoBuffers
<1>7. QED
  BY <1>4, <1>5, <1>6 DEF DurabilityInvariant

\* The outcome stores what end_job's flush returned; a crash keeps every synced byte.
LEMMA OutcomeDurable ==
  ASSUME DurabilityInvariant, SaveOutcome \/ Crash
  PROVE  DurabilityInvariant'
<1>1. StorageSound /\ ClaimsSound /\ EndSound
  BY DEF DurabilityInvariant
<1>2. CASE SaveOutcome
  <2>1. EndRun /\ UNCHANGED << disk, synced, ckpt >> /\ final # << >> /\ saved' = final
    BY <1>1, <1>2 DEF SaveOutcome, EndSound
  <2>2. QED
    BY <1>1, <2>1, EndRunDurable DEF StorageSound, ClaimsSound
<1>3. CASE Crash
  <2>1. EndRun /\ UNCHANGED saved /\ ckpt'.at = "no" /\ synced' = disk' /\ synced \subseteq disk'
    BY <1>3 DEF Crash, NoCheckpoint
  <2>2. QED
    BY <1>1, <2>1, EndRunDurable DEF ClaimsSound
<1>4. QED
  BY <1>2, <1>3

\* Every step keeps the invariant.
LEMMA DurabilityStep ==
  ASSUME ~WriteMayFail, ~PartFileMayVanish, TypeInvariant, DurabilityInvariant, [Next]_vars
  PROVE  DurabilityInvariant'
<1>1. ASSUME NEW w \in Workers, WorkerStep(w)
      PROVE  DurabilityInvariant'
  BY <1>1, WorkerDurable
<1>2. CASE WriterStep
  BY <1>2, WriterDurable, AnswerDurable DEF WriterStep
<1>3. CASE SupervisorStep
  BY <1>3, SupervisorDurable DEF SupervisorStep
<1>4. CASE ManagerStep
  BY <1>4, StartDurable, SupervisorDurable, AskEndedDurable, SaveCheckpointDurable, OutcomeDurable
  DEF ManagerStep
<1>5. CASE Crash
  BY <1>5, OutcomeDurable
<1>6. CASE UNCHANGED vars
  BY <1>6 DEF vars, writerVars, storageVars, savedVars, jobVars, DurabilityInvariant,
              StorageSound, ClaimsSound, EndSound, Closing, Whole, NoneRunning, QuietBetweenRuns
<1>7. QED
  BY <1>1, <1>2, <1>3, <1>4, <1>5, <1>6 DEF Next, Finished

\* The initial state satisfies the invariant.
LEMMA InitDurable == Init => DurabilityInvariant
<1> SUFFICES ASSUME Init PROVE DurabilityInvariant
  OBVIOUS
<1>1. TableFlushed(FreshTable, {})
  <2>1. NewSegment(0, 0, Total) \in FlushedSegments({})
    BY ZeroOffset, NewSegmentFlushed
  <2>2. QED
    BY <2>1 DEF TableFlushed, FreshTable
<1>2. Claimed(<< >>) = {}
  BY DEF Claimed
<1>3. StorageSound /\ ClaimsSound
  BY <1>1, <1>2 DEF Init, StorageSound, ClaimsSound, NoCheckpoint
<1>4. EndSound /\ QuietBetweenRuns
  BY DEF Init, EndSound, Closing, QuietBetweenRuns, NoneRunning, Off, NoCheckpoint, NoBuffers
<1>5. QED
  BY <1>3, <1>4 DEF DurabilityInvariant

\* The invariant holds in every reachable state of a transfer whose writes do not fail
\* and whose part file stays.
LEMMA DurabilityInvariantHolds ==
  ASSUME ~WriteMayFail, ~PartFileMayVanish
  PROVE  Spec => []DurabilityInvariant
<1>1. Init => TypeInvariant /\ NobodyBetweenRuns /\ DurabilityInvariant
  BY InitType, InitDurable DEF Init, NobodyBetweenRuns, Off
<1>2. TypeInvariant /\ NobodyBetweenRuns /\ DurabilityInvariant /\ [Next]_vars
        => TypeInvariant' /\ NobodyBetweenRuns' /\ DurabilityInvariant'
  BY TypeStep, NobodyBetweenRunsStep, DurabilityStep
<1>3. QED
  BY <1>1, <1>2, PTL DEF Spec

\* writer.rs, manager::checkpoint: a persisted state never claims bytes that are not durably on
\* disk, for any number of workers, runs, checkpoints and crashes, if no write or sync
\* fails and no part file vanishes.
THEOREM SavedStateDurable ==
  ASSUME ~WriteMayFail, ~PartFileMayVanish
  PROVE  Spec => []SavedIsDurable
<1>1. DurabilityInvariant => SavedIsDurable
  BY DEF DurabilityInvariant, ClaimsSound, SavedIsDurable
<1>2. QED
  BY <1>1, DurabilityInvariantHolds, PTL

\* What the table counts as written has been given to the operating system, in every state.
THEOREM WrittenOnDisk ==
  ASSUME ~WriteMayFail, ~PartFileMayVanish
  PROVE  Spec => []WrittenIsOnDisk
<1>1. DurabilityInvariant => WrittenIsOnDisk
  BY DurableStatesClaimed DEF DurabilityInvariant, StorageSound, WrittenIsOnDisk
<1>2. QED
  BY <1>1, DurabilityInvariantHolds, PTL

---------------------------------------------------------------------------
(***************************************************************************)
(* No received byte is lost on its way from a worker over the channel and  *)
(* a buffer to the disk, so a download that is reported complete is whole  *)
(* and synced, and the whole engine is a DurableDownload to whoever keeps  *)
(* the resume state; as long as no write fails and no part file vanishes.  *)
(*                                                                         *)
(* The last message of the channel is the hard part: FinishClose drops     *)
(* what is left in it.  That no chunk can be left is the order in which a  *)
(* run ends (EndInvariant): the workers are joined before the writer is    *)
(* asked to flush or close, and only checkpoints are asked for after that. *)
(***************************************************************************)
\* A request that ends the writer's work belongs to one stage of the job, and only
\* checkpoints come after it.
LastRequest(kind, stage) ==
  /\ \A k \in DOMAIN chan : chan[k].kind = kind =>
       /\ phase = stage
       /\ \A j \in DOMAIN chan : j > k => chan[j].kind = "checkpoint"
  /\ flushing = kind =>
       /\ phase = stage
       /\ \A j \in DOMAIN chan : chan[j].kind = "checkpoint"

JoinedFirst == phase # "run" => NoneRunning

EndInvariant == LastRequest("end", "flush") /\ LastRequest("close", "close") /\ JoinedFirst

-----------------------------------------------------------------------------
(***************************************************************************)
(* The order in which a run ends.                                          *)
(***************************************************************************)
\* The stages at which the job asks its writer to flush for good or to close.
Endings == {<< "end", "flush" >>, << "close", "close" >>}

\* The two parts of the order at the end of a run.
LEMMA EndInvariantParts ==
  EndInvariant <=> JoinedFirst /\ \A e \in Endings : LastRequest(e[1], e[2])
BY DEF EndInvariant, Endings

\* A step that leaves the stage alone and appends at most a message that is not the request, a
\* chunk only while the job runs.
LEMMA RequestKept ==
  ASSUME TypeInvariant, NEW e \in Endings, LastRequest(e[1], e[2]),
         phase' = phase, flushing' = flushing,
         \/ chan' = chan
         \/ \E m : /\ chan' = Append(chan, m)
                   /\ m.kind = "checkpoint" \/ (m.kind = "chunk" /\ phase = "run")
  PROVE  LastRequest(e[1], e[2])'
<1> DEFINE kind == e[1]
           stage == e[2]
<1>1. chan \in Seq(Messages) /\ kind \in {"end", "close"} /\ stage # "run"
  BY DEF TypeInvariant, TypeOK, Endings
<1>2. CASE chan' = chan
  BY <1>2 DEF LastRequest
<1>3. ASSUME NEW m, chan' = Append(chan, m),
             m.kind = "checkpoint" \/ (m.kind = "chunk" /\ phase = "run")
      PROVE  LastRequest(e[1], e[2])'
  <2>1. /\ DOMAIN chan' = DOMAIN chan \cup {Len(chan) + 1} /\ chan'[Len(chan) + 1] = m
        /\ \A k \in DOMAIN chan : chan'[k] = chan[k] /\ k <= Len(chan) /\ k \in Nat
        /\ Len(chan) \in Nat
    BY <1>1, <1>3, AppendedMessages
  <2> HIDE DEF kind, stage
  <2>2. LastRequest(kind, stage)
    BY DEF kind, stage
  <2>3. ASSUME NEW k \in DOMAIN chan', chan'[k].kind = kind
        PROVE  /\ phase' = stage
               /\ \A j \in DOMAIN chan' : j > k => chan'[j].kind = "checkpoint"
    <3>1. k \in DOMAIN chan /\ chan[k].kind = kind
      BY <1>1, <1>3, <2>1, <2>3
    <3>2. phase = stage /\ \A j \in DOMAIN chan : j > k => chan[j].kind = "checkpoint"
      BY <2>2, <3>1 DEF LastRequest
    <3>3. m.kind = "checkpoint"
      BY <1>1, <1>3, <3>2
    <3>4. QED
      BY <2>1, <3>2, <3>3
  <2>4. ASSUME flushing' = kind
        PROVE  phase' = stage /\ \A j \in DOMAIN chan' : chan'[j].kind = "checkpoint"
    <3>1. phase = stage /\ \A j \in DOMAIN chan : chan[j].kind = "checkpoint"
      BY <2>2, <2>4 DEF LastRequest
    <3>2. m.kind = "checkpoint"
      BY <1>1, <1>3, <3>1
    <3>3. QED
      BY <2>1, <3>1, <3>2
  <2>5. LastRequest(kind, stage)'
    BY <2>3, <2>4 DEF LastRequest
  <2>6. QED
    BY <2>5 DEF kind, stage
<1>4. QED
  BY <1>2, <1>3

\* At any other stage nothing asks the writer to end.
LEMMA NoRequest ==
  ASSUME EndInvariant, phase \notin {"flush", "close"}
  PROVE  /\ \A k \in DOMAIN chan : chan[k].kind \notin {"end", "close"}
         /\ flushing \notin {"end", "close"}
BY DEF EndInvariant, LastRequest

\* The request that begins a stage is the last message.
LEMMA RequestAppended ==
  ASSUME TypeInvariant, EndInvariant, phase \notin {"flush", "close"}, NoneRunning,
         NEW e \in Endings, phase' = e[2], chan' = Append(chan, Control(e[1])),
         flushing' = flushing, wk' = wk
  PROVE  EndInvariant'
<1> DEFINE m == Control(e[1])
<1>1. m.kind = e[1] /\ e \in {<< "end", "flush" >>, << "close", "close" >>}
  BY DEF Control, Endings
<1>2. chan' = Append(chan, m) /\ chan \in Seq(Messages)
  BY DEF TypeInvariant, TypeOK
<1> HIDE DEF m
<1>3. /\ DOMAIN chan' = DOMAIN chan \cup {Len(chan) + 1} /\ chan'[Len(chan) + 1] = m
      /\ \A k \in DOMAIN chan : chan'[k] = chan[k] /\ k <= Len(chan) /\ k \in Nat
      /\ Len(chan) \in Nat
  BY <1>2, AppendedMessages
<1>4. /\ \A k \in DOMAIN chan : chan[k].kind \notin {"end", "close"}
      /\ flushing \notin {"end", "close"}
  BY NoRequest
<1>5. \A k \in DOMAIN chan' : chan'[k].kind \in {"end", "close"} => k = Len(chan) + 1
  BY <1>3, <1>4
<1>6. ASSUME NEW f \in Endings
      PROVE  LastRequest(f[1], f[2])'
  <2>1. f \in {<< "end", "flush" >>, << "close", "close" >>}
    BY DEF Endings
  <2>2. \A k \in DOMAIN chan' : chan'[k].kind = f[1] =>
          /\ phase' = f[2]
          /\ \A j \in DOMAIN chan' : j > k => chan'[j].kind = "checkpoint"
    BY <1>1, <1>3, <1>5, <2>1
  <2>3. flushing' # f[1]
    BY <1>4, <2>1
  <2>4. QED
    BY <2>2, <2>3 DEF LastRequest
<1>7. JoinedFirst'
  BY DEF JoinedFirst, NoneRunning
<1>8. EndInvariant'
  <2>1. LastRequest("end", "flush")' /\ LastRequest("close", "close")'
    BY <1>6 DEF Endings
  <2>2. QED
    BY <1>7, <2>1 DEF EndInvariant
<1>9. QED
  BY <1>8

\* Only the workers of a running job step.
LEMMA WorkersRun ==
  ASSUME JoinedFirst, NEW w \in Workers, WorkerStep(w)
  PROVE  phase = "run" /\ phase' = "run"
<1>1. phase = "run" \/ wk[w].pc # "off"
  BY DEF WorkerStep, Spawn, Acquire, LeaveIdle, Open, Receive, Submit, EndOfRange, Reopen, Fail,
         StopExit, Assigned
<1>2. phase' = phase
  BY DEF WorkerStep, Spawn, Acquire, LeaveIdle, Open, Receive, Submit, EndOfRange, Reopen, Fail,
         StopExit, jobVars
<1>3. QED
  BY <1>1, <1>2 DEF JoinedFirst, NoneRunning

\* A step that leaves the stage and the writer alone.
LEMMA EndKept ==
  ASSUME TypeInvariant, EndInvariant, phase' = phase, flushing' = flushing,
         phase = "run" \/ wk' = wk,
         \/ chan' = chan
         \/ \E m : /\ chan' = Append(chan, m)
                   /\ m.kind = "checkpoint" \/ (m.kind = "chunk" /\ phase = "run")
  PROVE  EndInvariant'
<1>1. \A e \in Endings : LastRequest(e[1], e[2])
  BY EndInvariantParts
<1>2. ASSUME NEW e \in Endings
      PROVE  LastRequest(e[1], e[2])'
  BY <1>1, RequestKept
<1>3. LastRequest("end", "flush")' /\ LastRequest("close", "close")'
  BY <1>2 DEF Endings
<1>4. JoinedFirst'
  BY DEF EndInvariant, JoinedFirst, NoneRunning
<1>5. QED
  BY <1>3, <1>4 DEF EndInvariant

\* The writer takes the messages in their order.
LEMMA WriterEnds ==
  ASSUME TypeInvariant, EndInvariant, WriterStep
  PROVE  EndInvariant'
<1>1. chan \in Seq(Messages) /\ wk' = wk
  BY DEF TypeInvariant, TypeOK, WriterStep, TakeChunk, TakeControl, IdleFlush, FlushBuffer,
         FinishPressure, FinishCheckpoint, FinishEnd, FinishClose
<1>2. CASE TakeChunk \/ TakeControl
  <2>1. /\ chan # << >> /\ chan' = Tail(chan) /\ phase' = phase
        /\ flushing' \in {"no", "pressure"} \/ flushing' = Head(chan).kind
    BY <1>2 DEF TakeChunk, TakeControl, jobVars
  <2>2. /\ Head(chan) = chan[1] /\ 1 \in DOMAIN chan
        /\ \A k \in DOMAIN chan' : k + 1 \in DOMAIN chan /\ chan'[k] = chan[k + 1] /\ k \in Nat
    <3>1. chan' = Tail(chan)
      BY <2>1
    <3>2. QED
      BY <1>1, <2>1, <3>1, RemainingMessages
  <2>3. ASSUME NEW kind \in {"end", "close"}, NEW stage, LastRequest(kind, stage)
        PROVE  LastRequest(kind, stage)'
    <3>1. ASSUME NEW k \in DOMAIN chan', chan'[k].kind = kind
          PROVE  /\ phase' = stage
                 /\ \A j \in DOMAIN chan' : j > k => chan'[j].kind = "checkpoint"
      <4>1. /\ phase = stage
            /\ \A j \in DOMAIN chan : j > k + 1 => chan[j].kind = "checkpoint"
        BY <2>2, <2>3, <3>1 DEF LastRequest
      <4>2. QED
        BY <2>1, <2>2, <4>1
    <3>2. ASSUME flushing' = kind
          PROVE  phase' = stage /\ \A j \in DOMAIN chan' : chan'[j].kind = "checkpoint"
      <4>1. chan[1].kind = kind
        BY <2>1, <2>2, <3>2
      <4>2. phase = stage /\ \A j \in DOMAIN chan : j > 1 => chan[j].kind = "checkpoint"
        BY <2>2, <2>3, <4>1 DEF LastRequest
      <4>3. ASSUME NEW j \in DOMAIN chan'
            PROVE  chan'[j].kind = "checkpoint"
        <5>1. j + 1 \in DOMAIN chan /\ chan'[j] = chan[j + 1] /\ j \in Nat /\ j \in DOMAIN Tail(chan)
          BY <2>1, <2>2
        <5>2. j >= 1
          <6>1. Tail(chan) \in Seq(Messages)
            BY <1>1, <2>1
          <6>2. QED
            BY <5>1, <6>1
        <5>3. QED
          BY <4>2, <5>1, <5>2
      <4>4. QED
        BY <2>1, <4>2, <4>3
    <3>3. QED
      BY <3>1, <3>2 DEF LastRequest
  <2>4. JoinedFirst'
    BY <1>1, <2>1 DEF EndInvariant, JoinedFirst, NoneRunning
  <2>5. QED
    BY <2>3, <2>4 DEF EndInvariant
<1>3. CASE IdleFlush \/ (\E w \in Workers : FlushBuffer(w)) \/ FinishPressure \/ FinishCheckpoint
  <2>1. phase' = phase /\ chan' = chan /\ flushing' \in {flushing, "no", "pressure"}
    BY <1>3 DEF IdleFlush, FlushBuffer, FinishPressure, FinishCheckpoint, Flushed, jobVars
  <2>2. QED
    BY <1>1, <2>1 DEF EndInvariant, LastRequest, JoinedFirst, NoneRunning
<1>4. CASE FinishEnd
  <2>1. /\ flushing = "end" /\ flushing' = "no" /\ chan' = chan /\ phase' = "flushed"
    BY <1>4 DEF FinishEnd, Flushed
  <2>2. phase # "run" /\ \A j \in DOMAIN chan : chan[j].kind = "checkpoint"
    BY <2>1 DEF EndInvariant, LastRequest
  <2>3. QED
    BY <1>1, <2>1, <2>2 DEF EndInvariant, LastRequest, JoinedFirst, NoneRunning
<1>5. CASE FinishClose
  <2>1. /\ flushing = "close" /\ flushing' = "no" /\ chan' = << >>
    BY <1>5 DEF FinishClose, Flushed
  <2>2. phase # "run"
    BY <2>1 DEF EndInvariant, LastRequest
  <2>3. QED
    BY <1>1, <2>1, <2>2 DEF EndInvariant, LastRequest, JoinedFirst, NoneRunning
<1>6. QED
  BY <1>2, <1>3, <1>4, <1>5 DEF WriterStep

\* Every step keeps the order.
LEMMA EndStep ==
  ASSUME TypeInvariant, EndInvariant, [Next]_vars
  PROVE  EndInvariant'
<1>1. ASSUME NEW w \in Workers, WorkerStep(w)
      PROVE  EndInvariant'
  <2>1. phase = "run" /\ phase' = phase
    BY <1>1, WorkersRun DEF EndInvariant
  <2>2. flushing' = flushing
    BY <1>1 DEF WorkerStep, Spawn, Acquire, LeaveIdle, Open, Receive, Submit, EndOfRange, Reopen,
                Fail, StopExit, writerVars
  <2>3. chan' = chan \/ \E m : chan' = Append(chan, m) /\ m.kind = "chunk"
    <3> DEFINE m == [kind |-> "chunk", worker |-> w, seg |-> wk[w].seg,
                     from |-> wk[w].cursor, to |-> wk[w].to]
    <3>1. m.kind = "chunk" /\ (chan' = chan \/ chan' = Append(chan, m))
      BY <1>1, WorkerChannel
    <3> HIDE DEF m
    <3>2. QED
      BY <3>1
  <2>4. QED
    BY <2>1, <2>2, <2>3, EndKept
<1>2. CASE WriterStep
  BY <1>2, WriterEnds
<1>3. CASE EndTransfer \/ EndClose
  <2>1. /\ phase \notin {"flush", "close"} /\ NoneRunning /\ flushing' = flushing /\ wk' = wk
        /\ \E e \in Endings : phase' = e[2] /\ chan' = Append(chan, Control(e[1]))
    BY <1>3 DEF EndTransfer, EndClose, EndInvariant, JoinedFirst, Endings, writerVars
  <2>2. QED
    BY <2>1, RequestAppended
<1>4. CASE AskCheckpoint
  <2>1. /\ phase' = phase /\ flushing' = flushing /\ wk' = wk
        /\ chan' = Append(chan, Control("checkpoint")) /\ Control("checkpoint").kind = "checkpoint"
    BY <1>4 DEF AskCheckpoint, jobVars, writerVars, Control
  <2>2. QED
    BY <2>1, EndKept
<1>5. CASE StartFresh \/ Resume
  <2>1. phase = "off" /\ phase' = "run" /\ chan' = chan /\ flushing' = flushing
    BY <1>5 DEF StartFresh, Resume, BeginRun, writerVars
  <2>2. QED
    BY <2>1, NoRequest DEF EndInvariant, LastRequest, JoinedFirst
<1>6. CASE SaveOutcome \/ Crash
  <2>1. chan' = << >> /\ flushing' = "no" /\ wk' = [w \in Workers |-> Off] /\ Off.pc = "off"
    BY <1>6 DEF SaveOutcome, Crash, EndRun, Off
  <2>2. NoneRunning'
    BY <2>1 DEF NoneRunning
  <2>3. QED
    BY <2>1, <2>2 DEF EndInvariant, LastRequest, JoinedFirst
<1>7. CASE phase' = phase /\ flushing' = flushing /\ chan' = chan /\ (phase = "run" \/ wk' = wk)
  BY <1>7, EndKept
<1>8. QED
  BY <1>1, <1>2, <1>3, <1>4, <1>5, <1>6, <1>7
  DEF Next, SupervisorStep, ManagerStep, Join, SeeAllDone, SeeWriteError, Pause, AskEnded,
      SaveCheckpoint, Finished, vars, jobVars, writerVars

\* Nothing has been asked of the writer at first.
LEMMA InitEnd == Init => EndInvariant
BY DEF Init, EndInvariant, LastRequest, JoinedFirst, NoneRunning, Off

\* finish, close: when the writer closes, every worker has been joined and every chunk has been
\* taken, whether or not a write failed; what it drops unanswered are checkpoints.
THEOREM ClosedAfterLastChunk ==
  Spec => [](flushing = "close" =>
               NoneRunning /\ \A k \in DOMAIN chan : chan[k].kind = "checkpoint")
<1>1. Init => EndInvariant
  BY InitEnd
<1>2. TypeInvariant /\ EndInvariant /\ [Next]_vars => EndInvariant'
  BY EndStep
<1>3. EndInvariant => (flushing = "close" =>
                         NoneRunning /\ \A k \in DOMAIN chan : chan[k].kind = "checkpoint")
  BY DEF EndInvariant, LastRequest, JoinedFirst
<1>4. QED
  BY <1>1, <1>2, <1>3, PartitionInvariantHolds, PTL DEF Spec

-----------------------------------------------------------------------------
(***************************************************************************)
(* Where a received byte is.                                               *)
(***************************************************************************)
AllHeld == Claimed(segs) \subseteq disk \cup InMemory

Claims(table, b) == \E i \in DOMAIN table : b \in table[i].start .. table[i].pos - 1

InHand(b) == \E w \in Workers : wk[w].pc \in {"hand", "last"} /\ b \in Span(wk[w].cursor, wk[w].to)
InChannel(b) == \E k \in DOMAIN chan : b \in Span(chan[k].from, chan[k].to)
InBuffer(b) == \E w \in Workers : b \in Span(buffer[w].from, buffer[w].to)
Kept(b) == b \in disk \/ InHand(b) \/ InChannel(b) \/ InBuffer(b)

\* The sets, byte by byte.
LEMMA ByteByByte ==
  /\ \A table, b : b \in Claimed(table) <=> Claims(table, b)
  /\ \A b : b \in disk \cup InMemory <=> Kept(b)
  /\ \A b : (b \in disk \cup InMemory)' <=> Kept(b)'
<1>1. ASSUME NEW table, NEW b PROVE b \in Claimed(table) <=> Claims(table, b)
  BY DEF Claimed, Claims
<1>2. ASSUME NEW b PROVE b \in disk \cup InMemory <=> Kept(b)
  BY DEF InMemory, Kept, InHand, InChannel, InBuffer
<1>3. ASSUME NEW b PROVE (b \in disk \cup InMemory)' <=> Kept(b)'
  BY DEF InMemory, Kept, InHand, InChannel, InBuffer
<1>4. QED
  BY <1>1, <1>2, <1>3

\* A step that loses no byte and accounts only bytes it keeps.
LEMMA HeldStep ==
  ASSUME AllHeld, \A b : Kept(b) => Kept(b)',
         \A b : Claims(segs', b) => Claims(segs, b) \/ Kept(b)'
  PROVE  AllHeld'
<1>1. ASSUME NEW b, Claims(segs', b)
      PROVE  (b \in disk \cup InMemory)'
  BY <1>1, ByteByByte DEF AllHeld
<1>2. Claimed(segs') \subseteq (disk \cup InMemory)'
  BY <1>1, ByteByByte
<1>3. QED
  BY <1>2 DEF AllHeld

\* A method that moves neither the start nor the receive frontier of a segment accounts nothing.
LEMMA ReplaceClaims ==
  ASSUME NEW table, NEW i, NEW x,
         i \in DOMAIN table => x.start = table[i].start /\ x.pos = table[i].pos,
         NEW b, Claims([table EXCEPT ![i] = x], b)
  PROVE  Claims(table, b)
<1> DEFINE u == [table EXCEPT ![i] = x]
<1>1. DOMAIN u = DOMAIN table /\ \A j \in DOMAIN table : u[j] = IF j = i THEN x ELSE table[j]
  OBVIOUS
<1> HIDE DEF u
<1>2. Claims(u, b)
  BY DEF u
<1>3. QED
  BY <1>1, <1>2 DEF Claims

\* So do taking, racing and releasing a segment and setting its request's end.
LEMMA HoldersClaims ==
  ASSUME NEW table \in Seq(Segments), NEW i, NEW w, NEW b
  PROVE  /\ Claims(TakeOwner(table, i, w), b) => Claims(table, b)
         /\ Claims(TakeRacer(table, i, w), b) => Claims(table, b)
         /\ Claims(Release(table, i, w), b) => Claims(table, b)
         /\ \A reqEnd : Claims(SetRequestEnd(table, i, w, reqEnd), b) => Claims(table, b)
<1> DEFINE s == table[i]
           owned == [s EXCEPT !.owner = w, !.reqEnd = 0]
           raced == [s EXCEPT !.racer = w]
           promoted == [s EXCEPT !.owner = s.racer, !.racer = NoWorker, !.reqEnd = 0]
           dropped == [s EXCEPT !.racer = NoWorker]
           released == IF s.owner = w THEN promoted ELSE IF s.racer = w THEN dropped ELSE s
           requested(reqEnd) == [s EXCEPT !.reqEnd = reqEnd]
<1>1. i \in DOMAIN table => s \in Segments
  OBVIOUS
<1>2. i \in DOMAIN table =>
        /\ owned.start = s.start /\ owned.pos = s.pos
        /\ raced.start = s.start /\ raced.pos = s.pos
        /\ released.start = s.start /\ released.pos = s.pos
        /\ \A reqEnd : requested(reqEnd).start = s.start /\ requested(reqEnd).pos = s.pos
  BY <1>1 DEF Segments
<1>3. /\ TakeOwner(table, i, w) = [table EXCEPT ![i] = owned]
      /\ TakeRacer(table, i, w) = [table EXCEPT ![i] = raced]
      /\ Release(table, i, w) = [table EXCEPT ![i] = released]
      /\ \A reqEnd : SetRequestEnd(table, i, w, reqEnd)
                       \in {table, [table EXCEPT ![i] = requested(reqEnd)]}
  BY DEF TakeOwner, TakeRacer, Release, SetRequestEnd
<1> HIDE DEF owned, raced, released, requested
<1>4. /\ Claims([table EXCEPT ![i] = owned], b) => Claims(table, b)
      /\ Claims([table EXCEPT ![i] = raced], b) => Claims(table, b)
      /\ Claims([table EXCEPT ![i] = released], b) => Claims(table, b)
  BY <1>2, ReplaceClaims
<1>5. ASSUME NEW reqEnd
      PROVE  Claims(SetRequestEnd(table, i, w, reqEnd), b) => Claims(table, b)
  <2>1. Claims([table EXCEPT ![i] = requested(reqEnd)], b) => Claims(table, b)
    BY <1>2, ReplaceClaims
  <2>2. QED
    BY <1>3, <2>1
<1>6. QED
  BY <1>3, <1>4, <1>5

\* A split accounts nothing: the new piece begins at its receive frontier.
LEMMA SplitClaims ==
  ASSUME NEW table \in Seq(Segments), NEW i \in Splittable(table), NEW w \in Workers,
         NEW b, Claims(Split(table, i, w), b)
  PROVE  Claims(table, b)
<1> DEFINE s == table[i]
           at == SplitPoint(s)
           n == Len(table) + 1
           u == Split(table, i, w)
           left == [s EXCEPT !.end = at]
           right == [NewSegment(at, at, s.end) EXCEPT !.owner = w]
<1>1. /\ i \in DOMAIN table /\ DOMAIN table = 1 .. Len(table) /\ Len(table) \in Nat
      /\ s \in Segments
  BY DEF Splittable
<1>2. at \in Offsets
  BY <1>1, SplitPointInside DEF Splittable
<1> HIDE DEF at
<1>3. /\ DOMAIN u = 1 .. Len(table) + 1 /\ u[Len(table) + 1] = right
      /\ \A j \in DOMAIN table : u[j] = IF j = i THEN left ELSE table[j]
  BY SplitType DEF at
<1>4. DOMAIN u = DOMAIN table \cup {n}
  BY <1>1, <1>3
<1> HIDE DEF u, n
<1>5. left.start = s.start /\ left.pos = s.pos /\ right.start = at /\ right.pos = at
  BY <1>1 DEF Segments, NewSegment
<1> HIDE DEF left, right
<1>6. PICK j \in DOMAIN u : b \in u[j].start .. u[j].pos - 1
  BY DEF Claims, u
<1>7. CASE j = n
  <2>1. at \in Nat
    BY <1>2, ZeroOffset
  <2>2. b \in at .. at - 1
    BY <1>3, <1>5, <1>6, <1>7 DEF n
  <2>3. QED
    BY <2>1, <2>2
<1>8. CASE j # n
  BY <1>3, <1>4, <1>5, <1>6, <1>8 DEF Claims
<1>9. QED
  BY <1>7, <1>8

\* advance accounts the bytes from the receive frontier up to where it moves it.
LEMMA AdvanceClaims ==
  ASSUME NEW table, TablePartitioned(table), NEW i \in DOMAIN table, NEW to \in Offsets,
         to <= table[i].end, NEW b, Claims(Advance(table, i, to), b), ~Claims(table, b)
  PROVE  b \in Nat /\ table[i].pos <= b /\ b < to
<1> DEFINE u == Advance(table, i, to)
<1>1. /\ DOMAIN u = DOMAIN table /\ u[i].pos = Larger(table[i].pos, to)
      /\ u[i].start = table[i].start
      /\ \A j \in DOMAIN table : j # i => u[j] = table[j]
  BY AdvanceGrows DEF TableGrows
<1> HIDE DEF u
<1>2. PICK j \in DOMAIN u : b \in u[j].start .. u[j].pos - 1
  BY DEF Claims, u
<1>3. j = i
  BY <1>1, <1>2 DEF Claims
<1>4. table[i] \in Segments
  BY DEF TablePartitioned
<1>5. table[i].start \in Nat /\ table[i].pos \in Nat /\ to \in Nat
  BY <1>4, SegmentNumbers, ZeroOffset
<1>6. b \in table[i].start .. Larger(table[i].pos, to) - 1 /\ b \notin table[i].start .. table[i].pos - 1
  BY <1>1, <1>2, <1>3 DEF Claims
<1>7. QED
  BY <1>5, <1>6 DEF Larger

-----------------------------------------------------------------------------
(***************************************************************************)
(* The workers keep every byte.                                            *)
(***************************************************************************)
\* What a step of a worker leaves alone; a worker with a piece in hand can only submit it.
LEMMA WorkerFrame ==
  ASSUME TypeInvariant, NEW w \in Workers, WorkerStep(w)
  PROVE  /\ disk' = disk /\ buffer' = buffer
         /\ \A v \in Workers \ {w} : wk'[v] = wk[v]
         /\ \A k \in DOMAIN chan : k \in DOMAIN chan' /\ chan'[k] = chan[k]
         /\ wk[w].pc \in {"hand", "last"} => Submit(w)
<1>1. disk' = disk /\ buffer' = buffer
  BY DEF WorkerStep, Spawn, Acquire, LeaveIdle, Open, Receive, Submit, EndOfRange, Reopen, Fail,
         StopExit, storageVars, writerVars
<1>2. wk \in [Workers -> WorkerRecords] /\ chan \in Seq(Messages)
  BY DEF TypeInvariant, TypeOK
<1>3. \A v \in Workers \ {w} : wk'[v] = wk[v]
  BY <1>2 DEF WorkerStep, Spawn, Acquire, Take, LeaveIdle, Open, Receive, Submit, EndOfRange, Reopen,
              Fail, StopExit
<1>4. \A k \in DOMAIN chan : k \in DOMAIN chan' /\ chan'[k] = chan[k]
  <2> DEFINE m == [kind |-> "chunk", worker |-> w, seg |-> wk[w].seg,
                   from |-> wk[w].cursor, to |-> wk[w].to]
  <2>1. chan' = chan \/ chan' = Append(chan, m)
    BY WorkerChannel
  <2> HIDE DEF m
  <2>2. QED
    BY <1>2, <2>1, AppendedMessages
<1>5. wk[w].pc \in {"hand", "last"} => Submit(w)
  BY DEF WorkerStep, Spawn, Fresh, Acquire, LeaveIdle, Open, Receive, EndOfRange, Reopen, Fail,
         StopExit
<1>6. QED
  BY <1>1, <1>3, <1>4, <1>5

\* A submitted piece is in the channel.
LEMMA SubmitKeeps ==
  ASSUME TypeInvariant, ~failed, NEW w \in Workers, Submit(w),
         NEW b \in Span(wk[w].cursor, wk[w].to)
  PROVE  InChannel(b)'
<1> DEFINE m == [kind |-> "chunk", worker |-> w, seg |-> wk[w].seg,
                 from |-> wk[w].cursor, to |-> wk[w].to]
<1>1. chan' = Append(chan, m) /\ chan \in Seq(Messages)
  BY DEF Submit, TypeInvariant, TypeOK
<1>2. m.from = wk[w].cursor /\ m.to = wk[w].to
  OBVIOUS
<1> HIDE DEF m
<1>3. Len(chan) + 1 \in DOMAIN chan' /\ chan'[Len(chan) + 1] = m
  BY <1>1, AppendedMessages
<1>4. QED
  BY <1>2, <1>3 DEF InChannel

\* A step of a worker keeps every byte that is on its way to the disk.
LEMMA WorkerKeeps ==
  ASSUME TypeInvariant, ~failed, NEW w \in Workers, WorkerStep(w), NEW b, Kept(b)
  PROVE  Kept(b)'
<1>1. CASE b \in disk \/ InBuffer(b)
  BY <1>1, WorkerFrame DEF Kept, InBuffer
<1>2. CASE InChannel(b)
  BY <1>2, WorkerFrame DEF Kept, InChannel
<1>3. CASE InHand(b)
  <2>1. PICK v \in Workers : wk[v].pc \in {"hand", "last"} /\ b \in Span(wk[v].cursor, wk[v].to)
    BY <1>3 DEF InHand
  <2>2. CASE v = w
    BY <2>1, <2>2, WorkerFrame, SubmitKeeps DEF Kept
  <2>3. CASE v # w
    BY <2>1, <2>3, WorkerFrame DEF Kept, InHand
  <2>4. QED
    BY <2>2, <2>3
<1>4. QED
  BY <1>1, <1>2, <1>3 DEF Kept

\* A received byte is accounted and in hand in one step.
LEMMA ReceiveKeeps ==
  ASSUME TypeInvariant, PartitionInvariant, NEW w \in Workers, Receive(w),
         NEW b, Claims(segs', b), ~Claims(segs, b)
  PROVE  InHand(b)'
<1> DEFINE a == wk[w]
<1>1. TablePartitioned(segs) /\ segs \in Seq(Segments)
      /\ wk \in [Workers -> WorkerRecords] /\ a \in WorkerRecords
  BY DEF TypeInvariant, TypeOK, PartitionInvariant
<1>2. a.pc \in Assigned /\ a.seg \in DOMAIN segs /\ a.cursor \in Offsets /\ a.cursor <= segs[a.seg].pos
  <2>1. a.pc \in Assigned
    BY DEF Receive, Assigned
  <2>2. QED
    BY <2>1, ReassignedType DEF PartitionInvariant, WorkersBehind
<1>3. PICK n \in 1 .. MaxChunk :
        LET accepted == Accepted(segs, a.seg, w, a.cursor, n)
            to == a.cursor + accepted
        IN  IF accepted = 0
            THEN wk' = [wk EXCEPT ![w] = Idle] /\ segs' = segs
            ELSE /\ segs' = Advance(segs, a.seg, to)
                 /\ wk' = [wk EXCEPT ![w].to = to,
                                     ![w].pc = IF to >= segs[a.seg].end \/ Done(segs'[a.seg])
                                               THEN "last" ELSE "hand"]
  BY DEF Receive
<1> DEFINE accepted == Accepted(segs, a.seg, w, a.cursor, n)
           to == a.cursor + accepted
           pc == IF to >= segs[a.seg].end \/ Done(segs'[a.seg]) THEN "last" ELSE "hand"
           r == [a EXCEPT !.to = to, !.pc = pc]
<1>4. n \in Nat \ {0} /\ accepted # 0
  BY <1>3, TransferAssumption
<1>5. segs' = Advance(segs, a.seg, to) /\ wk' = [wk EXCEPT ![w] = r]
  BY <1>1, <1>3, <1>4
<1>6. to <= segs[a.seg].end /\ to \in Offsets
  BY <1>1, <1>2, <1>4, AcceptedInside, AcceptedBounds
<1>7. r.cursor = a.cursor /\ r.to = to /\ r.pc \in {"hand", "last"}
  BY <1>1 DEF WorkerRecords
<1> HIDE DEF r, to
<1>8. b \in Nat /\ segs[a.seg].pos <= b /\ b < to
  BY <1>1, <1>2, <1>5, <1>6, AdvanceClaims
<1>9. a.cursor <= b
  <2>1. segs[a.seg] \in Segments
    BY <1>1, <1>2
  <2>2. segs[a.seg].pos \in Nat /\ a.cursor \in Nat
    BY <1>2, <2>1, SegmentNumbers, ZeroOffset
  <2>3. QED
    BY <1>2, <1>8, <2>2
<1>10. b \in Span(r.cursor, r.to)
  <2>1. r.cursor \in Nat /\ r.to \in Nat
    BY <1>2, <1>6, <1>7, ZeroOffset
  <2>2. QED
    BY <1>7, <1>8, <1>9, <2>1 DEF Span
<1>11. wk'[w] = r
  BY <1>1, <1>5
<1>12. QED
  BY <1>7, <1>10, <1>11 DEF InHand

\* Nothing else a worker does accounts a byte.
LEMMA WorkerClaims ==
  ASSUME TypeInvariant, PartitionInvariant, NEW w \in Workers, WorkerStep(w),
         NEW b, Claims(segs', b)
  PROVE  Claims(segs, b) \/ InHand(b)'
<1>1. segs \in Seq(Segments)
  BY DEF TypeInvariant, TypeOK
<1>2. CASE Receive(w)
  BY <1>2, ReceiveKeeps
<1>3. CASE Acquire(w)
  <2>1. \/ \E i : segs' \in {TakeOwner(segs, i, w), TakeRacer(segs, i, w)}
        \/ \E i \in Splittable(segs) : segs' = Split(segs, i, w)
    BY <1>3 DEF Acquire, Take, LargestOf
  <2>2. QED
    BY <1>1, <2>1, HoldersClaims, SplitClaims
<1>4. CASE segs' = segs \/ \E i : \/ segs' = Release(segs, i, w)
                                  \/ \E reqEnd : segs' = SetRequestEnd(segs, i, w, reqEnd)
  BY <1>1, <1>4, HoldersClaims
<1>5. QED
  BY <1>2, <1>3, <1>4
  DEF WorkerStep, Spawn, LeaveIdle, Open, Submit, EndOfRange, Reopen, Fail, StopExit

\* A worker accounts no byte that it does not hand on.
LEMMA WorkerHolds ==
  ASSUME TypeInvariant, PartitionInvariant, StorageSound, AllHeld, NEW w \in Workers, WorkerStep(w)
  PROVE  AllHeld'
<1>1. \A b : Kept(b) => Kept(b)'
  BY WorkerKeeps DEF StorageSound
<1>2. \A b : Claims(segs', b) => Claims(segs, b) \/ Kept(b)'
  BY WorkerClaims DEF Kept
<1>3. QED
  BY <1>1, <1>2, HeldStep

-----------------------------------------------------------------------------
(***************************************************************************)
(* The writer keeps every byte.                                            *)
(***************************************************************************)
\* What a flush notes in the table accounts nothing.
LEMMA FlushedClaims ==
  ASSUME NEW table \in Seq(Segments), NEW i, NEW from, NEW to,
         NEW b, Claims(OnFlushed(table, i, from, to), b)
  PROVE  Claims(table, b)
<1> DEFINE u == OnFlushed(table, i, from, to)
<1>1. DOMAIN u = DOMAIN table /\ \A j \in DOMAIN table : u[j].start = table[j].start /\ u[j].pos = table[j].pos
  BY OnFlushedKeeps
<1> HIDE DEF u
<1>2. Claims(u, b)
  BY DEF u
<1>3. QED
  BY <1>1, <1>2 DEF Claims

\* A write that cannot fail puts the piece on disk.
LEMMA WriteKeeps ==
  ASSUME ~WriteMayFail, TypeInvariant, NEW c, Write(c)
  PROVE  /\ disk' = disk \cup Span(c.from, c.to) /\ failed' = failed
         /\ \A b : Claims(segs', b) => Claims(segs, b)
<1>1. /\ disk' = disk \cup Span(c.from, c.to) /\ failed' = failed
      /\ segs' = OnFlushed(segs, c.seg, c.from, c.to)
  BY DEF Write
<1>2. segs \in Seq(Segments)
  BY DEF TypeInvariant, TypeOK
<1>3. QED
  BY <1>1, <1>2, FlushedClaims

\* Two contiguous pieces are one.
LEMMA JoinedSpan ==
  ASSUME NEW from \in Nat, NEW mid \in Nat, NEW to \in Nat, from <= mid, mid <= to
  PROVE  Span(from, mid) \cup Span(mid, to) \subseteq Span(from, to)
BY DEF Span

\* Every message but the first stays in the channel.
LEMMA TailKeeps ==
  ASSUME TypeInvariant, chan # << >>, chan' = Tail(chan), NEW b, InChannel(b),
         b \notin Span(Head(chan).from, Head(chan).to)
  PROVE  InChannel(b)'
<1>1. chan \in Seq(Messages)
  BY DEF TypeInvariant, TypeOK
<1>2. Len(chan) \in Nat \ {0} /\ DOMAIN chan = 1 .. Len(chan) /\ Head(chan) = chan[1]
  BY <1>1
<1>3. /\ Tail(chan) \in Seq(Messages) /\ Len(Tail(chan)) = Len(chan) - 1
      /\ \A j \in 1 .. Len(chan) - 1 : Tail(chan)[j] = chan[j + 1]
  BY <1>1
<1>4. PICK k \in DOMAIN chan : b \in Span(chan[k].from, chan[k].to)
  BY DEF InChannel
<1>5. k \in 2 .. Len(chan)
  BY <1>2, <1>4
<1>6. k - 1 \in 1 .. Len(chan) - 1 /\ (k - 1) + 1 = k
  BY <1>2, <1>5
<1>7. k - 1 \in DOMAIN chan' /\ chan'[k - 1] = chan[k]
  <2>1. DOMAIN Tail(chan) = 1 .. Len(chan) - 1
    BY <1>3
  <2>2. QED
    BY <1>3, <1>6, <2>1
<1>8. QED
  BY <1>4, <1>7 DEF InChannel

\* The chunk the writer takes goes to its worker's buffer or to disk; so does what it finds in
\* that buffer.
LEMMA TakeChunkKeeps ==
  ASSUME ~WriteMayFail, TypeInvariant, PartitionInvariant, ~failed, TakeChunk, NEW x
  PROVE  /\ Kept(x) => Kept(x)'
         /\ Claims(segs', x) => Claims(segs, x)
<1> DEFINE m == Head(chan)
           b == buffer[m.worker]
           new == [seg |-> m.seg, from |-> m.from, to |-> m.to]
           merged == [b EXCEPT !.to = m.to]
<1>1. /\ chan \in Seq(Messages) /\ chan # << >> /\ m.kind = "chunk" /\ chan' = Tail(chan)
      /\ segs \in Seq(Segments) /\ buffer \in [Workers -> Buffers]
  BY DEF TypeInvariant, TypeOK, TakeChunk
<1>2. m \in Messages /\ 1 \in DOMAIN chan /\ m = chan[1]
  BY <1>1, RemainingMessages
<1>3. m \in [kind : {"chunk"}, worker : Workers, seg : Nat, from : Offsets, to : Offsets]
  BY <1>1, <1>2 DEF Messages, Flushes
<1>4. m.worker \in Workers /\ m.from \in Offsets /\ m.to \in Offsets
  BY <1>3
<1>5. Received(segs, m.seg, m.from, m.to)
  BY <1>1, <1>2 DEF PartitionInvariant, ChannelReceived
<1>6. b \in Buffers /\ (b # NoBuffer => Received(segs, b.seg, b.from, b.to))
  BY <1>1, <1>4 DEF PartitionInvariant, BuffersReceived
<1>7. wk' = wk
  BY DEF TakeChunk
<1>8. \/ /\ b = NoBuffer /\ disk' = disk /\ segs' = segs /\ failed' = failed
         /\ buffer' = [IF failed' THEN NoBuffers ELSE buffer EXCEPT ![m.worker] = new]
      \/ /\ b # NoBuffer /\ b.to = m.from
         /\ disk' = disk /\ segs' = segs /\ failed' = failed
         /\ buffer' = [IF failed' THEN NoBuffers ELSE buffer EXCEPT ![m.worker] = merged]
      \/ /\ b # NoBuffer /\ b.to = m.from /\ Write(merged)
         /\ buffer' = [IF failed' THEN NoBuffers ELSE buffer EXCEPT ![m.worker] = NoBuffer]
      \/ /\ b # NoBuffer /\ Write(b)
         /\ buffer' = [IF failed' THEN NoBuffers ELSE buffer EXCEPT ![m.worker] = new]
  BY DEF TakeChunk
<1>9. /\ new.from = m.from /\ new.to = m.to /\ merged.from = b.from /\ merged.to = m.to
  <2> HIDE DEF m, b
  <2>1. QED
    BY <1>6 DEF Buffers
<1> HIDE DEF m, b, new, merged
<1>10. ASSUME b # NoBuffer, b.to = m.from
       PROVE  Span(b.from, b.to) \cup Span(m.from, m.to) \subseteq Span(merged.from, merged.to)
  <2>1. b.from <= b.to /\ m.from <= m.to
    BY <1>5, <1>6, <1>10 DEF Received
  <2>2. b.from \in Nat /\ m.from \in Nat /\ m.to \in Nat
    BY <1>4, <1>6, ZeroOffset DEF Buffers
  <2>3. QED
    BY <1>9, <1>10, <2>1, <2>2, JoinedSpan
<1>11. ~failed' /\ disk \subseteq disk' /\ (Claims(segs', x) => Claims(segs, x))
  BY <1>8, WriteKeeps
<1>12. \A v \in Workers \ {m.worker} : buffer'[v] = buffer[v]
  BY <1>1, <1>8, <1>11
<1>13. Span(m.from, m.to) \subseteq disk' \cup Span(buffer'[m.worker].from, buffer'[m.worker].to)
  <2>1. \A c : [buffer EXCEPT ![m.worker] = c][m.worker] = c
    BY <1>1, <1>4
  <2>2. QED
    BY <1>8, <1>9, <1>10, <1>11, <2>1, WriteKeeps
<1>14. Span(b.from, b.to) \subseteq disk' \cup Span(buffer'[m.worker].from, buffer'[m.worker].to)
  <2>1. \A c : [buffer EXCEPT ![m.worker] = c][m.worker] = c
    BY <1>1, <1>4
  <2>2. b = NoBuffer => Span(b.from, b.to) = {}
    BY DEF NoBuffer, Span
  <2>3. QED
    BY <1>8, <1>9, <1>10, <1>11, <2>1, <2>2, WriteKeeps
<1>15. ASSUME Kept(x)
       PROVE  Kept(x)'
  <2>1. CASE x \in disk
    BY <1>11, <2>1 DEF Kept
  <2>2. CASE InHand(x)
    BY <1>7, <2>2 DEF Kept, InHand
  <2>3. CASE InChannel(x)
    <3>1. CASE x \in Span(m.from, m.to)
      BY <1>4, <1>13, <3>1 DEF Kept, InBuffer
    <3>2. CASE x \notin Span(m.from, m.to)
      BY <1>1, <2>3, <3>2, TailKeeps DEF Kept, m
    <3>3. QED
      BY <3>1, <3>2
  <2>4. CASE InBuffer(x)
    <3>1. PICK v \in Workers : x \in Span(buffer[v].from, buffer[v].to)
      BY <2>4 DEF InBuffer
    <3>2. CASE v = m.worker
      BY <1>4, <1>14, <3>1, <3>2 DEF Kept, InBuffer, b
    <3>3. CASE v # m.worker
      BY <1>12, <3>1, <3>3 DEF Kept, InBuffer
    <3>4. QED
      BY <3>2, <3>3
  <2>5. QED
    BY <1>15, <2>1, <2>2, <2>3, <2>4 DEF Kept
<1>16. QED
  BY <1>11, <1>15

\* A request for a flush carries no bytes.
LEMMA TakeControlKeeps ==
  ASSUME TypeInvariant, TakeControl, NEW x
  PROVE  /\ Kept(x) => Kept(x)'
         /\ Claims(segs', x) => Claims(segs, x)
<1>1. /\ chan \in Seq(Messages) /\ chan # << >> /\ chan' = Tail(chan) /\ Head(chan).kind # "chunk"
      /\ segs' = segs /\ wk' = wk /\ buffer' = buffer /\ disk' = disk
  BY DEF TypeInvariant, TypeOK, TakeControl, storageVars
<1>2. Head(chan) \in Messages
  BY <1>1, RemainingMessages
<1>3. Head(chan).from = 0 /\ Head(chan).to = 0
  BY <1>1, <1>2 DEF Messages
<1>4. x \notin Span(Head(chan).from, Head(chan).to)
  BY <1>3 DEF Span
<1>5. InChannel(x) => InChannel(x)'
  BY <1>1, <1>4, TailKeeps
<1>6. QED
  BY <1>1, <1>5 DEF Kept, InHand, InBuffer

\* A buffer is given up only when its bytes are on disk.
LEMMA FlushBufferKeeps ==
  ASSUME ~WriteMayFail, TypeInvariant, ~failed, NEW w \in Workers, FlushBuffer(w), NEW x
  PROVE  /\ Kept(x) => Kept(x)'
         /\ Claims(segs', x) => Claims(segs, x)
<1>1. /\ Write(buffer[w]) /\ buffer' = [buffer EXCEPT ![w] = NoBuffer]
      /\ wk' = wk /\ chan' = chan /\ buffer \in [Workers -> Buffers]
  BY DEF FlushBuffer, TypeInvariant, TypeOK
<1>2. disk' = disk \cup Span(buffer[w].from, buffer[w].to) /\ (Claims(segs', x) => Claims(segs, x))
  BY <1>1, WriteKeeps
<1>3. \A v \in Workers \ {w} : buffer'[v] = buffer[v]
  BY <1>1
<1>4. InBuffer(x) => x \in disk' \/ InBuffer(x)'
  BY <1>2, <1>3 DEF InBuffer
<1>5. QED
  BY <1>1, <1>2, <1>4 DEF Kept, InHand, InChannel

\* What FinishClose drops from the channel holds no byte.
LEMMA FinishCloseKeeps ==
  ASSUME TypeInvariant, EndInvariant, FinishClose, NEW x
  PROVE  /\ Kept(x) => Kept(x)'
         /\ Claims(segs', x) => Claims(segs, x)
<1>1. /\ flushing = "close" /\ chan \in Seq(Messages)
      /\ segs' = segs /\ wk' = wk /\ buffer' = buffer /\ disk' = disk
  BY DEF FinishClose, TypeInvariant, TypeOK
<1>2. ASSUME NEW k \in DOMAIN chan
      PROVE  x \notin Span(chan[k].from, chan[k].to)
  <2>1. chan[k] \in Messages /\ chan[k].kind = "checkpoint"
    BY <1>1 DEF EndInvariant, LastRequest
  <2>2. chan[k].from = 0 /\ chan[k].to = 0
    BY <2>1 DEF Messages
  <2>3. QED
    BY <2>2 DEF Span
<1>3. ~InChannel(x)
  BY <1>2 DEF InChannel
<1>4. QED
  BY <1>1, <1>3 DEF Kept, InHand, InBuffer

\* The writer loses no byte between its buffers and the disk while no write fails.
LEMMA WriterHolds ==
  ASSUME ~WriteMayFail, TypeInvariant, PartitionInvariant, EndInvariant, StorageSound, AllHeld,
         WriterStep
  PROVE  AllHeld'
<1>1. ASSUME NEW x
      PROVE  /\ Kept(x) => Kept(x)'
             /\ Claims(segs', x) => Claims(segs, x)
  <2>1. ~failed
    BY DEF StorageSound
  <2>2. CASE IdleFlush \/ FinishPressure \/ FinishCheckpoint \/ FinishEnd
    BY <2>2 DEF IdleFlush, FinishPressure, FinishCheckpoint, FinishEnd, storageVars, Kept, InHand,
                InChannel, InBuffer
  <2>3. QED
    BY <2>1, <2>2, TakeChunkKeeps, TakeControlKeeps, FlushBufferKeeps, FinishCloseKeeps
    DEF WriterStep
<1>2. QED
  BY <1>1, HeldStep

-----------------------------------------------------------------------------
(***************************************************************************)
(* Runs begin and end without an unaccounted byte.                         *)
(***************************************************************************)
LEMMA SupervisorHolds ==
  ASSUME TypeInvariant, AllHeld,
         \/ \E w \in Workers : Join(w)
         \/ SeeAllDone \/ SeeWriteError \/ Pause \/ EndTransfer \/ EndClose \/ AskCheckpoint
  PROVE  AllHeld'
<1>1. /\ segs' = segs /\ disk' = disk /\ buffer' = buffer
      /\ chan' = chan \/ \E m : chan' = Append(chan, m)
  BY DEF Join, SeeAllDone, SeeWriteError, Pause, EndTransfer, EndClose, AskCheckpoint,
         storageVars, writerVars
<1>2. chan \in Seq(Messages) /\ wk \in [Workers -> WorkerRecords]
  BY DEF TypeInvariant, TypeOK
<1>3. \A k \in DOMAIN chan : k \in DOMAIN chan' /\ chan'[k] = chan[k]
  BY <1>1, <1>2, AppendedMessages
<1>4. \A v \in Workers : wk[v].pc \in {"hand", "last"} => wk'[v] = wk[v]
  <2>1. CASE wk' = wk
    BY <2>1
  <2>2. ASSUME NEW w \in Workers, Join(w)
        PROVE  \A v \in Workers : wk[v].pc \in {"hand", "last"} => wk'[v] = wk[v]
    <3>1. wk[w].pc \in {"fatal", "gaveup"} /\ wk' = [wk EXCEPT ![w] = Off]
      BY <2>2 DEF Join
    <3>2. QED
      BY <1>2, <3>1
  <2>3. QED
    BY <2>1, <2>2 DEF SeeAllDone, SeeWriteError, Pause, EndTransfer, EndClose, AskCheckpoint
<1>5. ASSUME NEW x
      PROVE  /\ Kept(x) => Kept(x)'
             /\ Claims(segs', x) => Claims(segs, x)
  BY <1>1, <1>3, <1>4 DEF Kept, InHand, InChannel, InBuffer
<1>6. QED
  BY <1>5, HeldStep

\* A new segment accounts the bytes before its receive frontier, a fresh table none.
LEMMA NewSegmentClaims ==
  /\ \A x : ~Claims(FreshTable, x)
  /\ \A states, x : Claims(FromStates(states), x) <=> Claims(states, x)
<1>1. \A start, pos, end :
        NewSegment(start, pos, end).start = start /\ NewSegment(start, pos, end).pos = pos
  BY DEF NewSegment
<1>2. ASSUME NEW x PROVE ~Claims(FreshTable, x)
  <2>1. DOMAIN FreshTable = {1} /\ FreshTable[1].start = 0 /\ FreshTable[1].pos = 0
    BY <1>1 DEF FreshTable
  <2>2. QED
    BY <2>1 DEF Claims
<1>3. ASSUME NEW states, NEW x PROVE Claims(FromStates(states), x) <=> Claims(states, x)
  <2>1. /\ DOMAIN FromStates(states) = DOMAIN states
        /\ \A i \in DOMAIN states : /\ FromStates(states)[i].start = states[i].start
                                    /\ FromStates(states)[i].pos = states[i].pos
    BY <1>1 DEF FromStates
  <2>2. QED
    BY <2>1 DEF Claims
<1>4. QED
  BY <1>2, <1>3

\* The first worker accounts nothing when it takes its segment.
LEMMA FirstWorkerClaims ==
  ASSUME NEW table \in Seq(Segments), NEW resumed \in BOOLEAN, FirstWorker(table, resumed),
         NEW x, Claims(segs', x)
  PROVE  Claims(table, x)
<1>1. CASE segs' = table
  BY <1>1
<1>2. ASSUME NEW w \in Workers, NEW i \in FirstPending(table), NEW reqEnd,
             segs' = IF resumed THEN SetRequestEnd(TakeOwner(table, i, w), i, w, reqEnd)
                     ELSE TakeOwner(table, i, w)
      PROVE  Claims(table, x)
  <2>1. i \in DOMAIN table
    BY DEF FirstPending
  <2>2. TakeOwner(table, i, w) \in Seq(Segments)
    BY <2>1, TakeOwnerType
  <2>3. Claims(TakeOwner(table, i, w), x)
    BY <1>2, <2>2, HoldersClaims
  <2>4. QED
    BY <2>3, HoldersClaims
<1>3. QED
  BY <1>1, <1>2 DEF FirstWorker

\* A run starts with what its part file holds.
LEMMA StartHolds ==
  ASSUME TypeInvariant, StorageSound, ClaimsSound, StartFresh \/ Resume
  PROVE  AllHeld'
<1>1. saved \in Seq(SegmentStates)
  BY DEF TypeInvariant, TypeOK
<1>2. ASSUME NEW x, Claims(segs', x)
      PROVE  x \in disk'
  <2>1. CASE StartFresh
    BY <1>2, <2>1, FreshTableType, FirstWorkerClaims, NewSegmentClaims DEF StartFresh
  <2>2. CASE Resume
    <3>1. Claims(saved, x) /\ disk' = disk
      BY <1>1, <1>2, <2>2, FromStatesType, FirstWorkerClaims, NewSegmentClaims
      DEF Resume, storageVars
    <3>2. x \in Claimed(saved)
      BY <3>1, ByteByByte
    <3>3. QED
      BY <3>1, <3>2 DEF StorageSound, ClaimsSound
  <2>3. QED
    BY <2>1, <2>2
<1>3. QED
  BY <1>2, ByteByByte DEF AllHeld

\* Every step keeps every received byte.
LEMMA HeldInEveryStep ==
  ASSUME ~WriteMayFail, TypeInvariant, PartitionInvariant, StorageSound, ClaimsSound, EndInvariant,
         AllHeld, [Next]_vars
  PROVE  AllHeld'
<1>1. CASE SaveOutcome \/ Crash
  <2>1. segs' = FreshTable
    BY <1>1 DEF SaveOutcome, Crash, EndRun
  <2>2. QED
    BY <2>1, NewSegmentClaims, ByteByByte DEF AllHeld
<1>2. CASE AskEnded \/ SaveCheckpoint \/ UNCHANGED vars
  <2>1. ASSUME NEW x
        PROVE  /\ Kept(x) => Kept(x)'
               /\ Claims(segs', x) => Claims(segs, x)
    BY <1>2 DEF AskEnded, SaveCheckpoint, vars, storageVars, writerVars, Kept, InHand, InChannel,
                InBuffer
  <2>2. QED
    BY <2>1, HeldStep
<1>3. QED
  BY <1>1, <1>2, WorkerHolds, WriterHolds, SupervisorHolds, StartHolds
  DEF Next, SupervisorStep, ManagerStep, Finished

\* A fresh table accounts nothing.
LEMMA InitHeld == Init => AllHeld
BY NewSegmentClaims, ByteByByte DEF Init, AllHeld

-----------------------------------------------------------------------------
(***************************************************************************)
(* A complete download is whole.                                           *)
(***************************************************************************)
CompletionInvariant ==
  /\ TypeInvariant /\ NobodyBetweenRuns /\ PartitionInvariant /\ DurabilityInvariant
  /\ EndInvariant /\ AllHeld /\ CompleteIsWhole

\* When every segment is done, every byte of the file is accounted.
LEMMA DoneClaims ==
  ASSUME TablePartitioned(segs), AllDone(segs), NEW x \in Bytes
  PROVE  Claims(segs, x)
<1>1. PICK i \in DOMAIN segs : segs[i].start <= x /\ x < segs[i].end
  BY DEF TablePartitioned, ValidStates
<1>2. segs[i] \in Segments /\ segs[i].pos >= segs[i].end
  BY DEF TablePartitioned, AllDone, Done
<1>3. segs[i].start \in Nat /\ segs[i].pos \in Nat /\ segs[i].end \in Nat /\ x \in Int
  BY <1>2, SegmentNumbers, SizesAssumption DEF Bytes
<1>4. x \in segs[i].start .. segs[i].pos - 1
  BY <1>1, <1>2, <1>3
<1>5. QED
  BY <1>4 DEF Claims

\* When the writer closes, nothing is held in memory.
LEMMA ClosedHoldsNothing ==
  ASSUME TypeInvariant, EndInvariant, FinishClose
  PROVE  \A x : Kept(x) => x \in disk
<1>1. /\ flushing = "close" /\ chan \in Seq(Messages)
      /\ \A w \in Workers : buffer[w] = NoBuffer
  BY DEF FinishClose, Flushed, TypeInvariant, TypeOK
<1>2. phase = "close" /\ \A k \in DOMAIN chan : chan[k].kind = "checkpoint"
  BY <1>1 DEF EndInvariant, LastRequest
<1>3. \A x : ~InHand(x)
  BY <1>2 DEF EndInvariant, JoinedFirst, NoneRunning, InHand
<1>4. \A x : ~InBuffer(x)
  BY <1>1 DEF InBuffer, NoBuffer, Span
<1>5. \A x : ~InChannel(x)
  <2>1. \A k \in DOMAIN chan : chan[k] \in Messages
    BY <1>1
  <2>2. \A k \in DOMAIN chan : chan[k].from = 0 /\ chan[k].to = 0
    BY <1>2, <2>1 DEF Messages
  <2>3. QED
    BY <2>2 DEF InChannel, Span
<1>6. QED
  BY <1>3, <1>4, <1>5 DEF Kept

\* When the supervisor closes a run that is whole, nothing is left on its way to the disk.
LEMMA WholeOnDisk ==
  ASSUME CompletionInvariant, FinishClose, Whole
  PROVE  disk = Bytes
<1>1. disk \subseteq Bytes /\ TablePartitioned(segs) /\ AllDone(segs)
  BY DEF CompletionInvariant, TypeInvariant, TypeOK, PartitionInvariant, Whole
<1>2. ASSUME NEW x \in Bytes
      PROVE  x \in disk
  <2>1. Kept(x)
    BY <1>1, DoneClaims, ByteByByte DEF CompletionInvariant, AllHeld
  <2>2. QED
    BY <2>1, ClosedHoldsNothing DEF CompletionInvariant
<1>3. QED
  BY <1>1, <1>2

\* What a step does to what the keeper of the resume state sees: the synced bytes, the saved state
\* and whether the download is complete.
LEMMA SeenSteps ==
  ASSUME ~WriteMayFail, ~PartFileMayVanish, CompletionInvariant, [Next]_vars
  PROVE  \/ /\ saved' = saved /\ synced' = synced /\ (phase' = "complete" <=> phase = "complete")
         \/ /\ saved = << >> /\ saved' = saved /\ synced' = {}
            /\ phase # "complete" /\ phase' # "complete"
         \/ /\ saved' = saved /\ synced \subseteq synced'
            /\ (phase' = "complete" <=> phase = "complete")
         \/ /\ saved' = saved /\ synced' = Bytes /\ phase # "complete" /\ phase' = "complete"
         \/ /\ synced' = synced /\ (phase' = "complete" <=> phase = "complete")
<1>1. ~failed /\ synced \subseteq disk
  BY DEF CompletionInvariant, DurabilityInvariant, StorageSound
<1>2. ASSUME NEW w \in Workers, WorkerStep(w)
      PROVE  saved' = saved /\ synced' = synced /\ phase' = phase
  BY <1>2, WorkerInRun DEF CompletionInvariant, storageVars, savedVars, jobVars
<1>3. CASE TakeChunk \/ TakeControl \/ IdleFlush \/ (\E w \in Workers : FlushBuffer(w))
           \/ FinishPressure
  <2>1. saved' = saved /\ synced' = synced /\ phase' = phase
    BY <1>3 DEF TakeChunk, TakeControl, IdleFlush, FlushBuffer, FinishPressure, storageVars,
                savedVars, jobVars
  <2>2. QED
    BY <2>1
<1>4. CASE FinishCheckpoint
  <2>1. saved' = saved /\ phase' = phase /\ synced' = disk
    BY <1>1, <1>4 DEF FinishCheckpoint, SyncSucceeds, SyncFails, jobVars
  <2>2. QED
    BY <1>1, <2>1
<1>5. CASE FinishEnd
  <2>1. saved' = saved /\ phase' = "flushed" /\ synced' = disk /\ flushing = "end"
    BY <1>1, <1>5 DEF FinishEnd, SyncSucceeds, SyncFails
  <2>2. phase = "flush"
    BY <2>1 DEF CompletionInvariant, EndInvariant, LastRequest
  <2>3. QED
    BY <1>1, <2>1, <2>2
<1>6. CASE FinishClose
  <2>1. /\ saved' = saved /\ synced' = disk /\ flushing = "close"
        /\ phase' = IF Whole THEN "complete" ELSE "ended"
    BY <1>1, <1>6 DEF FinishClose, SyncSucceeds, SyncFails
  <2>2. phase = "close"
    BY <2>1 DEF CompletionInvariant, EndInvariant, LastRequest
  <2>3. Whole => disk = Bytes
    BY <1>6, WholeOnDisk
  <2>4. QED
    BY <1>1, <2>1, <2>2, <2>3
<1>7. CASE (\E w \in Workers : Join(w)) \/ SeeAllDone \/ SeeWriteError \/ EndTransfer \/ EndClose
           \/ Pause \/ AskCheckpoint \/ AskEnded \/ Resume
  <2>1. saved' = saved /\ synced' = synced /\ (phase' = "complete" <=> phase = "complete")
    BY <1>7 DEF Join, SeeAllDone, SeeWriteError, EndTransfer, EndClose, Pause, AskCheckpoint, AskEnded,
                Resume, BeginRun, storageVars, savedVars, jobVars
  <2>2. QED
    BY <2>1
<1>8. CASE StartFresh
  <2>1. saved = << >> /\ saved' = saved /\ synced' = {} /\ phase = "off" /\ phase' = "run"
    BY <1>8 DEF StartFresh, BeginRun, savedVars
  <2>2. QED
    BY <2>1
<1>9. CASE SaveCheckpoint \/ SaveOutcome
  <2>1. synced' = synced /\ (phase' = "complete" <=> phase = "complete")
    BY <1>9 DEF SaveCheckpoint, SaveOutcome, EndRun, storageVars, jobVars
  <2>2. QED
    BY <2>1
<1>10. CASE Crash
  <2>1. saved' = saved /\ synced \subseteq synced' /\ phase # "complete" /\ phase' = "off"
    BY <1>10 DEF Crash, EndRun
  <2>2. QED
    BY <2>1
<1>11. CASE UNCHANGED vars
  BY <1>11 DEF vars, storageVars, savedVars, jobVars
<1>12. QED
  BY <1>2, <1>3, <1>4, <1>5, <1>6, <1>7, <1>8, <1>9, <1>10, <1>11
  DEF Next, WriterStep, SupervisorStep, ManagerStep, Finished

\* Every step keeps the parts together.
LEMMA CompletionStep ==
  ASSUME ~WriteMayFail, ~PartFileMayVanish, CompletionInvariant, [Next]_vars
  PROVE  CompletionInvariant'
<1>1. TypeInvariant' /\ NobodyBetweenRuns' /\ PartitionInvariant'
  BY TypeStep, NobodyBetweenRunsStep, PartitionStep DEF CompletionInvariant
<1>2. DurabilityInvariant' /\ EndInvariant'
  BY DurabilityStep, EndStep DEF CompletionInvariant
<1>3. AllHeld'
  BY HeldInEveryStep DEF CompletionInvariant, DurabilityInvariant
<1>4. CompleteIsWhole'
  <2>1. synced' \subseteq Bytes
    BY <1>1 DEF TypeInvariant, TypeOK
  <2>2. phase = "complete" => synced = Bytes
    BY DEF CompletionInvariant, CompleteIsWhole
  <2>3. QED
    BY <2>1, <2>2, SeenSteps DEF CompleteIsWhole
<1>5. QED
  BY <1>1, <1>2, <1>3, <1>4 DEF CompletionInvariant

\* Without write errors and with a part file that stays, they hold in every state.
LEMMA CompletionInvariantHolds ==
  ASSUME ~WriteMayFail, ~PartFileMayVanish
  PROVE  Spec => []CompletionInvariant
<1>1. Init => CompletionInvariant
  <2>1. Init => NobodyBetweenRuns /\ CompleteIsWhole
    BY DEF Init, NobodyBetweenRuns, CompleteIsWhole, Off
  <2>2. QED
    BY <2>1, InitType, InitPartition, InitDurable, InitEnd, InitHeld DEF CompletionInvariant
<1>2. CompletionInvariant /\ [Next]_vars => CompletionInvariant'
  BY CompletionStep
<1>3. QED
  BY <1>1, <1>2, PTL DEF Spec

\* worker.rs, writer.rs: a byte the table accounts as received is in a worker's hand, in the
\* channel, in a buffer or on disk, as long as writes succeed.
THEOREM ReceivedHeld ==
  ASSUME ~WriteMayFail, ~PartFileMayVanish
  PROVE  Spec => []ReceivedIsHeld
<1>1. CompletionInvariant => ReceivedIsHeld
  BY DEF CompletionInvariant, AllHeld, ReceivedIsHeld
<1>2. QED
  BY <1>1, CompletionInvariantHolds, PTL

\* finish: a download that is reported complete has every byte synced.
THEOREM CompleteWhole ==
  ASSUME ~WriteMayFail, ~PartFileMayVanish
  PROVE  Spec => []CompleteIsWhole
<1>1. CompletionInvariant => CompleteIsWhole
  BY DEF CompletionInvariant
<1>2. QED
  BY <1>1, CompletionInvariantHolds, PTL

-----------------------------------------------------------------------------
(***************************************************************************)
(* The engine is a DurableDownload.                                        *)
(***************************************************************************)
LEMMA DurableInit == Init => Durable!Init
BY DEF Init, Durable!Init, Claimed

\* Every step of the transfer is one of the abstract download, or leaves it as it is.
LEMMA DurableNext ==
  ASSUME ~WriteMayFail, ~PartFileMayVanish, CompletionInvariant, CompletionInvariant', [Next]_vars
  PROVE  [Durable!Next]_(Durable!vars)
<1>1. /\ Claimed(saved)' \subseteq synced' /\ synced' \subseteq Bytes
  BY DEF CompletionInvariant, DurabilityInvariant, ClaimsSound, TypeInvariant, TypeOK
<1>2. Claimed(<< >>) = {}
  BY DEF Claimed
<1>3. CASE saved' = saved /\ synced' = synced /\ (phase' = "complete" <=> phase = "complete")
  BY <1>3 DEF Durable!vars
<1>4. CASE /\ saved = << >> /\ saved' = saved /\ synced' = {}
           /\ phase # "complete" /\ phase' # "complete"
  BY <1>2, <1>4 DEF Durable!Next, Durable!StartOver
<1>5. CASE /\ saved' = saved /\ synced \subseteq synced'
           /\ (phase' = "complete" <=> phase = "complete")
  BY <1>1, <1>5 DEF Durable!Next, Durable!Store
<1>6. CASE saved' = saved /\ synced' = Bytes /\ phase # "complete" /\ phase' = "complete"
  BY <1>6 DEF Durable!Next, Durable!Finish
<1>7. CASE synced' = synced /\ (phase' = "complete" <=> phase = "complete")
  BY <1>1, <1>7 DEF Durable!Next, Durable!Record
<1>8. QED
  BY <1>3, <1>4, <1>5, <1>6, <1>7, SeenSteps

\* manager/, transfer.rs: to whoever keeps the resume state, the engine with its table, workers and
\* writer is a DurableDownload: each of its steps stores, records, starts over, finishes or is
\* not seen.
THEOREM ImplementsDurable ==
  ASSUME ~WriteMayFail, ~PartFileMayVanish
  PROVE  Spec => ImplementsDurableDownload
<1>1. CompletionInvariant /\ CompletionInvariant' /\ [Next]_vars => [Durable!Next]_(Durable!vars)
  BY DurableNext
<1>2. QED
  BY <1>1, DurableInit, CompletionInvariantHolds, PTL
  DEF Spec, ImplementsDurableDownload, Durable!Spec
=============================================================================
