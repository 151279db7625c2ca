------------------------ MODULE DownloadManager_proofs ------------------------
(***************************************************************************)
(* What holds of the manager for any number of items, threads, jobs and    *)
(* commands.                                                               *)
(*                                                                         *)
(* ManagerInvariant: TypeOK is not inductive.  A handler that settles an   *)
(* outcome reads the item of a job, a thread the item and the job it       *)
(* noted, and the channel is bounded only because no job is in it twice.   *)
(* ManagerInvariant says what a thread, the handler and the channel may    *)
(* point at; it holds whichever commands are given.                        *)
(*                                                                         *)
(* JobBook: an item has one job that runs, reports or waits to be handled, *)
(* and it is in the map.  Capacity: the queue's slots suffice for the      *)
(* items that have a running job and for those on their way to one.  Both  *)
(* need that starts and deletions come one after the other (Serial), which *)
(* they do where commands are given one by one, and where only admission   *)
(* starts items.                                                           *)
(***************************************************************************)
EXTENDS DownloadManager, FiniteSetTheorems, TLAPS

Copies == UNION {[S -> Rows] : S \in SUBSET Items}

\* Where a thread has an item in hand.
Aimed == {"mark", "spawn", "insert", "unqueue", "cancel", "forget", "erase", "reset"}

SoundThread(r) ==
  /\ r \in ThreadRecords
  /\ r.pc \in Aimed => r.item \in Items
  /\ r.pc = "insert" => r.job \in Jobs

StoreTyped ==
  /\ items \in [Items -> Rows] /\ rows \in [Items -> Rows]
  /\ dirty \in SUBSET Items
  /\ write \in [Actors -> Copies]

ControlTyped ==
  /\ jobs \in [Items -> 0 .. MaxJobs]
  /\ saver \in [pc : {"idle", "ask"}, todo : SUBSET Items, taken : 0 .. MaxCheckpoints]
  /\ admission \in Threads \cup {Nobody}
  /\ queue \in [running : BOOLEAN, busy : BOOLEAN]
  /\ commands \in 0 .. MaxCommands

ThreadsSound ==
  /\ thread \in [Threads -> ThreadRecords]
  /\ \A t \in Threads : SoundThread(thread[t])

\* A job that was started is an item's, and one that ended has a result.
JobsSound ==
  /\ job \in [Jobs -> JobRecords]
  /\ \A j \in Jobs : /\ job[j].at # "none" => job[j].item \in Items
                     /\ job[j].at \in {"reporting", "sent"} => job[j].result # "none"

\* The channel holds outcomes that were sent, each once; the handler settles such a one.
OutcomesSound ==
  /\ outcomes \in Seq(Jobs)
  /\ \A k \in DOMAIN outcomes : job[outcomes[k]].at = "sent"
  /\ \A k, m \in DOMAIN outcomes : outcomes[k] = outcomes[m] => k = m
  /\ handler \in [pc : {"idle", "settle", "scan", "last"}, job : 0 .. MaxJobs]
  /\ handler.pc # "idle" => handler.job \in Jobs /\ job[handler.job].at = "sent"

ManagerInvariant == StoreTyped /\ ControlTyped /\ ThreadsSound /\ JobsSound /\ OutcomesSound

-----------------------------------------------------------------------------
(***************************************************************************)
(* The data.                                                               *)
(***************************************************************************)
LEMMA RowsTyped ==
  /\ Gone \in Rows
  /\ \A status \in Statuses, resume \in BOOLEAN : Row(status, resume) \in Rows
  /\ \A x \in Rows : /\ x.status \in Statuses /\ x.resume \in BOOLEAN
                     /\ \A status \in Statuses : [x EXCEPT !.status = status] \in Rows
                     /\ [x EXCEPT !.resume = TRUE] \in Rows
BY DEF Gone, Row, Rows, Statuses

\* What an actor may have to write.
LEMMA CopiesTyped ==
  /\ NoWrite \in Copies
  /\ \A i \in Items, x \in Rows : [k \in {i} |-> x] \in Copies
  /\ \A S \in SUBSET Items : [i \in S |-> items[i]] \in [S -> Rows]
                               => [i \in S |-> items[i]] \in Copies
<1>1. NoWrite \in Copies
  <2>1. NoWrite \in [{} -> Rows] /\ {} \in SUBSET Items
    BY DEF NoWrite
  <2>2. QED
    BY <2>1 DEF Copies
<1>2. ASSUME NEW i \in Items, NEW x \in Rows
      PROVE  [k \in {i} |-> x] \in Copies
  <2>1. [k \in {i} |-> x] \in [{i} -> Rows] /\ {i} \in SUBSET Items
    OBVIOUS
  <2>2. QED
    BY <2>1 DEF Copies
<1>3. QED
  BY <1>1, <1>2 DEF Copies

\* with_item keeps the types, whoever writes.
LEMMA WithItemTyped ==
  ASSUME StoreTyped, NEW a \in Actors, NEW i \in Items, NEW x \in Rows, WithItem(a, i, x)
  PROVE  items' \in [Items -> Rows] /\ write' \in [Actors -> Copies]
<1>1. [k \in {i} |-> x] \in Copies
  BY CopiesTyped
<1>2. QED
  BY <1>1 DEF WithItem, StoreTyped

\* Where a thread may be, with or without an item.
LEMMA DoingSound ==
  ASSUME NEW cmd \in AllCommands \cup {"tick"}, NEW pc \in Pcs, NEW todo \in SUBSET Items
  PROVE  /\ Doing(cmd, pc, todo) \in ThreadRecords
         /\ pc \notin Aimed => SoundThread(Doing(cmd, pc, todo))
         /\ \A i \in Items : pc # "insert" => SoundThread([Doing(cmd, pc, todo) EXCEPT !.item = i])
         /\ \A wait \in SUBSET Items :
              pc \notin Aimed => SoundThread([Doing(cmd, pc, todo) EXCEPT !.wait = wait])
<1>1. Doing(cmd, pc, todo) \in ThreadRecords /\ Doing(cmd, pc, todo).pc = pc
  BY ManagerAssumption DEF Doing, ThreadRecords
<1>2. QED
  BY <1>1 DEF SoundThread, ThreadRecords, Aimed

\* A thread at rest points at nothing.
LEMMA RestingSound == \A t : SoundThread(Resting(t))
<1>1. "idle" \in Pcs /\ "idle" \notin Aimed /\ {} \in SUBSET Items
      /\ "tick" \in AllCommands \cup {"tick"} /\ "start" \in AllCommands \cup {"tick"}
  BY DEF Pcs, Aimed, AllCommands
<1> DEFINE none == {}
<1>2. none \in SUBSET Items
  BY <1>1
<1>3. \A t : Resting(t) = IF t = Ticker THEN Doing("tick", "idle", none) ELSE Doing("start", "idle", none)
  BY DEF Resting
<1> HIDE DEF none
<1>4. QED
  BY <1>1, <1>2, <1>3, DoingSound

\* Working off one item of `todo`, or the next step for it.
LEMMA NextStepSound ==
  ASSUME NEW r, SoundThread(r)
  PROVE  /\ \A i \in Items : r.pc \notin Aimed => SoundThread([r EXCEPT !.todo = @ \ {i}])
         /\ \A S \in SUBSET Items : SoundThread([r EXCEPT !.pc = "start", !.todo = S])
         /\ \A i \in Items, pc \in Aimed \ {"insert"} :
              SoundThread([[r EXCEPT !.todo = @ \ {i}] EXCEPT !.pc = pc, !.item = i])
         /\ \A pc \in Pcs : (pc \in Aimed => r.pc \in Aimed) /\ pc # "insert"
                            => SoundThread([r EXCEPT !.pc = pc])
         /\ \A pc \in Pcs \ Aimed : SoundThread([r EXCEPT !.pc = pc, !.item = NoItem])
         /\ SoundThread([r EXCEPT !.pc = "start", !.item = NoItem, !.job = 0])
         /\ \A j \in Jobs : r.pc = "spawn" => SoundThread([r EXCEPT !.pc = "insert", !.job = j])
<1>1. r \in ThreadRecords /\ 0 \in 0 .. MaxJobs /\ Jobs \subseteq 0 .. MaxJobs
  BY ManagerAssumption DEF SoundThread, Jobs
<1>2. Aimed \subseteq Pcs /\ "start" \in Pcs \ Aimed /\ "insert" \in Aimed /\ "spawn" \in Aimed
  BY DEF Aimed, Pcs
<1>3. QED
  BY <1>1, <1>2 DEF SoundThread, ThreadRecords

\* A step of a thread.
LEMMA GoSound ==
  ASSUME ThreadsSound, NEW t \in Threads, NEW r, SoundThread(r), Go(t, r)
  PROVE  ThreadsSound'
<1>1. thread' = [thread EXCEPT ![t] = r] /\ r \in ThreadRecords
  BY DEF Go, SoundThread
<1>2. thread' \in [Threads -> ThreadRecords]
  BY <1>1 DEF ThreadsSound
<1>3. \A u \in Threads : thread'[u] = IF u = t THEN r ELSE thread[u]
  BY <1>1 DEF ThreadsSound
<1>4. QED
  BY <1>2, <1>3 DEF ThreadsSound, SoundThread

-----------------------------------------------------------------------------
(***************************************************************************)
(* The commands and the tick.                                              *)
(***************************************************************************)
\* A step of a thread that leaves jobs and outcomes alone.
LEMMA ThreadMoves ==
  ASSUME ManagerInvariant, NEW t \in Threads, NEW r, SoundThread(r), Go(t, r),
         StoreTyped', ControlTyped', UNCHANGED << job, outcomes, handler >>
  PROVE  ManagerInvariant'
<1>1. ThreadsSound'
  BY GoSound DEF ManagerInvariant
<1>2. JobsSound' /\ OutcomesSound'
  BY DEF ManagerInvariant, JobsSound, OutcomesSound
<1>3. QED
  BY <1>1, <1>2 DEF ManagerInvariant

\* The same, when the step changes at most one item in memory.
LEMMA ThreadWrites ==
  ASSUME ManagerInvariant, NEW t \in Threads, NEW r, SoundThread(r), Go(t, r),
         \/ UNCHANGED << items, write >>
         \/ \E i \in Items, x \in Rows : WithItem(t, i, x),
         UNCHANGED << rows, dirty, jobs, job, outcomes, handler, saver, queue, commands >>,
         admission' \in Threads \cup {Nobody}
  PROVE  ManagerInvariant'
<1>1. StoreTyped /\ ControlTyped /\ t \in Actors
  BY DEF ManagerInvariant, Actors
<1>2. items' \in [Items -> Rows] /\ write' \in [Actors -> Copies]
  BY <1>1, WithItemTyped DEF StoreTyped
<1>3. StoreTyped'
  BY <1>1, <1>2 DEF StoreTyped
<1>4. ControlTyped'
  BY <1>1 DEF ControlTyped
<1>5. QED
  BY <1>3, <1>4, ThreadMoves

\* The user gives a command.
LEMMA BeginTyped ==
  ASSUME ManagerInvariant, NEW t \in Callers, NEW cmd \in Commands, NEW i \in Items,
         Begin(t, cmd, i)
  PROVE  ManagerInvariant'
<1> DEFINE none == {}
           one == {i}
<1>1. t \in Threads /\ StoreTyped /\ ControlTyped /\ cmd \in AllCommands
  BY ManagerAssumption DEF Threads, ManagerInvariant
<1>2. none \in SUBSET Items /\ one \in SUBSET Items /\ cmd \in AllCommands \cup {"tick"}
  BY <1>1
<1>3. StoreTyped'
  BY <1>1 DEF Begin, StoreTyped
<1>4. ControlTyped'
  <2>1. commands' \in 0 .. MaxCommands
    BY <1>1, ManagerAssumption DEF Begin, ControlTyped
  <2>2. queue' \in [running : BOOLEAN, busy : BOOLEAN]
    <3> DEFINE on == [running |-> TRUE, busy |-> TRUE]
               off == [running |-> FALSE, busy |-> FALSE]
    <3>1. on \in [running : BOOLEAN, busy : BOOLEAN] /\ off \in [running : BOOLEAN, busy : BOOLEAN]
      OBVIOUS
    <3>2. queue' = queue \/ queue' = on \/ queue' = off
      BY <1>1 DEF Begin, AllCommands
    <3> HIDE DEF on, off
    <3>3. QED
      BY <1>1, <3>1, <3>2 DEF ControlTyped
  <2>3. QED
    BY <1>1, <2>1, <2>2 DEF Begin, ControlTyped
<1>5. \E r : SoundThread(r) /\ Go(t, r)
  <2>1. /\ "start" \in Pcs \ Aimed /\ "pause" \in Pcs \ Aimed /\ "collect" \in Pcs \ Aimed
        /\ "stopCollect" \in Pcs \ Aimed /\ "cancel" \in Pcs /\ "cancel" # "insert"
    BY DEF Pcs, Aimed
  <2>2. /\ SoundThread(Doing(cmd, "start", one)) /\ SoundThread(Doing(cmd, "pause", one))
        /\ SoundThread(Doing(cmd, "collect", none)) /\ SoundThread(Doing(cmd, "stopCollect", none))
        /\ SoundThread([Doing(cmd, "cancel", none) EXCEPT !.item = i])
    BY <1>2, <2>1, DoingSound
  <2>3. \/ Go(t, Doing(cmd, "start", one)) \/ Go(t, Doing(cmd, "pause", one))
        \/ Go(t, Doing(cmd, "collect", none)) \/ Go(t, Doing(cmd, "stopCollect", none))
        \/ Go(t, [Doing(cmd, "cancel", none) EXCEPT !.item = i])
    BY <1>1 DEF Begin, AllCommands
  <2>4. QED
    BY <2>2, <2>3
<1>6. UNCHANGED << job, outcomes, handler >>
  BY DEF Begin
<1>7. QED
  BY <1>1, <1>3, <1>4, <1>5, <1>6, ThreadMoves

\* The looks, marks, pauses and waits of a thread, and what it writes for them.
LEMMA PlainStepsTyped ==
  ASSUME ManagerInvariant, NEW t \in Threads,
         \/ CheckItem(t) \/ MarkItem(t) \/ StartsDone(t) \/ Unqueue(t) \/ PausesDone(t)
         \/ ResetItem(t) \/ StartCollect(t) \/ Enqueue(t) \/ StopCollect(t) \/ Unwait(t)
         \/ Admit(t)
  PROVE  ManagerInvariant'
<1> DEFINE r == thread[t]
           none == {}
<1>1. /\ SoundThread(r) /\ r \in ThreadRecords /\ items \in [Items -> Rows] /\ none \in SUBSET Items
      /\ admission \in Threads \cup {Nobody} /\ Nobody \in Threads \cup {Nobody}
      /\ r.cmd \in AllCommands \cup {"tick"} /\ r.wait \in SUBSET Items /\ r.todo \in SUBSET Items
  BY DEF ManagerInvariant, ThreadsSound, StoreTyped, ControlTyped, SoundThread, ThreadRecords
<1>2. \A i \in Items : items[i] \in Rows /\ items[i].status \in Statuses
  BY <1>1, RowsTyped
<1>3. \A statuses : WithStatus(statuses) \in SUBSET Items
  BY DEF WithStatus
<1>4. CASE CheckItem(t)
  <2>1. PICK i \in r.todo :
          LET rest == [thread[t] EXCEPT !.todo = @ \ {i}]
          IN  Go(t, rest) \/ Go(t, [rest EXCEPT !.pc = "mark", !.item = i])
    BY <1>4 DEF CheckItem
  <2>2. r.pc \notin Aimed /\ "mark" \in Aimed \ {"insert"} /\ i \in Items
    BY <1>1, <1>4 DEF CheckItem, At, Aimed
  <2>3. /\ SoundThread([r EXCEPT !.todo = @ \ {i}])
        /\ SoundThread([[r EXCEPT !.todo = @ \ {i}] EXCEPT !.pc = "mark", !.item = i])
    <3> HIDE DEF r
    <3>1. QED
      BY <1>1, <2>2, NextStepSound
  <2>4. /\ UNCHANGED << items, rows, dirty, jobs, job, outcomes, handler, saver, write, queue,
                        commands >>
        /\ admission' \in Threads \cup {Nobody}
    BY <1>1, <1>4 DEF CheckItem
  <2>5. \E s : SoundThread(s) /\ Go(t, s)
    BY <2>1, <2>3
  <2>6. QED
    BY <2>4, <2>5, ThreadWrites
<1>5. CASE MarkItem(t) \/ Unqueue(t)
  <2>1. r.pc \in Aimed /\ r.item \in Items
    BY <1>1, <1>5 DEF MarkItem, Unqueue, At, Aimed, SoundThread
  <2>2. Go(t, [r EXCEPT !.pc = "spawn"]) \/ Go(t, [r EXCEPT !.pc = "pause", !.item = NoItem])
    BY <1>5 DEF MarkItem, Unqueue
  <2>3. "spawn" \in Pcs /\ "spawn" # "insert" /\ "pause" \in Pcs \ Aimed
    BY DEF Pcs, Aimed
  <2>4. SoundThread([r EXCEPT !.pc = "spawn"]) /\ SoundThread([r EXCEPT !.pc = "pause", !.item = NoItem])
    <3> HIDE DEF r
    <3>1. QED
      BY <1>1, <2>1, <2>3, NextStepSound
  <2>5. \E i \in Items, x \in Rows : WithItem(t, i, x)
    <3> DEFINE x == items[r.item]
    <3>1. /\ x \in Rows /\ x.status \in Statuses
      BY <1>2, <2>1
    <3>2. "active" \in Statuses /\ "paused" \in Statuses
      BY DEF Statuses
    <3>3. \A status \in Statuses : [x EXCEPT !.status = status] \in Rows
      <4> HIDE DEF x
      <4>1. QED
        BY <3>1, RowsTyped
    <3>4. \E status \in Statuses : WithItem(t, r.item, [x EXCEPT !.status = status])
      <4>1. CASE MarkItem(t)
        BY <3>2, <4>1 DEF MarkItem
      <4>2. CASE Unqueue(t)
        <5>1. (IF x.status = "queued" THEN "paused" ELSE x.status) \in Statuses
          BY <3>1, <3>2
        <5>2. WithItem(t, r.item, [x EXCEPT !.status = IF x.status = "queued" THEN "paused" ELSE x.status])
          BY <4>2 DEF Unqueue
        <5>3. QED
          BY <5>1, <5>2
      <4>3. QED
        BY <1>5, <4>1, <4>2
    <3>5. QED
      BY <2>1, <3>3, <3>4
  <2>6. /\ UNCHANGED << rows, dirty, jobs, job, outcomes, handler, saver, queue, commands >>
        /\ admission' \in Threads \cup {Nobody}
    BY <1>1, <1>5 DEF MarkItem, Unqueue
  <2>7. \E s : SoundThread(s) /\ Go(t, s)
    BY <2>2, <2>4
  <2>8. QED
    BY <2>5, <2>6, <2>7, ThreadWrites
<1>6. CASE StartsDone(t) \/ PausesDone(t) \/ StartCollect(t) \/ StopCollect(t) \/ Admit(t)
  <2>1. /\ "detect" \in Pcs \ Aimed /\ "unwait" \in Pcs \ Aimed /\ "enqueue" \in Pcs \ Aimed
        /\ "pause" \in Pcs \ Aimed
        /\ "tick" \in AllCommands \cup {"tick"} /\ "stopQueue" \in AllCommands \cup {"tick"}
        /\ "startQueue" \in AllCommands \cup {"tick"}
    BY DEF Pcs, Aimed, AllCommands
  <2>2. /\ SoundThread(Doing("tick", "detect", none)) /\ SoundThread(Resting(t))
        /\ SoundThread(Doing("stopQueue", "unwait", r.wait))
        /\ \A S \in SUBSET Items : SoundThread(Doing("startQueue", "enqueue", S))
        /\ \A S, wait \in SUBSET Items :
             SoundThread([Doing("stopQueue", "pause", S) EXCEPT !.wait = wait])
        /\ \A S \in SUBSET Items : SoundThread([r EXCEPT !.pc = "start", !.todo = S])
    <3> HIDE DEF r, none
    <3>1. QED
      BY <1>1, <2>1, RestingSound, DoingSound, NextStepSound
  <2>3. \/ Go(t, Doing("tick", "detect", none)) \/ Go(t, Resting(t))
        \/ Go(t, Doing("stopQueue", "unwait", r.wait))
        \/ \E S \in SUBSET Items : Go(t, Doing("startQueue", "enqueue", S))
        \/ \E S, wait \in SUBSET Items : Go(t, [Doing("stopQueue", "pause", S) EXCEPT !.wait = wait])
        \/ \E S \in SUBSET Items : Go(t, [r EXCEPT !.pc = "start", !.todo = S])
    <3>1. CASE StartsDone(t) \/ PausesDone(t)
      BY <3>1 DEF StartsDone, PausesDone
    <3>2. CASE StartCollect(t)
      BY <1>3, <3>2 DEF StartCollect
    <3>3. CASE StopCollect(t)
      BY <1>3, <3>3 DEF StopCollect
    <3>4. CASE Admit(t)
      <4>1. Admissible \subseteq SUBSET Items
        BY <1>1, <1>3 DEF Admissible
      <4>2. QED
        BY <3>4, <4>1 DEF Admit
    <3>5. QED
      BY <1>6, <3>1, <3>2, <3>3, <3>4
  <2>4. \E s : SoundThread(s) /\ Go(t, s)
    BY <2>2, <2>3
  <2>5. /\ UNCHANGED << items, rows, dirty, jobs, job, outcomes, handler, saver, write, queue,
                        commands >>
        /\ admission' \in Threads \cup {Nobody}
    BY <1>1, <1>6 DEF StartsDone, PausesDone, StartCollect, StopCollect, Admit
  <2>6. QED
    BY <2>4, <2>5, ThreadWrites
<1>7. CASE ResetItem(t)
  <2>1. r.item \in Items
    BY <1>1, <1>7 DEF ResetItem, At, Aimed, SoundThread
  <2> DEFINE one == {r.item}
  <2>2. SoundThread(Doing("redownload", "start", one)) /\ SoundThread(Resting(t))
    <3>1. /\ "start" \in Pcs \ Aimed /\ "redownload" \in AllCommands \cup {"tick"}
          /\ one \in SUBSET Items
      BY <2>1 DEF Pcs, Aimed, AllCommands
    <3> HIDE DEF one
    <3>2. QED
      BY <3>1, DoingSound, RestingSound
  <2>3. Go(t, Doing("redownload", "start", one)) \/ Go(t, Resting(t))
    BY <1>7 DEF ResetItem
  <2>4. \E s : SoundThread(s) /\ Go(t, s)
    BY <2>2, <2>3
  <2>5. \E i \in Items, x \in Rows : WithItem(t, i, x)
    <3>1. "idle" \in Statuses
      BY DEF Statuses
    <3>2. Row("idle", FALSE) \in Rows
      BY <3>1, RowsTyped
    <3>3. QED
      BY <1>7, <2>1, <3>2 DEF ResetItem
  <2>6. /\ UNCHANGED << rows, dirty, jobs, job, outcomes, handler, saver, queue, commands >>
        /\ admission' \in Threads \cup {Nobody}
    BY <1>1, <1>7 DEF ResetItem
  <2>7. QED
    BY <2>4, <2>5, <2>6, ThreadWrites
<1>8. CASE Enqueue(t) \/ Unwait(t)
  <2>1. r.pc \notin Aimed /\ "admit" \in Pcs \ Aimed
    BY <1>8 DEF Enqueue, Unwait, At, Aimed, Pcs
  <2>2. /\ SoundThread([r EXCEPT !.pc = "admit"]) /\ SoundThread(Resting(t))
        /\ \A i \in Items : SoundThread([r EXCEPT !.todo = @ \ {i}])
    <3> HIDE DEF r
    <3>1. QED
      BY <1>1, <2>1, NextStepSound, RestingSound
  <2>3. \/ /\ UNCHANGED << items, write >>
           /\ Go(t, [r EXCEPT !.pc = "admit"]) \/ Go(t, Resting(t))
        \/ \E i \in r.todo, status \in {"queued", "idle"} :
             /\ WithItem(t, i, [items[i] EXCEPT !.status = status])
             /\ Go(t, [r EXCEPT !.todo = @ \ {i}])
    BY <1>8 DEF Enqueue, Unwait
  <2>4. \A i \in Items, status \in {"queued", "idle"} : [items[i] EXCEPT !.status = status] \in Rows
    BY <1>2, RowsTyped DEF Statuses
  <2>5. /\ \E s : SoundThread(s) /\ Go(t, s)
        /\ \/ UNCHANGED << items, write >>
           \/ \E i \in Items, x \in Rows : WithItem(t, i, x)
    BY <1>1, <2>2, <2>3, <2>4
  <2>6. /\ UNCHANGED << rows, dirty, jobs, job, outcomes, handler, saver, queue, commands >>
        /\ admission' \in Threads \cup {Nobody}
    BY <1>1, <1>8 DEF Enqueue, Unwait
  <2>7. QED
    BY <2>5, <2>6, ThreadWrites
<1>9. QED
  BY <1>4, <1>5, <1>6, <1>7, <1>8

\* A job is started; the thread that started it puts it into the map.
LEMMA SpawnTyped ==
  ASSUME ManagerInvariant, NEW t \in Threads, SpawnJob(t)
  PROVE  ManagerInvariant'
<1> DEFINE r == thread[t]
           i == r.item
<1>1. /\ SoundThread(r) /\ i \in Items /\ r.pc = "spawn" /\ items[i] \in Rows
      /\ items[i].status \in Statuses /\ StoreTyped /\ ControlTyped
  <2>1. SoundThread(r) /\ r.pc = "spawn"
    BY DEF ManagerInvariant, ThreadsSound, SpawnJob, At
  <2>2. i \in Items
    BY <2>1 DEF SoundThread, Aimed
  <2>3. QED
    BY <2>1, <2>2, RowsTyped DEF ManagerInvariant, StoreTyped
<1>2. CASE job' = job
  <2>1. Go(t, [r EXCEPT !.pc = "start", !.item = NoItem]) \/ \E j \in Jobs : Go(t, [r EXCEPT !.pc = "insert", !.job = j])
    BY DEF SpawnJob
  <2>2. "start" \in Pcs \ Aimed
    BY DEF Pcs, Aimed
  <2>3. /\ SoundThread([r EXCEPT !.pc = "start", !.item = NoItem])
        /\ \A j \in Jobs : SoundThread([r EXCEPT !.pc = "insert", !.job = j])
    <3> HIDE DEF r
    <3>1. QED
      BY <1>1, <2>2, NextStepSound
  <2>4. \E s : SoundThread(s) /\ Go(t, s)
    BY <2>1, <2>3
  <2>5. \/ UNCHANGED << items, write >>
        \/ \E k \in Items, x \in Rows : WithItem(t, k, x)
    <3>1. "failed" \in Statuses
      BY DEF Statuses
    <3>2. [items[i] EXCEPT !.status = "failed"] \in Rows
      BY <1>1, <3>1, RowsTyped
    <3>3. QED
      BY <1>1, <3>2 DEF SpawnJob
  <2>6. /\ UNCHANGED << rows, dirty, jobs, job, outcomes, handler, saver, queue, commands >>
        /\ admission' \in Threads \cup {Nobody}
    BY <1>1, <1>2 DEF SpawnJob, ControlTyped
  <2>7. QED
    BY <2>4, <2>5, <2>6, ThreadWrites
<1>3. ASSUME NEW j \in Jobs, job[j].at = "none",
             job' = [job EXCEPT ![j] = [NoJob EXCEPT !.item = i, !.at = "running"]],
             Go(t, [r EXCEPT !.pc = "insert", !.job = j]), UNCHANGED << items, write >>
      PROVE  ManagerInvariant'
  <2> DEFINE x == [NoJob EXCEPT !.item = i, !.at = "running"]
  <2>1. x \in JobRecords /\ x.at = "running" /\ x.item = i
    BY <1>1 DEF NoJob, JobRecords, Results
  <2> HIDE DEF x
  <2>2. job' = [job EXCEPT ![j] = x] /\ job \in [Jobs -> JobRecords]
    BY <1>3 DEF x, ManagerInvariant, JobsSound
  <2>3. \A k \in Jobs : job'[k] = IF k = j THEN x ELSE job[k]
    BY <2>2
  <2>4. JobsSound'
    <3>1. job' \in [Jobs -> JobRecords]
      BY <2>1, <2>2
    <3>2. QED
      BY <1>1, <2>1, <2>3, <3>1 DEF ManagerInvariant, JobsSound
  <2>5. OutcomesSound'
    <3>1. UNCHANGED << outcomes, handler >>
      BY DEF SpawnJob
    <3>2. \A k \in DOMAIN outcomes : outcomes[k] \in Jobs
      BY DEF ManagerInvariant, OutcomesSound
    <3>3. QED
      BY <1>3, <2>3, <3>1, <3>2 DEF ManagerInvariant, OutcomesSound
  <2>6. ThreadsSound'
    <3>1. SoundThread([r EXCEPT !.pc = "insert", !.job = j])
      <4> HIDE DEF r
      <4>1. QED
        BY <1>1, NextStepSound
    <3>2. QED
      BY <1>3, <3>1, GoSound DEF ManagerInvariant
  <2>7. StoreTyped' /\ ControlTyped'
    BY <1>1, <1>3 DEF SpawnJob, StoreTyped, ControlTyped
  <2>8. QED
    BY <2>4, <2>5, <2>6, <2>7 DEF ManagerInvariant
<1>4. QED
  BY <1>2, <1>3 DEF SpawnJob

\* What a thread does to the map of jobs and to the list.
LEMMA MapStepsTyped ==
  ASSUME ManagerInvariant, NEW t \in Threads, InsertJob(t) \/ ForgetItem(t) \/ EraseRow(t)
  PROVE  ManagerInvariant'
<1> DEFINE r == thread[t]
<1>1. SoundThread(r) /\ r \in ThreadRecords /\ StoreTyped /\ ControlTyped
  BY DEF ManagerInvariant, ThreadsSound, SoundThread
<1>2. StoreTyped'
  BY <1>1, RowsTyped DEF InsertJob, ForgetItem, EraseRow, StoreTyped
<1>3. ControlTyped'
  <2>1. r.job \in 0 .. MaxJobs
    BY <1>1 DEF ThreadRecords
  <2>2. QED
    BY <1>1, <2>1 DEF InsertJob, ForgetItem, EraseRow, ControlTyped
<1>4. \E s : SoundThread(s) /\ Go(t, s)
  <2>1. ForgetItem(t) => r.pc \in Aimed /\ "erase" \in Pcs /\ "erase" # "insert"
    BY DEF ForgetItem, At, Aimed, Pcs
  <2>2. /\ SoundThread([r EXCEPT !.pc = "start", !.item = NoItem, !.job = 0])
        /\ ForgetItem(t) => SoundThread([r EXCEPT !.pc = "erase"])
        /\ SoundThread(Resting(t))
    <3> HIDE DEF r
    <3>1. QED
      BY <1>1, <2>1, NextStepSound, RestingSound
  <2>3. \/ Go(t, [r EXCEPT !.pc = "start", !.item = NoItem, !.job = 0])
        \/ ForgetItem(t) /\ Go(t, [r EXCEPT !.pc = "erase"])
        \/ Go(t, Resting(t))
    BY DEF InsertJob, ForgetItem, EraseRow
  <2>4. QED
    BY <2>2, <2>3
<1>5. UNCHANGED << job, outcomes, handler >>
  BY DEF InsertJob, ForgetItem, EraseRow
<1>6. QED
  BY <1>2, <1>3, <1>4, <1>5, ThreadMoves

\* A job that is asked to stop, or one that has nothing to stop, is the same job.
SameJobs ==
  /\ job' \in [Jobs -> JobRecords]
  /\ \A j \in Jobs : job'[j].at = job[j].at /\ job'[j].item = job[j].item /\ job'[j].result = job[j].result

\* A request to stop changes nothing but the request.
LEMMA StoppedSame ==
  ASSUME ManagerInvariant, NEW j, NEW stop \in {"pause", "cancel"}, job' = Stopped(j, stop)
  PROVE  SameJobs
<1> DEFINE x == [job[j] EXCEPT !.stop = IF @ = "cancel" THEN @ ELSE stop]
<1>1. job \in [Jobs -> JobRecords] /\ job' = [job EXCEPT ![j] = x]
  BY DEF ManagerInvariant, JobsSound, Stopped
<1>2. j \in Jobs => /\ x \in JobRecords
                    /\ x.at = job[j].at /\ x.item = job[j].item /\ x.result = job[j].result
  BY <1>1 DEF JobRecords
<1> HIDE DEF x
<1>3. \A k \in Jobs : job'[k] = IF k = j THEN x ELSE job[k]
  BY <1>1
<1>4. QED
  BY <1>1, <1>2, <1>3 DEF SameJobs

\* What was sent stays sent.
LEMMA SameJobsSound ==
  ASSUME ManagerInvariant, SameJobs, UNCHANGED << outcomes, handler >>
  PROVE  JobsSound' /\ OutcomesSound'
<1>1. \A k \in DOMAIN outcomes : outcomes[k] \in Jobs
  BY DEF ManagerInvariant, OutcomesSound
<1>2. JobsSound'
  BY DEF ManagerInvariant, JobsSound, SameJobs
<1>3. OutcomesSound'
  BY <1>1 DEF ManagerInvariant, OutcomesSound, SameJobs
<1>4. QED
  BY <1>2, <1>3

\* Pausing an item and cancelling its job.
LEMMA StopStepsTyped ==
  ASSUME ManagerInvariant, NEW t \in Threads, PauseItem(t) \/ CancelJob(t)
  PROVE  ManagerInvariant'
<1> DEFINE r == thread[t]
<1>1. SoundThread(r) /\ r \in ThreadRecords /\ StoreTyped /\ ControlTyped
  BY DEF ManagerInvariant, ThreadsSound, SoundThread
<1>2. SameJobs /\ UNCHANGED << outcomes, handler >>
  <2>1. job' = job \/ \E j : job' = Stopped(j, "pause") \/ job' = Stopped(j, "cancel")
    BY DEF PauseItem, CancelJob
  <2>2. job' = job => SameJobs
    BY DEF SameJobs, ManagerInvariant, JobsSound
  <2>3. QED
    BY <2>1, <2>2, StoppedSame DEF PauseItem, CancelJob
<1>3. JobsSound' /\ OutcomesSound'
  BY <1>2, SameJobsSound
<1>4. StoreTyped'
  BY <1>1 DEF PauseItem, CancelJob, StoreTyped
<1>5. ControlTyped'
  <2>1. jobs' = jobs \/ jobs' = [jobs EXCEPT ![r.item] = 0]
    BY DEF PauseItem, CancelJob
  <2>2. 0 \in 0 .. MaxJobs
    BY ManagerAssumption
  <2>3. jobs' \in [Items -> 0 .. MaxJobs]
    BY <1>1, <2>1, <2>2 DEF ControlTyped
  <2>4. UNCHANGED << saver, admission, queue, commands >>
    BY DEF PauseItem, CancelJob
  <2>5. QED
    BY <1>1, <2>3, <2>4 DEF ControlTyped
<1>6. \E s : SoundThread(s) /\ Go(t, s)
  <2>1. CASE PauseItem(t)
    <3>1. PICK i \in r.todo :
            LET rest == [thread[t] EXCEPT !.todo = @ \ {i}]
            IN  Go(t, rest) \/ Go(t, [rest EXCEPT !.pc = "unqueue", !.item = i])
      BY <2>1 DEF PauseItem
    <3>2. r.pc \notin Aimed /\ "unqueue" \in Aimed \ {"insert"} /\ i \in Items
      BY <1>1, <2>1 DEF PauseItem, At, Aimed, ThreadRecords
    <3>3. /\ SoundThread([r EXCEPT !.todo = @ \ {i}])
          /\ SoundThread([[r EXCEPT !.todo = @ \ {i}] EXCEPT !.pc = "unqueue", !.item = i])
      <4> HIDE DEF r
      <4>1. QED
        BY <1>1, <3>2, NextStepSound
    <3>4. QED
      BY <3>1, <3>3
  <2>2. CASE CancelJob(t)
    <3>1. r.pc \in Aimed /\ "forget" \in Pcs /\ "reset" \in Pcs /\ "forget" # "insert" /\ "reset" # "insert"
      BY <2>2 DEF CancelJob, At, Aimed, Pcs
    <3>2. SoundThread([r EXCEPT !.pc = "forget"]) /\ SoundThread([r EXCEPT !.pc = "reset"])
      <4> HIDE DEF r
      <4>1. QED
        BY <1>1, <3>1, NextStepSound
    <3>3. Go(t, [r EXCEPT !.pc = "forget"]) \/ Go(t, [r EXCEPT !.pc = "reset"])
      BY <2>2 DEF CancelJob
    <3>4. QED
      BY <3>2, <3>3
  <2>3. QED
    BY <2>1, <2>2
<1>7. ThreadsSound'
  BY <1>6, GoSound DEF ManagerInvariant
<1>8. QED
  BY <1>3, <1>4, <1>5, <1>7 DEF ManagerInvariant

-----------------------------------------------------------------------------
(***************************************************************************)
(* The jobs and the tasks.                                                 *)
(***************************************************************************)
LEMMA TickerTyped ==
  ASSUME ManagerInvariant, BeginTick \/ Detect
  PROVE  ManagerInvariant'
<1> DEFINE none == {}
<1>1. Ticker \in Threads /\ StoreTyped /\ ControlTyped
  BY DEF Threads, ManagerInvariant
<1>2. \E s : SoundThread(s) /\ Go(Ticker, s)
  <2>1. "admit" \in Pcs \ Aimed /\ "tick" \in AllCommands \cup {"tick"} /\ none \in SUBSET Items
    BY DEF Pcs, Aimed
  <2>2. SoundThread(Doing("tick", "admit", none)) /\ SoundThread(Resting(Ticker))
    <3> HIDE DEF none
    <3>1. QED
      BY <2>1, DoingSound, RestingSound
  <2>3. Go(Ticker, Doing("tick", "admit", none)) \/ Go(Ticker, Resting(Ticker))
    BY DEF BeginTick, Detect
  <2>4. QED
    BY <2>2, <2>3
<1>3. StoreTyped'
  BY <1>1 DEF BeginTick, Detect, StoreTyped
<1>4. ControlTyped'
  <2> DEFINE off == [running |-> FALSE, busy |-> FALSE]
  <2>1. off \in [running : BOOLEAN, busy : BOOLEAN] /\ queue \in [running : BOOLEAN, busy : BOOLEAN]
    BY <1>1 DEF ControlTyped
  <2>2. queue' = queue \/ queue' = off
    BY DEF BeginTick, Detect
  <2> HIDE DEF off
  <2>3. queue' \in [running : BOOLEAN, busy : BOOLEAN]
    BY <2>1, <2>2
  <2>4. UNCHANGED << jobs, saver, admission, commands >>
    BY DEF BeginTick, Detect
  <2>5. QED
    BY <1>1, <2>3, <2>4 DEF ControlTyped
<1>5. UNCHANGED << job, outcomes, handler >>
  BY DEF BeginTick, Detect
<1>6. QED
  BY <1>1, <1>2, <1>3, <1>4, <1>5, ThreadMoves

\* A step that leaves the threads, the jobs and the outcomes alone.
LEMMA StoreMoves ==
  ASSUME ManagerInvariant, StoreTyped', ControlTyped',
         UNCHANGED << thread, job, outcomes, handler >>
  PROVE  ManagerInvariant'
BY DEF ManagerInvariant, ThreadsSound, JobsSound, OutcomesSound

\* A copy reaches the database.
LEMMA PersistTyped ==
  ASSUME ManagerInvariant, NEW a \in Actors, Persist(a)
  PROVE  ManagerInvariant'
<1>1. StoreTyped /\ write[a] \in Copies /\ NoWrite \in Copies
  BY CopiesTyped DEF ManagerInvariant, StoreTyped
<1>2. Upserted(write[a]) \in [Items -> Rows]
  <2>1. PICK S \in SUBSET Items : write[a] \in [S -> Rows]
    BY <1>1 DEF Copies
  <2>2. \A i \in Items : rows[i] \in Rows /\ (i \in DOMAIN write[a] => write[a][i] \in Rows)
    BY <1>1, <2>1 DEF StoreTyped
  <2>3. QED
    BY <2>2 DEF Upserted
<1>3. StoreTyped'
  BY <1>1, <1>2 DEF Persist, StoreTyped
<1>4. ControlTyped'
  BY DEF Persist, ManagerInvariant, ControlTyped
<1>5. QED
  BY <1>3, <1>4, StoreMoves DEF Persist

\* The progress tick and the checkpoint.
LEMMA TasksTyped ==
  ASSUME ManagerInvariant, Tick \/ SaverBegin \/ SaverAnswer \/ SaverCollect
  PROVE  ManagerInvariant'
<1>1. StoreTyped /\ ControlTyped /\ \A i \in Items : items[i] \in Rows
  BY DEF ManagerInvariant, StoreTyped
<1>2. /\ \A x \in Rows : [x EXCEPT !.status = "active"] \in Rows /\ [x EXCEPT !.resume = TRUE] \in Rows
  BY RowsTyped DEF Statuses
<1>3. StoreTyped'
  <2>1. CASE Tick
    <3>1. items' \in [Items -> Rows]
      BY <1>1, <1>2, <2>1 DEF Tick
    <3>2. dirty' \in SUBSET Items
      BY <1>1, <2>1 DEF Tick, StoreTyped, Mapped
    <3>3. QED
      BY <1>1, <2>1, <3>1, <3>2 DEF Tick, StoreTyped
  <2>2. CASE SaverBegin
    BY <1>1, <2>2 DEF SaverBegin, StoreTyped
  <2>3. CASE SaverAnswer
    <3>1. items' = items \/ \E i : items' = [items EXCEPT ![i].resume = TRUE]
      BY <2>3 DEF SaverAnswer
    <3>2. items' \in [Items -> Rows]
      <4>1. items \in [Items -> Rows]
        BY <1>1 DEF StoreTyped
      <4>2. ASSUME NEW i, items' = [items EXCEPT ![i].resume = TRUE]
            PROVE  items' \in [Items -> Rows]
        <5> DEFINE x == [items[i] EXCEPT !.resume = TRUE]
        <5>1. i \in Items => x \in Rows
          BY <1>1, <1>2
        <5>2. items' = [items EXCEPT ![i] = x]
          BY <4>2
        <5> HIDE DEF x
        <5>3. QED
          BY <4>1, <5>1, <5>2
      <4>3. QED
        BY <3>1, <4>1, <4>2
    <3>3. QED
      BY <1>1, <2>3, <3>2 DEF SaverAnswer, StoreTyped
  <2>4. CASE SaverCollect
    <3> DEFINE S == {k \in dirty : Present(k)}
               copies == [i \in S |-> items[i]]
    <3>1. S \in SUBSET Items
      BY <1>1 DEF StoreTyped
    <3>2. copies \in [S -> Rows]
      BY <1>1, <3>1
    <3> HIDE DEF S
    <3>3. copies \in Copies
      BY <3>1, <3>2 DEF Copies
    <3>4. write' = [write EXCEPT ![Saver] = copies] /\ dirty' = {} /\ items' = items /\ rows' = rows
      BY <2>4 DEF SaverCollect, S
    <3> HIDE DEF copies
    <3>5. QED
      BY <1>1, <3>3, <3>4 DEF StoreTyped
  <2>5. QED
    BY <2>1, <2>2, <2>3, <2>4
<1>4. ControlTyped'
  <2>1. saver' \in [pc : {"idle", "ask"}, todo : SUBSET Items, taken : 0 .. MaxCheckpoints]
    <3>1. saver \in [pc : {"idle", "ask"}, todo : SUBSET Items, taken : 0 .. MaxCheckpoints]
      BY <1>1 DEF ControlTyped
    <3>2. CASE SaverBegin
      <4>1. Mapped \in SUBSET Items /\ saver.taken + 1 \in 0 .. MaxCheckpoints
        BY <3>1, <3>2, ManagerAssumption DEF SaverBegin, Mapped
      <4>2. QED
        BY <3>2, <4>1 DEF SaverBegin
    <3>3. CASE Tick \/ SaverAnswer \/ SaverCollect
      BY <3>1, <3>3 DEF Tick, SaverAnswer, SaverCollect
    <3>4. QED
      BY <3>2, <3>3
  <2>2. UNCHANGED << jobs, admission, queue, commands >>
    BY DEF Tick, SaverBegin, SaverAnswer, SaverCollect
  <2>3. QED
    BY <1>1, <2>1, <2>2 DEF ControlTyped
<1>5. UNCHANGED << thread, job, outcomes, handler >>
  BY DEF Tick, SaverBegin, SaverAnswer, SaverCollect
<1>6. QED
  BY <1>3, <1>4, <1>5, StoreMoves

\* A job ends, and may store the name it learnt.
LEMMA JobEndsTyped ==
  ASSUME ManagerInvariant, NEW j \in Jobs, JobEnds(j)
  PROVE  ManagerInvariant'
<1>1. PICK res \in ResultsOf(job[j].stop) :
        job' = [job EXCEPT ![j].at = "reporting", ![j].result = res]
  BY DEF JobEnds
<1> DEFINE x == [job[j] EXCEPT !.at = "reporting", !.result = res]
<1>2. job \in [Jobs -> JobRecords] /\ job[j] \in JobRecords /\ job[j].at = "running"
  BY DEF JobEnds, Running, ManagerInvariant, JobsSound
<1>3. res \in {"completed", "failed", "paused", "cancelled"}
  BY <1>2 DEF ResultsOf, JobRecords
<1>4. x \in JobRecords /\ x.at = "reporting" /\ x.item = job[j].item /\ x.result = res
  BY <1>2, <1>3 DEF JobRecords, Results
<1>5. job' = [job EXCEPT ![j] = x]
  BY <1>1, <1>2
<1> HIDE DEF x
<1>6. \A k \in Jobs : job'[k] = IF k = j THEN x ELSE job[k]
  BY <1>2, <1>5
<1>7. JobsSound'
  <2>1. job' \in [Jobs -> JobRecords]
    BY <1>2, <1>4, <1>5
  <2>2. QED
    BY <1>2, <1>3, <1>4, <1>6, <2>1 DEF ManagerInvariant, JobsSound
<1>8. OutcomesSound'
  <2>1. UNCHANGED << outcomes, handler >> /\ \A k \in DOMAIN outcomes : outcomes[k] \in Jobs
    BY DEF JobEnds, ManagerInvariant, OutcomesSound
  <2>2. QED
    BY <1>2, <1>6, <2>1 DEF ManagerInvariant, OutcomesSound
<1>9. StoreTyped'
  <2>1. StoreTyped /\ j \in Actors /\ job[j].item \in Items /\ items[job[j].item] \in Rows
    BY <1>2 DEF ManagerInvariant, JobsSound, StoreTyped, Actors
  <2>2. items' \in [Items -> Rows] /\ write' \in [Actors -> Copies]
    BY <2>1, WithItemTyped DEF JobEnds, StoreTyped
  <2>3. QED
    BY <2>1, <2>2 DEF JobEnds, StoreTyped
<1>10. ControlTyped' /\ ThreadsSound'
  BY DEF JobEnds, ManagerInvariant, ControlTyped, ThreadsSound
<1>11. QED
  BY <1>7, <1>8, <1>9, <1>10 DEF ManagerInvariant

\* An outcome is sent by a job that had sent none.
LEMMA JobReportsTyped ==
  ASSUME ManagerInvariant, NEW j \in Jobs, JobReports(j)
  PROVE  ManagerInvariant'
<1> DEFINE x == [job[j] EXCEPT !.at = "sent"]
<1>1. /\ job \in [Jobs -> JobRecords] /\ job[j] \in JobRecords /\ job[j].at = "reporting"
      /\ job' = [job EXCEPT ![j] = x] /\ outcomes' = Append(outcomes, j) /\ outcomes \in Seq(Jobs)
  BY DEF JobReports, ManagerInvariant, JobsSound, OutcomesSound
<1>2. x \in JobRecords /\ x.at = "sent" /\ x.item = job[j].item /\ x.result = job[j].result
  BY <1>1 DEF JobRecords
<1> HIDE DEF x
<1>3. \A k \in Jobs : job'[k] = IF k = j THEN x ELSE job[k]
  BY <1>1
<1>4. JobsSound'
  <2>1. job' \in [Jobs -> JobRecords]
    BY <1>1, <1>2
  <2>2. QED
    BY <1>1, <1>2, <1>3, <2>1 DEF ManagerInvariant, JobsSound
<1>5. OutcomesSound'
  <2>1. /\ outcomes' \in Seq(Jobs) /\ DOMAIN outcomes' = DOMAIN outcomes \cup {Len(outcomes) + 1}
        /\ outcomes'[Len(outcomes) + 1] = j
        /\ \A k \in DOMAIN outcomes : outcomes'[k] = outcomes[k] /\ outcomes[k] \in Jobs
    BY <1>1
  <2>2. \A k \in DOMAIN outcomes : job[outcomes[k]].at = "sent" /\ outcomes[k] # j
    BY <1>1 DEF ManagerInvariant, OutcomesSound
  <2>3. \A k \in DOMAIN outcomes' : job'[outcomes'[k]].at = "sent"
    BY <1>2, <1>3, <2>1, <2>2
  <2>4. \A k, m \in DOMAIN outcomes' : outcomes'[k] = outcomes'[m] => k = m
    BY <2>1, <2>2 DEF ManagerInvariant, OutcomesSound
  <2>5. handler' = handler /\ (handler.pc # "idle" => handler.job \in Jobs /\ job'[handler.job].at = "sent")
    BY <1>1, <1>3 DEF JobReports, ManagerInvariant, OutcomesSound
  <2>6. QED
    BY <2>1, <2>3, <2>4, <2>5 DEF ManagerInvariant, OutcomesSound
<1>6. StoreTyped' /\ ControlTyped' /\ ThreadsSound'
  BY DEF JobReports, ManagerInvariant, StoreTyped, ControlTyped, ThreadsSound
<1>7. QED
  BY <1>4, <1>5, <1>6 DEF ManagerInvariant

\* The handler takes the oldest outcome; the others stay in the channel.
LEMMA HandlerTakeTyped ==
  ASSUME ManagerInvariant, HandlerTake
  PROVE  ManagerInvariant'
<1> DEFINE j == Head(outcomes)
           settle == [pc |-> "settle", job |-> j]
<1>1. /\ outcomes \in Seq(Jobs) /\ outcomes # << >> /\ outcomes' = Tail(outcomes)
      /\ handler' = settle /\ jobs' = [jobs EXCEPT ![job[j].item] = 0] /\ job' = job
  BY DEF HandlerTake, ManagerInvariant, OutcomesSound
<1>2. /\ 1 \in DOMAIN outcomes /\ j = outcomes[1] /\ j \in Jobs
      /\ outcomes' \in Seq(Jobs)
      /\ \A k \in DOMAIN outcomes' : k + 1 \in DOMAIN outcomes /\ outcomes'[k] = outcomes[k + 1] /\ k \in Int
  BY <1>1
<1>3. job[j].at = "sent"
  BY <1>2 DEF ManagerInvariant, OutcomesSound
<1>4. OutcomesSound'
  <2>1. \A k \in DOMAIN outcomes' : job'[outcomes'[k]].at = "sent"
    BY <1>1, <1>2 DEF ManagerInvariant, OutcomesSound
  <2>2. \A k, m \in DOMAIN outcomes' : outcomes'[k] = outcomes'[m] => k = m
    <3>1. ASSUME NEW k \in DOMAIN outcomes', NEW m \in DOMAIN outcomes', outcomes'[k] = outcomes'[m]
          PROVE  k = m
      <4>1. k + 1 = m + 1
        BY <1>2, <3>1 DEF ManagerInvariant, OutcomesSound
      <4>2. QED
        BY <1>2, <4>1
    <3>2. QED
      BY <3>1
  <2>3. settle \in [pc : {"idle", "settle", "scan", "last"}, job : 0 .. MaxJobs] /\ settle.job = j
    BY <1>2 DEF Jobs
  <2> HIDE DEF settle, j
  <2>4. QED
    BY <1>1, <1>2, <1>3, <2>1, <2>2, <2>3 DEF OutcomesSound
<1>5. ControlTyped'
  <2>1. jobs' \in [Items -> 0 .. MaxJobs]
    <3>1. jobs \in [Items -> 0 .. MaxJobs] /\ 0 \in 0 .. MaxJobs
      BY ManagerAssumption DEF ManagerInvariant, ControlTyped
    <3>2. PICK i : jobs' = [jobs EXCEPT ![i] = 0]
      BY <1>1
    <3>3. QED
      BY <3>1, <3>2
  <2>2. QED
    BY <2>1 DEF HandlerTake, ManagerInvariant, ControlTyped
<1>6. StoreTyped' /\ ThreadsSound' /\ JobsSound'
  BY DEF HandlerTake, ManagerInvariant, StoreTyped, ThreadsSound, JobsSound
<1>7. QED
  BY <1>4, <1>5, <1>6 DEF ManagerInvariant

\* Settling, the virus scan, and the last write all work on the item of a job that ended.
LEMMA HandlerWritesTyped ==
  ASSUME ManagerInvariant, HandlerSettle \/ HandlerScanned \/ HandlerLast
  PROVE  ManagerInvariant'
<1> DEFINE j == handler.job
           i == job[j].item
           x == items[i]
           Handlers == [pc : {"idle", "settle", "scan", "last"}, job : 0 .. MaxJobs]
<1>1. /\ handler \in Handlers /\ j \in Jobs /\ job[j].at = "sent"
      /\ UNCHANGED << rows, dirty, jobs, job, outcomes, saver, thread, admission, queue, commands >>
  BY DEF HandlerSettle, HandlerScanned, HandlerLast, HandlerAt, ManagerInvariant, OutcomesSound
<1>2. i \in Items /\ job[j].result \in {"completed", "failed", "paused", "cancelled"}
  BY <1>1 DEF ManagerInvariant, JobsSound, JobRecords, Results
<1>3. /\ StoreTyped /\ Handler \in Actors /\ x \in Rows
      /\ x.status \in Statuses /\ x.resume \in BOOLEAN
  BY <1>2, RowsTyped DEF ManagerInvariant, StoreTyped, Actors
<1>4. \E new \in Rows : WithItem(Handler, i, new)
  <2>1. CASE HandlerSettle
    <3>1. PICK resume \in BOOLEAN : WithItem(Handler, i, Settled(x, job[j].result, resume))
      BY <2>1 DEF HandlerSettle
    <3>2. Settled(x, job[j].result, resume) \in Rows
      <4>1. {"active", "completed", "paused", "failed"} \subseteq Statuses
        BY DEF Statuses
      <4> HIDE DEF x
      <4>2. x.resume \/ resume \in BOOLEAN
        BY <1>3
      <4>3. (IF x.status = "completed" THEN "completed" ELSE "paused") \in Statuses
        BY <4>1
      <4>4. /\ Row("active", FALSE) \in Rows
            /\ Row(IF x.status = "completed" THEN "completed" ELSE "paused", x.resume \/ resume) \in Rows
            /\ Row("failed", x.resume \/ resume) \in Rows
        BY <4>1, <4>2, <4>3 DEF Row, Rows
      <4>5. QED
        BY <1>2, <1>3, <4>4 DEF Settled
    <3>3. QED
      BY <3>1, <3>2
  <2>2. CASE HandlerScanned
    <3>1. PICK status \in {"completed", "failed"} : WithItem(Handler, i, [x EXCEPT !.status = status])
      BY <2>2 DEF HandlerScanned
    <3>2. [x EXCEPT !.status = status] \in Rows
      BY <1>3, RowsTyped DEF Statuses
    <3>3. QED
      BY <3>1, <3>2
  <2>3. CASE HandlerLast
    BY <1>3, <2>3 DEF HandlerLast
  <2>4. QED
    BY <2>1, <2>2, <2>3
<1>5. StoreTyped'
  <2>1. items' \in [Items -> Rows] /\ write' \in [Actors -> Copies]
    BY <1>2, <1>3, <1>4, WithItemTyped
  <2>2. QED
    BY <1>1, <1>3, <2>1 DEF StoreTyped
<1>6. handler' \in Handlers /\ (handler'.pc # "idle" => handler'.job = j)
  <2> DEFINE done == [pc |-> "idle", job |-> 0]
  <2>1. done \in Handlers /\ done.pc = "idle"
    BY ManagerAssumption
  <2>2. \/ handler' = done
        \/ handler' = [handler EXCEPT !.pc = "scan"]
        \/ handler' = [handler EXCEPT !.pc = "last"]
    BY DEF HandlerSettle, HandlerScanned, HandlerLast
  <2> HIDE DEF done
  <2>3. QED
    BY <1>1, <2>1, <2>2
<1>7. OutcomesSound'
  <2> HIDE DEF j
  <2>1. QED
    BY <1>1, <1>6 DEF ManagerInvariant, OutcomesSound
<1>8. ControlTyped' /\ ThreadsSound' /\ JobsSound'
  BY <1>1 DEF ManagerInvariant, ControlTyped, ThreadsSound, JobsSound
<1>9. QED
  BY <1>5, <1>7, <1>8 DEF ManagerInvariant

-----------------------------------------------------------------------------
(***************************************************************************)
(* The invariant.                                                          *)
(***************************************************************************)
LEMMA ManagerInit ==
  ASSUME Init
  PROVE  ManagerInvariant
<1> DEFINE idle == Row("idle", FALSE)
           rest == [pc |-> "idle", job |-> 0]
           asleep == [pc |-> "idle", todo |-> {}, taken |-> 0]
           off == [running |-> FALSE, busy |-> FALSE]
<1>1. /\ idle \in Rows
      /\ rest \in [pc : {"idle", "settle", "scan", "last"}, job : 0 .. MaxJobs] /\ rest.pc = "idle"
      /\ asleep \in [pc : {"idle", "ask"}, todo : SUBSET Items, taken : 0 .. MaxCheckpoints]
      /\ off \in [running : BOOLEAN, busy : BOOLEAN]
  <2>1. idle \in Rows
    BY RowsTyped DEF Statuses
  <2>2. 0 \in 0 .. MaxJobs /\ 0 \in 0 .. MaxCheckpoints
    BY ManagerAssumption
  <2>3. QED
    BY <2>1, <2>2
<1>2. /\ items = [i \in Items |-> idle] /\ rows = items /\ dirty = {}
      /\ write = [a \in Actors |-> NoWrite] /\ jobs = [i \in Items |-> 0]
      /\ job = [j \in Jobs |-> NoJob] /\ outcomes = << >> /\ handler = rest /\ saver = asleep
      /\ thread = [t \in Threads |-> Resting(t)] /\ admission = Nobody /\ queue = off /\ commands = 0
  BY DEF Init
<1> HIDE DEF idle, rest, asleep, off
<1>3. StoreTyped
  BY <1>1, <1>2, CopiesTyped DEF StoreTyped
<1>4. ControlTyped
  BY <1>1, <1>2, ManagerAssumption DEF ControlTyped
<1>5. ThreadsSound
  <2>1. \A t \in Threads : SoundThread(Resting(t)) /\ Resting(t) \in ThreadRecords
    BY RestingSound DEF SoundThread
  <2>2. thread \in [Threads -> ThreadRecords] /\ \A t \in Threads : thread[t] = Resting(t)
    BY <1>2, <2>1
  <2>3. QED
    BY <2>1, <2>2 DEF ThreadsSound
<1>6. JobsSound
  <2>1. NoJob \in JobRecords /\ NoJob.at = "none"
    BY DEF NoJob, JobRecords, Results
  <2> HIDE DEF NoJob
  <2>2. QED
    BY <1>2, <2>1 DEF JobsSound
<1>7. OutcomesSound
  BY <1>1, <1>2 DEF OutcomesSound
<1>8. QED
  BY <1>3, <1>4, <1>5, <1>6, <1>7 DEF ManagerInvariant

\* Every step keeps what the manager points at.
LEMMA ManagerStep ==
  ASSUME ManagerInvariant, [Next]_vars
  PROVE  ManagerInvariant'
<1>1. CASE UNCHANGED vars
  BY <1>1 DEF vars, ManagerInvariant, StoreTyped, ControlTyped, ThreadsSound, JobsSound, OutcomesSound
<1>2. ASSUME NEW t \in Callers, NEW cmd \in Commands, NEW i \in Items, Begin(t, cmd, i)
      PROVE  ManagerInvariant'
  BY <1>2, BeginTyped
<1>3. ASSUME NEW t \in Threads, ThreadStep(t)
      PROVE  ManagerInvariant'
  BY <1>3, PlainStepsTyped, SpawnTyped, MapStepsTyped, StopStepsTyped DEF ThreadStep
<1>4. ASSUME NEW j \in Jobs, JobEnds(j) \/ JobReports(j)
      PROVE  ManagerInvariant'
  BY <1>4, JobEndsTyped, JobReportsTyped
<1>5. ASSUME NEW a \in Actors, Persist(a)
      PROVE  ManagerInvariant'
  BY <1>5, PersistTyped
<1>6. CASE BeginTick \/ Detect \/ HandlerStep \/ Tick \/ SaverBegin \/ SaverAnswer \/ SaverCollect
  BY <1>6, TickerTyped, HandlerTakeTyped, HandlerWritesTyped, TasksTyped DEF HandlerStep
<1>7. QED
  BY <1>1, <1>2, <1>3, <1>4, <1>5, <1>6 DEF Next

\* A channel that holds each job at most once holds no more outcomes than there are jobs.
LEMMA ChannelBounded ==
  ASSUME OutcomesSound
  PROVE  Len(outcomes) <= MaxJobs
<1>1. /\ outcomes \in Seq(Jobs) /\ outcomes \in [1 .. Len(outcomes) -> Jobs] /\ Len(outcomes) \in Nat
      /\ DOMAIN outcomes = 1 .. Len(outcomes)
  BY DEF OutcomesSound
<1>2. /\ IsFiniteSet(1 .. Len(outcomes)) /\ Cardinality(1 .. Len(outcomes)) = Len(outcomes)
      /\ IsFiniteSet(Jobs) /\ Cardinality(Jobs) = MaxJobs
  <2>1. /\ IsFiniteSet(1 .. Len(outcomes))
        /\ Cardinality(1 .. Len(outcomes)) = IF 1 > Len(outcomes) THEN 0 ELSE Len(outcomes) - 1 + 1
    BY <1>1, FS_Interval
  <2>2. /\ IsFiniteSet(1 .. MaxJobs)
        /\ Cardinality(1 .. MaxJobs) = IF 1 > MaxJobs THEN 0 ELSE MaxJobs - 1 + 1
    BY ManagerAssumption, FS_Interval
  <2>3. QED
    BY <1>1, <2>1, <2>2, ManagerAssumption DEF Jobs
<1>3. ASSUME Len(outcomes) > MaxJobs
      PROVE  FALSE
  <2>1. \E k, m \in 1 .. Len(outcomes) : k # m /\ outcomes[k] = outcomes[m]
    BY <1>1, <1>2, <1>3, FS_PigeonHole
  <2>2. QED
    BY <1>1, <2>1 DEF OutcomesSound
<1>4. QED
  BY <1>1, <1>3, ManagerAssumption

\* What threads, the handler and the channel point at is there, in every state.
THEOREM ManagerInvariantHolds == Spec => []ManagerInvariant
<1>1. Init => ManagerInvariant
  BY ManagerInit
<1>2. ManagerInvariant /\ [Next]_vars => ManagerInvariant'
  BY ManagerStep
<1>3. QED
  BY <1>1, <1>2, PTL DEF Spec

\* Every variable keeps its type, whatever is asked of the manager and in whatever order its
\* threads and tasks interleave; the channel of outcomes never holds more than one outcome of
\* a job, so the handler settles each job once.
THEOREM ManagerTypeCorrect == Spec => []TypeOK
<1>1. ManagerInvariant => TypeOK
  <2> SUFFICES ASSUME ManagerInvariant
               PROVE  TypeOK
    OBVIOUS
  <2>1. \A a \in Actors : \E S \in SUBSET Items : write[a] \in [S -> Rows]
    BY DEF ManagerInvariant, StoreTyped, Copies
  <2>2. Len(outcomes) <= MaxJobs
    BY ChannelBounded DEF ManagerInvariant
  <2>3. QED
    BY <2>1, <2>2 DEF TypeOK, ManagerInvariant, StoreTyped, ControlTyped, ThreadsSound, JobsSound,
       OutcomesSound
<1>2. QED
  BY <1>1, ManagerInvariantHolds, PTL

-----------------------------------------------------------------------------
(***************************************************************************)
(* Which items are there.                                                  *)
(***************************************************************************)
\* with_item writes nothing into the place of an item that is gone.
LEMMA WithItemPresence ==
  ASSUME ManagerInvariant, NEW a, NEW k, NEW new, WithItem(a, k, new),
         Present(k) => new.status # "absent"
  PROVE  \A i \in Items : Present(i)' <=> Present(i)
<1>1. items \in [Items -> Rows]
  BY DEF ManagerInvariant, StoreTyped
<1>2. CASE Present(k)
  <2>1. items' = [items EXCEPT ![k] = new]
    BY <1>2 DEF WithItem
  <2>2. \A i \in Items : items'[i] = IF i = k THEN new ELSE items[i]
    BY <1>1, <2>1
  <2>3. QED
    BY <1>2, <2>2 DEF Present
<1>3. CASE ~Present(k)
  BY <1>3 DEF WithItem, Present
<1>4. QED
  BY <1>2, <1>3

\* An item that was deleted does not come back, and none goes but by delete_items.
LEMMA Presence ==
  ASSUME ManagerInvariant, [Next]_vars, NEW i \in Items
  PROVE  /\ Present(i)' => Present(i)
         /\ Present(i) => Present(i)' \/ \E t \in Threads : ForgetItem(t) /\ thread[t].item = i
<1>1. items \in [Items -> Rows]
  BY DEF ManagerInvariant, StoreTyped
<1>2. SUFFICES \/ items' = items
               \/ \E a, k, new : WithItem(a, k, new) /\ (Present(k) => new.status # "absent")
               \/ \A m \in Items : Present(m)' <=> Present(m)
               \/ \E t \in Threads : ForgetItem(t)
  <2>1. CASE items' = items
    BY <2>1 DEF Present
  <2>2. CASE \E a, k, new : WithItem(a, k, new) /\ (Present(k) => new.status # "absent")
    BY <2>2, WithItemPresence
  <2>3. ASSUME NEW t \in Threads, ForgetItem(t)
        PROVE  /\ Present(i)' => Present(i)
               /\ Present(i) => Present(i)' \/ thread[t].item = i
    <3>1. items' = [items EXCEPT ![thread[t].item] = Gone] /\ Gone.status = "absent"
      BY <2>3 DEF ForgetItem, Gone
    <3>2. items'[i] = IF i = thread[t].item THEN Gone ELSE items[i]
      BY <1>1, <3>1
    <3>3. QED
      BY <3>1, <3>2 DEF Present
  <2>4. QED
    BY <1>2, <2>1, <2>2, <2>3
<1>3. \A k : Present(k) => items[k].status # "absent"
  BY DEF Present
<1>4. ASSUME NEW k, NEW x \in Rows, NEW status \in Statuses \ {"absent"}
      PROVE  [x EXCEPT !.status = status].status # "absent"
  BY <1>4 DEF Rows
<1>5. Statuses = {"absent", "idle", "queued", "active", "paused", "failed", "completed"}
  BY DEF Statuses
<1>6. CASE Tick
  <2>1. \A m \in Items : items'[m] = items[m] \/ (Present(m) /\ items'[m] = [items[m] EXCEPT !.status = "active"])
    BY <1>6 DEF Tick
  <2>2. \A m \in Items : Present(m) => [items[m] EXCEPT !.status = "active"].status # "absent"
    BY <1>1, <1>4, <1>5
  <2>3. QED
    BY <2>1, <2>2 DEF Present
<1>7. CASE SaverAnswer
  <2>1. items' = items \/ \E m \in Items : items' = [items EXCEPT ![m].resume = TRUE]
    <3>1. saver.todo \subseteq Items
      BY DEF ManagerInvariant, ControlTyped
    <3>2. QED
      BY <1>7, <3>1 DEF SaverAnswer
  <2>2. ASSUME NEW m \in Items, items' = [items EXCEPT ![m].resume = TRUE], NEW n \in Items
        PROVE  items'[n].status = items[n].status
    <3>1. items[n] \in Rows /\ items'[n] = IF n = m THEN [items[n] EXCEPT !.resume = TRUE] ELSE items[n]
      BY <1>1, <2>2
    <3>2. [items[n] EXCEPT !.resume = TRUE].status = items[n].status
      BY <3>1 DEF Rows
    <3>3. QED
      BY <3>1, <3>2
  <2>3. QED
    BY <2>1, <2>2 DEF Present
<1>8. CASE HandlerStep
  <2>1. CASE HandlerTake
    BY <2>1 DEF HandlerTake
  <2> DEFINE k == job[handler.job].item
             x == items[k]
  <2>2. ASSUME handler.pc # "idle"
        PROVE  k \in Items /\ x \in Rows /\ job[handler.job].result \in {"completed", "failed", "paused", "cancelled"}
    BY <1>1, <2>2 DEF ManagerInvariant, OutcomesSound, JobsSound, JobRecords, Results
  <2>3. CASE HandlerSettle
    <3>1. PICK resume \in BOOLEAN : WithItem(Handler, k, Settled(x, job[handler.job].result, resume))
      BY <2>3 DEF HandlerSettle
    <3>2. handler.pc = "settle"
      BY <2>3 DEF HandlerSettle, HandlerAt
    <3>3. Present(k) => Settled(x, job[handler.job].result, resume).status # "absent"
      <4> HIDE DEF k
      <4>1. /\ Row("active", FALSE).status = "active"
            /\ \A s, r : Row(s, r).status = s
        BY DEF Row
      <4>2. QED
        BY <2>2, <3>2, <4>1 DEF Settled, Present
    <3>4. QED
      BY <3>1, <3>3
  <2>4. CASE HandlerScanned
    <3>1. PICK status \in {"completed", "failed"} : WithItem(Handler, k, [x EXCEPT !.status = status])
      BY <2>4 DEF HandlerScanned
    <3>2. x \in Rows
      BY <2>2, <2>4 DEF HandlerScanned, HandlerAt
    <3>3. [x EXCEPT !.status = status].status # "absent"
      BY <1>4, <1>5, <3>2
    <3>4. QED
      BY <3>1, <3>3
  <2>5. CASE HandlerLast
    BY <1>3, <2>5 DEF HandlerLast
  <2>6. QED
    BY <1>8, <2>1, <2>3, <2>4, <2>5 DEF HandlerStep
<1>9. ASSUME NEW j \in Jobs, JobEnds(j) \/ JobReports(j)
      PROVE  items' = items \/ \E a, k, new : WithItem(a, k, new) /\ (Present(k) => new.status # "absent")
  BY <1>3, <1>9 DEF JobEnds, JobReports
<1>10. ASSUME NEW t \in Threads, ThreadStep(t)
       PROVE  \/ items' = items
              \/ \E a, k, new : WithItem(a, k, new) /\ (Present(k) => new.status # "absent")
              \/ ForgetItem(t)
  <2> DEFINE k == thread[t].item
             new(status) == [items[k] EXCEPT !.status = status]
  <2>1. ASSUME NEW m \in Items, NEW status \in Statuses \ {"absent"}
        PROVE  [items[m] EXCEPT !.status = status].status # "absent"
    BY <1>1, <1>4
  <2>2. SoundThread(thread[t])
    BY DEF ManagerInvariant, ThreadsSound
  <2>3. CASE MarkItem(t) \/ SpawnJob(t)
    <3>1. k \in Items
      BY <2>2, <2>3 DEF MarkItem, SpawnJob, At, SoundThread, Aimed
    <3>2. \/ items' = items
          \/ WithItem(t, k, [items[k] EXCEPT !.status = "active"])
          \/ WithItem(t, k, [items[k] EXCEPT !.status = "failed"])
      BY <2>3 DEF MarkItem, SpawnJob
    <3> HIDE DEF k
    <3>3. /\ [items[k] EXCEPT !.status = "active"].status # "absent"
          /\ [items[k] EXCEPT !.status = "failed"].status # "absent"
      BY <1>5, <2>1, <3>1
    <3>4. QED
      BY <3>2, <3>3
  <2>4. CASE Unqueue(t)
    <3>1. k \in Items
      BY <2>2, <2>4 DEF Unqueue, At, SoundThread, Aimed
    <3> DEFINE s == IF items[k].status = "queued" THEN "paused" ELSE items[k].status
    <3>2. WithItem(t, k, [items[k] EXCEPT !.status = s])
      BY <2>4 DEF Unqueue
    <3>3. Present(k) => [items[k] EXCEPT !.status = s].status # "absent"
      <4>1. items[k] \in Rows
        BY <1>1, <3>1
      <4>2. [items[k] EXCEPT !.status = s].status = s
        BY <4>1 DEF Rows
      <4>3. QED
        BY <4>2 DEF Present
    <3>4. QED
      BY <3>2, <3>3
  <2>5. CASE ResetItem(t)
    <3>1. WithItem(t, k, Row("idle", FALSE)) /\ Row("idle", FALSE).status # "absent"
      BY <2>5 DEF ResetItem, Row
    <3>2. QED
      BY <3>1
  <2>6. CASE Enqueue(t) \/ Unwait(t)
    <3>1. thread[t].todo \subseteq Items
      BY <2>2 DEF SoundThread, ThreadRecords
    <3>2. \/ items' = items
          \/ \E m \in Items : \/ WithItem(t, m, [items[m] EXCEPT !.status = "queued"])
                              \/ WithItem(t, m, [items[m] EXCEPT !.status = "idle"])
      BY <2>6, <3>1 DEF Enqueue, Unwait
    <3>3. \A m \in Items : /\ [items[m] EXCEPT !.status = "queued"].status # "absent"
                           /\ [items[m] EXCEPT !.status = "idle"].status # "absent"
      BY <1>5, <2>1
    <3>4. QED
      BY <3>2, <3>3
  <2>7. CASE \/ CheckItem(t) \/ InsertJob(t) \/ StartsDone(t) \/ PauseItem(t) \/ PausesDone(t)
             \/ CancelJob(t) \/ EraseRow(t) \/ StartCollect(t) \/ StopCollect(t) \/ Admit(t)
    BY <2>7 DEF CheckItem, InsertJob, StartsDone, PauseItem, PausesDone, CancelJob, EraseRow,
       StartCollect, StopCollect, Admit
  <2>8. QED
    BY <1>10, <2>3, <2>4, <2>5, <2>6, <2>7 DEF ThreadStep
<1>11. CASE \/ \E t \in Callers, cmd \in Commands, k \in Items : Begin(t, cmd, k)
            \/ BeginTick \/ Detect \/ SaverBegin \/ SaverCollect \/ (\E a \in Actors : Persist(a))
            \/ UNCHANGED vars
  BY <1>11 DEF Begin, BeginTick, Detect, SaverBegin, SaverCollect, Persist, vars
<1>12. QED
  BY <1>6, <1>7, <1>8, <1>9, <1>10, <1>11 DEF Next

\* A deleted item stays gone, whichever commands are given and whoever still has it in hand.
THEOREM DeletedItemsStayGone == Spec => DeletedStaysGone
<1>1. ManagerInvariant /\ [Next]_vars => [DeletedStep]_vars
  BY Presence DEF DeletedStep
<1>2. QED
  BY <1>1, ManagerInvariantHolds, PTL DEF Spec, DeletedStaysGone

-----------------------------------------------------------------------------
(***************************************************************************)
(* One job of an item.                                                     *)
(*                                                                         *)
(* Two starters of one item start two jobs, and a late outcome takes the   *)
(* wrong one out of the map: LiveJobsAreMapped holds where starts are      *)
(* given one by one or by admission.  Until its outcome is taken from the  *)
(* channel a job is open.  JobBook says that an item has at most one open  *)
(* job, in the map unless its starter is about to put it there or its item *)
(* is being deleted, and that who is to start a job finds none.            *)
(***************************************************************************)
OneByOne == /\ Commands \subseteq {"start", "pause", "delete"}
            /\ \A s, t \in Callers : s = t

ByAdmission == Commands \subseteq {"startQueue", "stopQueue", "pause"}

Open(j) == job[j].at \in {"running", "reporting"} \/ \E k \in DOMAIN outcomes : outcomes[k] = j

Starting == {"mark", "spawn", "insert"}

InHand(j) == \E t \in Threads : thread[t].pc = "insert" /\ thread[t].job = j
Leaving(i) == ~Present(i) \/ \E t \in Threads : thread[t].pc = "forget" /\ thread[t].item = i

JobOf(j, i) == j \in Jobs /\ job[j].at # "none" /\ job[j].item = i

MapSound == \A i \in Items : jobs[i] # 0 => JobOf(jobs[i], i)

OpenAlone == \A j, k \in Jobs : Open(j) /\ Open(k) /\ job[j].item = job[k].item => j = k

Kept(j) ==
  IF job[j].stop = "cancel" THEN Leaving(job[j].item) ELSE jobs[job[j].item] = j \/ InHand(j)
OpenKept == \A j \in Jobs : Open(j) => Kept(j)

StartsFresh ==
  \A t \in Threads : thread[t].pc \in Starting =>
    /\ jobs[thread[t].item] = 0
    /\ \A j \in Jobs : Open(j) /\ job[j].item = thread[t].item
                       => thread[t].pc = "insert" /\ thread[t].job = j
    /\ thread[t].pc = "insert" => JobOf(thread[t].job, thread[t].item)

JobBook == MapSound /\ OpenAlone /\ OpenKept /\ StartsFresh

\* What a thread has in hand stays there, and it takes up nothing to start.
SameHand(t) ==
  /\ thread'[t].pc \in Starting => thread[t].pc \in Starting /\ thread'[t].item = thread[t].item
  /\ thread'[t].pc = "insert" <=> thread[t].pc = "insert"
  /\ thread[t].pc \in {"insert", "forget"} =>
       /\ thread'[t].pc = thread[t].pc /\ thread'[t].item = thread[t].item
       /\ thread'[t].job = thread[t].job

\* The jobs are the same, and none is cancelled that was not.
SameStops ==
  \A j \in Jobs : /\ job'[j].item = job[j].item /\ (job[j].at # "none" => job'[j].at # "none")
                  /\ job'[j].stop = "cancel" <=> job[j].stop = "cancel"

\* Steps that start, map and cancel nothing keep the book.
LEMMA BookKept ==
  ASSUME ManagerInvariant, JobBook, [Next]_vars, jobs' = jobs, SameStops,
         \A j \in Jobs : Open(j)' => Open(j),
         \A t \in Threads : SameHand(t),
         \A t \in Threads : ~ForgetItem(t)
  PROVE  JobBook'
<1>1. \A j \in Jobs : Open(j) => job[j].item \in Items
  BY DEF Open, ManagerInvariant, JobsSound, OutcomesSound
<1>2. \A i \in Items : Present(i)' <=> Present(i)
  BY Presence
<1>3. MapSound'
  BY DEF JobBook, MapSound, JobOf, SameStops
<1>4. OpenAlone'
  BY DEF JobBook, OpenAlone, SameStops
<1>5. OpenKept'
  <2>1. \A j \in Jobs : InHand(j) => InHand(j)'
    BY DEF InHand, SameHand
  <2>2. \A i \in Items : Leaving(i) => Leaving(i)'
    BY <1>2 DEF Leaving, SameHand
  <2>3. ASSUME NEW j \in Jobs, Open(j)'
        PROVE  Kept(j)'
    <3>1. Kept(j) /\ job'[j].item = job[j].item /\ job[j].item \in Items
      BY <1>1, <2>3 DEF SameStops, JobBook, OpenKept
    <3>2. CASE job[j].stop = "cancel"
      <4>1. Leaving(job[j].item)
        BY <3>1, <3>2 DEF Kept
      <4>2. Leaving(job[j].item)'
        BY <2>2, <3>1, <4>1 DEF Leaving, Present
      <4>3. QED
        BY <3>2, <4>2 DEF Kept, SameStops
    <3>3. CASE job[j].stop # "cancel"
      BY <2>1, <3>1, <3>3 DEF Kept, SameStops
    <3>4. QED
      BY <3>2, <3>3
  <2>4. QED
    BY <2>3 DEF OpenKept
<1>6. StartsFresh'
  <2>1. ASSUME NEW t \in Threads, thread'[t].pc \in Starting
        PROVE  /\ thread[t].pc \in Starting /\ thread'[t].item = thread[t].item
               /\ thread'[t].pc = "insert" <=> thread[t].pc = "insert"
               /\ thread[t].pc = "insert" => thread'[t].job = thread[t].job /\ thread[t].job \in Jobs
    BY <2>1 DEF SameHand, ManagerInvariant, ThreadsSound, SoundThread
  <2>2. QED
    BY <2>1 DEF JobBook, StartsFresh, JobOf, SameStops
<1>7. QED
  BY <1>3, <1>4, <1>5, <1>6 DEF JobBook

\* A thread with no job in hand may go where no start begins.
LEMMA HandKept ==
  ASSUME ManagerInvariant, NEW t \in Threads, NEW r, Go(t, r),
         thread[t].pc \notin {"insert", "forget"},
         \/ r.pc \notin Starting
         \/ thread[t].pc = "mark" /\ r.pc = "spawn" /\ r.item = thread[t].item
  PROVE  \A u \in Threads : SameHand(u)
<1>1. \A u \in Threads : thread'[u] = IF u = t THEN r ELSE thread[u]
  BY DEF Go, ManagerInvariant, ThreadsSound
<1>2. QED
  BY <1>1 DEF SameHand, Starting

\* Steps of a thread that take up no start and give none up.
LEMMA CalmHands ==
  ASSUME ManagerInvariant, NEW t \in Threads,
         \/ \E cmd \in Commands, i \in Items : Begin(t, cmd, i)
         \/ t = Ticker /\ (BeginTick \/ Detect)
         \/ MarkItem(t) \/ StartsDone(t) \/ PauseItem(t) \/ Unqueue(t) \/ PausesDone(t)
         \/ EraseRow(t) \/ ResetItem(t) \/ StartCollect(t) \/ Enqueue(t) \/ StopCollect(t)
         \/ Unwait(t) \/ Admit(t)
  PROVE  \A u \in Threads : SameHand(u)
<1> DEFINE p == thread[t]
<1>1. p \in ThreadRecords
  BY DEF ManagerInvariant, ThreadsSound
<1>2. [p EXCEPT !.pc = "spawn"].pc = "spawn" /\ [p EXCEPT !.pc = "spawn"].item = p.item
  BY <1>1 DEF ThreadRecords
<1>3. /\ Doing("tick", "admit", {}).pc = "admit"
  BY DEF Doing
<1>4. Resting(t).pc = "idle"
  BY DEF Resting, Doing
<1>5. CASE \E cmd \in Commands, i \in Items : Begin(t, cmd, i)
  <2>1. PICK cmd \in Commands, i \in Items : Begin(t, cmd, i)
    BY <1>5
  <2>2. p.pc = "idle"
    BY <2>1 DEF Begin, At
  <2>3. \/ Go(t, Doing(cmd, "start", {i})) \/ Go(t, Doing(cmd, "pause", {i}))
        \/ Go(t, [Doing(cmd, "cancel", {}) EXCEPT !.item = i])
        \/ Go(t, Doing(cmd, "collect", {})) \/ Go(t, Doing(cmd, "stopCollect", {}))
    BY <2>1, ManagerAssumption DEF Begin, AllCommands
  <2>4. /\ Doing(cmd, "start", {i}).pc \notin Starting /\ Doing(cmd, "pause", {i}).pc \notin Starting
        /\ [Doing(cmd, "cancel", {}) EXCEPT !.item = i].pc \notin Starting
        /\ Doing(cmd, "collect", {}).pc \notin Starting /\ Doing(cmd, "stopCollect", {}).pc \notin Starting
    BY DEF Starting, Doing
  <2>5. \E r : Go(t, r) /\ r.pc \notin Starting
    BY <2>3, <2>4, Zenon
  <2>6. QED
    BY <2>2, <2>5, HandKept
<1>6. CASE t = Ticker /\ (BeginTick \/ Detect)
  <2>1. p.pc \in {"idle", "detect"} /\ (Go(t, Doing("tick", "admit", {})) \/ Go(t, Resting(t)))
    BY <1>6 DEF BeginTick, Detect, At
  <2>2. \E r : Go(t, r) /\ r.pc \notin Starting
    BY <1>3, <1>4, <2>1 DEF Starting
  <2>3. QED
    BY <2>1, <2>2, HandKept
<1>7. CASE MarkItem(t)
  <2>1. p.pc = "mark" /\ Go(t, [p EXCEPT !.pc = "spawn"])
    BY <1>7 DEF MarkItem, At
  <2>2. QED
    BY <1>2, <2>1, HandKept
<1>8. CASE PauseItem(t)
  <2>1. p.pc = "pause" /\ \E i \in p.todo :
          \/ Go(t, [p EXCEPT !.todo = @ \ {i}])
          \/ Go(t, [[p EXCEPT !.todo = @ \ {i}] EXCEPT !.pc = "unqueue", !.item = i])
    BY <1>8 DEF PauseItem, At
  <2>2. \E r : Go(t, r) /\ r.pc \notin Starting
    <3>1. PICK i \in p.todo :
            \/ Go(t, [p EXCEPT !.todo = @ \ {i}])
            \/ Go(t, [[p EXCEPT !.todo = @ \ {i}] EXCEPT !.pc = "unqueue", !.item = i])
      BY <2>1
    <3>2. /\ [p EXCEPT !.todo = @ \ {i}].pc \notin Starting
          /\ [[p EXCEPT !.todo = @ \ {i}] EXCEPT !.pc = "unqueue", !.item = i].pc \notin Starting
      BY <1>1, <2>1 DEF ThreadRecords, Starting
    <3>3. QED
      BY <3>1, <3>2, Zenon
  <2>3. QED
    BY <2>1, <2>2, HandKept
<1>9. CASE StartsDone(t) \/ PausesDone(t) \/ EraseRow(t) \/ ResetItem(t)
  <2>1. /\ p.pc \in {"start", "pause", "erase", "reset"}
        /\ \/ Go(t, Doing("tick", "detect", {})) \/ Go(t, Resting(t))
           \/ Go(t, Doing("stopQueue", "unwait", p.wait))
           \/ Go(t, Doing("redownload", "start", {p.item}))
    BY <1>9 DEF StartsDone, PausesDone, EraseRow, ResetItem, At
  <2>2. \E r : Go(t, r) /\ r.pc \notin Starting
    <3>1. /\ Doing("tick", "detect", {}).pc \notin Starting /\ Resting(t).pc \notin Starting
          /\ Doing("stopQueue", "unwait", p.wait).pc \notin Starting
          /\ Doing("redownload", "start", {p.item}).pc \notin Starting
      BY <1>4 DEF Doing, Starting
    <3>2. QED
      BY <2>1, <3>1, Zenon
  <2>3. QED
    BY <2>1, <2>2, HandKept
<1>10. CASE Unqueue(t) \/ Enqueue(t) \/ Unwait(t) \/ Admit(t)
  <2>1. /\ p.pc \in {"unqueue", "enqueue", "unwait", "admit"}
        /\ \/ Go(t, [p EXCEPT !.pc = "pause", !.item = NoItem])
           \/ Go(t, [p EXCEPT !.pc = "admit"]) \/ Go(t, Resting(t))
           \/ \E i : Go(t, [p EXCEPT !.todo = @ \ {i}])
           \/ \E S : Go(t, [p EXCEPT !.pc = "start", !.todo = S])
    BY <1>10 DEF Unqueue, Enqueue, Unwait, Admit, At
  <2>2. \E r : Go(t, r) /\ r.pc \notin Starting
    <3>1. /\ [p EXCEPT !.pc = "pause", !.item = NoItem].pc \notin Starting
          /\ [p EXCEPT !.pc = "admit"].pc \notin Starting /\ Resting(t).pc \notin Starting
          /\ \A i : [p EXCEPT !.todo = @ \ {i}].pc \notin Starting
          /\ \A S : [p EXCEPT !.pc = "start", !.todo = S].pc \notin Starting
      BY <1>1, <1>4, <2>1 DEF ThreadRecords, Starting
    <3>2. QED
      BY <2>1, <3>1, Zenon
  <2>3. QED
    BY <2>1, <2>2, HandKept
<1>11. CASE StartCollect(t) \/ StopCollect(t)
  <2>1. /\ p.pc \in {"collect", "stopCollect"}
        /\ \/ \E S : Go(t, Doing("startQueue", "enqueue", S))
           \/ \E S, x : Go(t, [Doing("stopQueue", "pause", S) EXCEPT !.wait = x])
    BY <1>11 DEF StartCollect, StopCollect, At
  <2>2. \E r : Go(t, r) /\ r.pc \notin Starting
    <3>1. /\ \A S : Doing("startQueue", "enqueue", S).pc \notin Starting
          /\ \A S, x : [Doing("stopQueue", "pause", S) EXCEPT !.wait = x].pc \notin Starting
      BY DEF Doing, Starting
    <3>2. QED
      BY <2>1, <3>1, Zenon
  <2>3. QED
    BY <2>1, <2>2, HandKept
<1>12. QED
  BY <1>5, <1>6, <1>7, <1>8, <1>9, <1>10, <1>11

\* A deletion goes on to the row.
LEMMA ForgetMoves ==
  ASSUME ManagerInvariant, NEW t \in Threads, ForgetItem(t)
  PROVE  thread[t].pc = "forget" /\ thread'[t].pc = "erase"
<1>1. /\ thread \in [Threads -> ThreadRecords]
      /\ thread' = [thread EXCEPT ![t] = [thread[t] EXCEPT !.pc = "erase"]]
  BY DEF ForgetItem, Go, ManagerInvariant, ThreadsSound
<1>2. QED
  BY <1>1 DEF ForgetItem, At, ThreadRecords

\* Those steps, and what the jobs, the saver and the database do, leave the book as it is.
LEMMA CalmBook ==
  ASSUME ManagerInvariant, JobBook, [Next]_vars,
         \/ \E t \in Threads :
              \/ \E cmd \in Commands, i \in Items : Begin(t, cmd, i)
              \/ t = Ticker /\ (BeginTick \/ Detect)
              \/ MarkItem(t) \/ StartsDone(t) \/ PauseItem(t) \/ Unqueue(t) \/ PausesDone(t)
              \/ EraseRow(t) \/ ResetItem(t) \/ StartCollect(t) \/ Enqueue(t) \/ StopCollect(t)
              \/ Unwait(t) \/ Admit(t)
         \/ \E j \in Jobs : JobEnds(j) \/ JobReports(j)
         \/ HandlerSettle \/ HandlerScanned \/ HandlerLast
         \/ Tick \/ SaverBegin \/ SaverAnswer \/ SaverCollect \/ \E a \in Actors : Persist(a)
  PROVE  JobBook'
<1>1. job \in [Jobs -> JobRecords] /\ outcomes \in Seq(Jobs)
  BY DEF ManagerInvariant, JobsSound, OutcomesSound
<1>2. (UNCHANGED << job, outcomes >>) => SameStops /\ \A j \in Jobs : Open(j)' => Open(j)
  BY DEF SameStops, Open
<1>3. (UNCHANGED thread) => \A u \in Threads : SameHand(u) /\ ~ForgetItem(u)
  BY ForgetMoves DEF SameHand
<1>4. ASSUME NEW t \in Threads,
             \/ \E cmd \in Commands, i \in Items : Begin(t, cmd, i)
             \/ t = Ticker /\ (BeginTick \/ Detect)
             \/ MarkItem(t) \/ StartsDone(t) \/ PauseItem(t) \/ Unqueue(t) \/ PausesDone(t)
             \/ EraseRow(t) \/ ResetItem(t) \/ StartCollect(t) \/ Enqueue(t) \/ StopCollect(t)
             \/ Unwait(t) \/ Admit(t)
      PROVE  JobBook'
  <2>1. \A u \in Threads : SameHand(u)
    BY <1>4, CalmHands
  <2>2. \A u \in Threads : ~ForgetItem(u)
    BY <2>1, ForgetMoves DEF SameHand
  <2>3. jobs' = jobs /\ outcomes' = outcomes
    BY <1>4 DEF Begin, BeginTick, Detect, MarkItem, StartsDone, PauseItem, Unqueue, PausesDone,
       EraseRow, ResetItem, StartCollect, Enqueue, StopCollect, Unwait, Admit
  <2>4. SameStops /\ \A j \in Jobs : Open(j)' => Open(j)
    <3>1. CASE PauseItem(t)
      <4>1. job' = job \/ \E i : job' = Stopped(jobs[i], "pause")
        BY <3>1 DEF PauseItem
      <4>2. ASSUME NEW i, job' = Stopped(jobs[i], "pause"), NEW j \in Jobs
            PROVE  /\ job'[j].item = job[j].item /\ job'[j].at = job[j].at
                   /\ job'[j].stop = "cancel" <=> job[j].stop = "cancel"
        <5>1. job'[j] = IF j = jobs[i] THEN [job[j] EXCEPT !.stop = IF @ = "cancel" THEN @ ELSE "pause"] ELSE job[j]
          BY <1>1, <4>2 DEF Stopped
        <5>2. job[j] \in JobRecords
          BY <1>1
        <5>3. QED
          BY <5>1, <5>2 DEF JobRecords
      <4>3. CASE \E i : job' = Stopped(jobs[i], "pause")
        BY <2>3, <4>2, <4>3 DEF SameStops, Open
      <4>4. QED
        BY <1>2, <2>3, <4>1, <4>3
    <3>2. CASE ~PauseItem(t)
      <4>1. job' = job
        BY <1>4, <3>2 DEF Begin, BeginTick, Detect, MarkItem, StartsDone, Unqueue, PausesDone,
           EraseRow, ResetItem, StartCollect, Enqueue, StopCollect, Unwait, Admit
      <4>2. QED
        BY <1>2, <2>3, <4>1
    <3>3. QED
      BY <3>1, <3>2
  <2>5. QED
    BY <2>1, <2>2, <2>3, <2>4, BookKept
<1>5. ASSUME NEW j \in Jobs, JobEnds(j) \/ JobReports(j)
      PROVE  JobBook'
  <2>1. UNCHANGED << jobs, thread >>
    BY <1>5 DEF JobEnds, JobReports
  <2>2. PICK r, at : /\ job' = [job EXCEPT ![j].at = at, ![j].result = r]
                     /\ job[j].at \in {"running", "reporting"}
                     /\ \/ outcomes' = outcomes /\ at = "reporting"
                        \/ outcomes' = Append(outcomes, j) /\ at = "sent"
    <3>1. CASE JobEnds(j)
      BY <3>1 DEF JobEnds, Running
    <3>2. CASE JobReports(j)
      <4>1. job' = [job EXCEPT ![j].at = "sent", ![j].result = job[j].result]
        BY <1>1, <3>2 DEF JobReports, JobRecords
      <4>2. QED
        BY <3>2, <4>1 DEF JobReports
    <3>3. QED
      BY <1>5, <3>1, <3>2
  <2>3. \A k \in Jobs : /\ job'[k].item = job[k].item /\ job'[k].stop = job[k].stop
                        /\ k # j => job'[k].at = job[k].at
                        /\ k = j => job'[k].at # "none"
    BY <1>1, <2>2 DEF JobRecords
  <2>4. Open(j)
    BY <2>2 DEF Open
  <2>5. \A k \in Jobs \ {j} : Open(k)' => Open(k)
    BY <1>1, <2>2, <2>3 DEF Open
  <2>6. QED
    BY <1>3, <2>1, <2>3, <2>4, <2>5, BookKept DEF SameStops
<1>6. CASE \/ HandlerSettle \/ HandlerScanned \/ HandlerLast
           \/ Tick \/ SaverBegin \/ SaverAnswer \/ SaverCollect \/ \E a \in Actors : Persist(a)
  <2>1. UNCHANGED << jobs, job, outcomes, thread >>
    BY <1>6 DEF HandlerSettle, HandlerScanned, HandlerLast, Tick, SaverBegin, SaverAnswer,
       SaverCollect, Persist
  <2>2. QED
    BY <1>2, <1>3, <2>1, BookKept
<1>7. QED
  BY <1>4, <1>5, <1>6

\* Starts and deletions come one after the other.
ToStart(t) == thread[t].pc \in Starting \/ (thread[t].pc = "start" /\ thread[t].todo # {})

Serial ==
  /\ \A s, t \in Threads : ToStart(s) /\ ToStart(t) => s = t
  /\ \A s, t \in Threads : ToStart(s) => thread[t].pc \notin {"cancel", "forget"}
  /\ \A t \in Threads : thread[t].pc = "cancel" => thread[t].cmd = "delete"

\* Who takes an item up to start it finds no open job of it.
LEMMA CheckItemBook ==
  ASSUME ManagerInvariant, JobBook, Serial, [Next]_vars, NEW t \in Threads, CheckItem(t)
  PROVE  JobBook'
<1> DEFINE p == thread[t]
<1>1. /\ p \in ThreadRecords /\ p.pc = "start" /\ thread \in [Threads -> ThreadRecords]
      /\ UNCHANGED << items, jobs, job, outcomes >>
      /\ jobs \in [Items -> 0 .. MaxJobs]
  BY DEF CheckItem, At, ManagerInvariant, ThreadsSound, ControlTyped
<1>2. PICK i \in p.todo :
        \/ Go(t, [p EXCEPT !.todo = @ \ {i}])
        \/ /\ jobs[i] = 0 /\ Present(i)
           /\ Go(t, [[p EXCEPT !.todo = @ \ {i}] EXCEPT !.pc = "mark", !.item = i])
  BY DEF CheckItem, Present
<1>3. ToStart(t) /\ i \in Items
  BY <1>1, <1>2 DEF ToStart, ThreadRecords
<1>4. SameStops /\ \A j \in Jobs : Open(j)' <=> Open(j)
  BY <1>1 DEF SameStops, Open
<1>5. CASE Go(t, [p EXCEPT !.todo = @ \ {i}])
  <2>1. [p EXCEPT !.todo = @ \ {i}].pc = "start"
    BY <1>1 DEF ThreadRecords
  <2>2. \A u \in Threads : SameHand(u)
    BY <1>1, <1>5, <2>1, HandKept DEF Starting
  <2>3. \A u \in Threads : ~ForgetItem(u)
    BY <1>3 DEF Serial, ForgetItem, At
  <2>4. QED
    BY <1>1, <1>4, <2>2, <2>3, BookKept
<1>6. CASE /\ jobs[i] = 0 /\ Present(i)
           /\ Go(t, [[p EXCEPT !.todo = @ \ {i}] EXCEPT !.pc = "mark", !.item = i])
  <2> DEFINE r == [[p EXCEPT !.todo = @ \ {i}] EXCEPT !.pc = "mark", !.item = i]
  <2>1. r.pc = "mark" /\ r.item = i
    BY <1>1 DEF ThreadRecords
  <2>2. \A u \in Threads : thread'[u] = IF u = t THEN r ELSE thread[u]
    BY <1>1, <1>6 DEF Go
  <2> HIDE DEF r
  <2>3. \A j \in Jobs : Open(j) => job[j].item # i
    <3>1. SUFFICES ASSUME NEW j \in Jobs, Open(j), job[j].item = i
                   PROVE  FALSE
      OBVIOUS
    <3>2. Kept(j)
      BY <3>1 DEF JobBook, OpenKept
    <3>3. CASE job[j].stop = "cancel"
      <4>1. Leaving(i)
        BY <3>1, <3>2, <3>3 DEF Kept
      <4>2. \A u \in Threads : thread[u].pc # "forget"
        BY <1>3 DEF Serial
      <4>3. QED
        BY <1>6, <4>1, <4>2 DEF Leaving
    <3>4. CASE job[j].stop # "cancel"
      <4>1. jobs[i] = j \/ InHand(j)
        BY <3>1, <3>2, <3>4 DEF Kept
      <4>2. jobs[i] # j
        BY <1>6, ManagerAssumption DEF Jobs
      <4>3. PICK u \in Threads : thread[u].pc = "insert"
        BY <4>1, <4>2 DEF InHand
      <4>4. u = t
        BY <1>3, <4>3 DEF Serial, ToStart, Starting
      <4>5. QED
        BY <1>1, <4>3, <4>4
    <3>5. QED
      BY <3>3, <3>4
  <2>4. StartsFresh'
    BY <1>1, <1>4, <1>6, <2>1, <2>2, <2>3 DEF StartsFresh, JobBook, JobOf
  <2>5. OpenKept'
    <3>1. \A j : InHand(j) => InHand(j)'
      BY <1>1, <2>2 DEF InHand
    <3>2. \A k : Leaving(k) => Leaving(k)'
      BY <1>1, <2>2 DEF Leaving, Present
    <3>3. ASSUME NEW j \in Jobs, Kept(j)
          PROVE  Kept(j)'
      <4>1. CASE job[j].stop = "cancel"
        BY <1>1, <3>2, <3>3, <4>1 DEF Kept, Leaving, Present
      <4>2. CASE job[j].stop # "cancel"
        BY <1>1, <3>1, <3>3, <4>2 DEF Kept
      <4>3. QED
        BY <4>1, <4>2
    <3>4. QED
      BY <1>4, <3>3 DEF JobBook, OpenKept
  <2>6. QED
    BY <1>1, <1>4, <2>4, <2>5 DEF JobBook, MapSound, JobOf, OpenAlone
<1>7. QED
  BY <1>2, <1>5, <1>6

\* The new job is the only open one of its item, in the hand of its starter.
LEMMA SpawnBook ==
  ASSUME ManagerInvariant, JobBook, Serial, [Next]_vars, NEW t \in Threads, SpawnJob(t)
  PROVE  JobBook'
<1> DEFINE p == thread[t]
           i == p.item
<1>1. /\ p \in ThreadRecords /\ p.pc = "spawn" /\ thread \in [Threads -> ThreadRecords]
      /\ i \in Items /\ UNCHANGED << jobs, outcomes >>
      /\ jobs \in [Items -> 0 .. MaxJobs] /\ job \in [Jobs -> JobRecords]
  BY DEF SpawnJob, At, ManagerInvariant, ThreadsSound, SoundThread, Aimed, ControlTyped, JobsSound
<1>2. ToStart(t)
  BY <1>1 DEF ToStart, Starting
<1>3. \A u \in Threads : ~ForgetItem(u)
  BY <1>2 DEF Serial, ForgetItem, At
<1>4. \A k \in Items : Present(k)' <=> Present(k)
  BY <1>3, Presence
<1>5. CASE Go(t, [p EXCEPT !.pc = "start", !.item = NoItem]) /\ job' = job
  <2>1. [p EXCEPT !.pc = "start", !.item = NoItem].pc = "start"
    BY <1>1 DEF ThreadRecords
  <2>2. \A u \in Threads : SameHand(u)
    BY <1>1, <1>5, <2>1, HandKept DEF Starting
  <2>3. SameStops /\ \A j \in Jobs : Open(j)' => Open(j)
    BY <1>1, <1>5 DEF SameStops, Open
  <2>4. QED
    BY <1>1, <1>3, <2>2, <2>3, BookKept
<1>6. ASSUME NEW j \in Jobs, job[j].at = "none",
             job' = [job EXCEPT ![j] = [NoJob EXCEPT !.item = i, !.at = "running"]],
             Go(t, [p EXCEPT !.pc = "insert", !.job = j])
      PROVE  JobBook'
  <2> DEFINE x == [NoJob EXCEPT !.item = i, !.at = "running"]
             r == [p EXCEPT !.pc = "insert", !.job = j]
  <2>1. x.at = "running" /\ x.item = i /\ x.stop = "no"
    BY DEF NoJob
  <2>2. r.pc = "insert" /\ r.item = i /\ r.job = j
    BY <1>1 DEF ThreadRecords
  <2>3. \A u \in Threads : thread'[u] = IF u = t THEN r ELSE thread[u]
    BY <1>1, <1>6 DEF Go
  <2>4. \A k \in Jobs : job'[k] = IF k = j THEN x ELSE job[k]
    BY <1>1, <1>6
  <2> HIDE DEF x, r
  <2>5. ~Open(j) /\ Open(j)'
    <3>1. \A k \in DOMAIN outcomes : job[outcomes[k]].at = "sent"
      BY DEF ManagerInvariant, OutcomesSound
    <3>2. QED
      BY <1>6, <2>1, <2>4, <3>1 DEF Open
  <2>6. \A k \in Jobs : k # j => (Open(k)' <=> Open(k))
    BY <1>1, <2>4 DEF Open
  <2>7. jobs[i] = 0 /\ \A k \in Jobs : Open(k) => job[k].item # i
    BY <1>1 DEF JobBook, StartsFresh, Starting
  <2>8. MapSound'
    <3>1. \A k \in Items : jobs[k] # 0 => jobs[k] # j
      BY <1>6 DEF JobBook, MapSound, JobOf
    <3>2. QED
      BY <1>1, <2>4, <3>1 DEF JobBook, MapSound, JobOf
  <2>9. OpenAlone'
    BY <2>1, <2>4, <2>6, <2>7 DEF JobBook, OpenAlone
  <2>10. OpenKept'
    <3>1. InHand(j)'
      BY <2>2, <2>3 DEF InHand
    <3>2. \A k : InHand(k) => InHand(k)'
      BY <1>1, <2>3 DEF InHand
    <3>3. \A k \in Items : Leaving(k) => Leaving(k)'
      BY <1>1, <1>4, <2>3 DEF Leaving
    <3>4. ASSUME NEW k \in Jobs, Open(k), k # j
          PROVE  Kept(k)'
      <4>1. Kept(k) /\ job'[k] = job[k] /\ job[k].item \in Items
        BY <2>4, <3>4 DEF JobBook, OpenKept, Open, ManagerInvariant, JobsSound, OutcomesSound
      <4>2. CASE job[k].stop = "cancel"
        <5>1. Leaving(job[k].item)
          BY <4>1, <4>2 DEF Kept
        <5>2. Leaving(job[k].item)'
          BY <3>3, <4>1, <5>1 DEF Leaving, Present
        <5>3. QED
          BY <4>1, <4>2, <5>2 DEF Kept
      <4>3. CASE job[k].stop # "cancel"
        BY <1>1, <3>2, <4>1, <4>3 DEF Kept
      <4>4. QED
        BY <4>2, <4>3
    <3>5. Kept(j)'
      BY <2>1, <2>4, <3>1 DEF Kept
    <3>6. QED
      BY <2>6, <3>4, <3>5 DEF OpenKept
  <2>11. StartsFresh'
    <3>1. ASSUME NEW u \in Threads, thread'[u].pc \in Starting
          PROVE  u = t
      BY <1>2, <2>3, <3>1 DEF Serial, ToStart
    <3>2. \A k \in Jobs : Open(k)' /\ job'[k].item = i => k = j
      BY <2>4, <2>6, <2>7
    <3>3. QED
      BY <1>1, <2>1, <2>2, <2>3, <2>4, <2>7, <3>1, <3>2 DEF StartsFresh, JobOf
  <2>12. QED
    BY <2>8, <2>9, <2>10, <2>11 DEF JobBook
<1>7. QED
  BY <1>5, <1>6 DEF SpawnJob

\* The starter puts its job into the map.
LEMMA InsertBook ==
  ASSUME ManagerInvariant, JobBook, Serial, [Next]_vars, NEW t \in Threads, InsertJob(t)
  PROVE  JobBook'
<1> DEFINE p == thread[t]
           r == [p EXCEPT !.pc = "start", !.item = NoItem, !.job = 0]
<1>0. PICK i \in Items, j \in Jobs : i = p.item /\ j = p.job
  BY DEF InsertJob, At, ManagerInvariant, ThreadsSound, SoundThread, Aimed
<1>1. /\ p \in ThreadRecords /\ p.pc = "insert" /\ thread \in [Threads -> ThreadRecords]
      /\ UNCHANGED << items, job, outcomes >>
      /\ jobs \in [Items -> 0 .. MaxJobs] /\ jobs' = [jobs EXCEPT ![i] = j]
      /\ Go(t, r)
  BY <1>0 DEF InsertJob, At, ManagerInvariant, ThreadsSound, ControlTyped
<1>2. r.pc = "start"
  BY <1>1 DEF ThreadRecords
<1>3. \A u \in Threads : thread'[u] = IF u = t THEN r ELSE thread[u]
  BY <1>1 DEF Go
<1>4. \A k \in Items : jobs'[k] = IF k = i THEN j ELSE jobs[k]
  BY <1>1
<1>5. /\ \A u \in Threads : ToStart(u) => u = t
      /\ \A u \in Threads : thread[u].pc = "insert" => u = t
  BY <1>1 DEF Serial, ToStart, Starting
<1> HIDE DEF r
<1>6. /\ jobs[i] = 0 /\ \A k \in Jobs : Open(k) /\ job[k].item = i => k = j
      /\ JobOf(j, i)
  BY <1>0, <1>1 DEF JobBook, StartsFresh, Starting
<1>7. \A k \in Jobs : Open(k)' <=> Open(k)
  BY <1>1 DEF Open
<1>8. MapSound'
  BY <1>1, <1>4, <1>6 DEF JobBook, MapSound, JobOf
<1>9. OpenAlone'
  BY <1>1, <1>7 DEF JobBook, OpenAlone
<1>10. OpenKept'
  <2>1. ASSUME NEW k \in Jobs, Open(k)
        PROVE  Kept(k)'
    <3>1. Kept(k) /\ job'[k] = job[k] /\ job[k].item \in Items
      BY <1>1, <2>1 DEF JobBook, OpenKept, Open, ManagerInvariant, JobsSound, OutcomesSound
    <3>2. CASE job[k].stop = "cancel"
      <4>1. Leaving(job[k].item)
        BY <3>1, <3>2 DEF Kept
      <4>2. Leaving(job[k].item)'
        BY <1>1, <1>3, <3>1, <4>1 DEF Leaving, Present
      <4>3. QED
        BY <3>1, <3>2, <4>2 DEF Kept
    <3>3. CASE job[k].stop # "cancel"
      <4>1. jobs[job[k].item] = k \/ InHand(k)
        BY <3>1, <3>3 DEF Kept
      <4>2. jobs'[job[k].item] = k
        <5>1. CASE InHand(k)
          <6>1. k = j
            BY <1>0, <1>5, <5>1 DEF InHand
          <6>2. QED
            BY <1>4, <1>6, <6>1 DEF JobOf
        <5>2. CASE jobs[job[k].item] = k
          <6>1. k # 0
            BY ManagerAssumption DEF Jobs
          <6>2. job[k].item # i
            BY <1>6, <5>2, <6>1
          <6>3. QED
            BY <1>4, <3>1, <5>2, <6>2
        <5>3. QED
          BY <4>1, <5>1, <5>2
      <4>3. QED
        BY <3>1, <3>3, <4>2 DEF Kept
    <3>4. QED
      BY <3>2, <3>3
  <2>2. QED
    BY <1>7, <2>1 DEF OpenKept
<1>11. StartsFresh'
  <2>1. \A u \in Threads : thread'[u].pc \notin Starting
    <3>1. "start" \notin Starting
      BY DEF Starting
    <3>2. QED
      BY <1>2, <1>3, <1>5, <3>1 DEF ToStart
  <2>2. QED
    BY <2>1 DEF StartsFresh
<1>12. QED
  BY <1>8, <1>9, <1>10, <1>11 DEF JobBook

\* delete_items takes the job out of the map and cancels it: the item leaves next.
LEMMA CancelBook ==
  ASSUME ManagerInvariant, JobBook, Serial, [Next]_vars, NEW t \in Threads, CancelJob(t)
  PROVE  JobBook'
<1> DEFINE p == thread[t]
           r == [p EXCEPT !.pc = "forget"]
<1>0. PICK i \in Items : i = p.item
  BY DEF CancelJob, At, ManagerInvariant, ThreadsSound, SoundThread, Aimed
<1>1. /\ p \in ThreadRecords /\ p.pc = "cancel" /\ thread \in [Threads -> ThreadRecords]
      /\ UNCHANGED << items, outcomes >>
      /\ jobs \in [Items -> 0 .. MaxJobs] /\ jobs' = [jobs EXCEPT ![i] = 0]
      /\ job \in [Jobs -> JobRecords]
  BY <1>0 DEF CancelJob, At, ManagerInvariant, ThreadsSound, ControlTyped, JobsSound
<1>2. Go(t, r)
  BY <1>1 DEF Serial, CancelJob
<1>3. r.pc = "forget" /\ r.item = i
  BY <1>0, <1>1 DEF ThreadRecords
<1>4. \A u \in Threads : thread'[u] = IF u = t THEN r ELSE thread[u]
  BY <1>1, <1>2 DEF Go
<1> HIDE DEF r
<1>5. \A k \in Items : jobs'[k] = IF k = i THEN 0 ELSE jobs[k]
  BY <1>1
<1>6. \A u \in Threads : ~ToStart(u)
  BY <1>1 DEF Serial
<1>7. /\ \A k \in Jobs : job'[k].item = job[k].item /\ job'[k].at = job[k].at
      /\ \A k \in Jobs : k # jobs[i] => job'[k] = job[k]
      /\ jobs[i] # 0 => job'[jobs[i]].stop = "cancel"
  <2>1. CASE jobs[i] = 0
    <3>1. job' = job
      BY <1>0, <2>1 DEF CancelJob
    <3>2. QED
      BY <2>1, <3>1
  <2>2. CASE jobs[i] # 0
    <3> DEFINE x == [job[jobs[i]] EXCEPT !.stop = IF @ = "cancel" THEN @ ELSE "cancel"]
    <3>1. job' = [job EXCEPT ![jobs[i]] = x]
      BY <1>0, <2>2 DEF CancelJob, Stopped
    <3>2. jobs[i] \in Jobs
      BY <1>1, <2>2 DEF JobBook, MapSound, JobOf
    <3>3. x.stop = "cancel" /\ x.item = job[jobs[i]].item /\ x.at = job[jobs[i]].at
      BY <1>1, <3>2 DEF JobRecords
    <3> HIDE DEF x
    <3>4. \A k \in Jobs : job'[k] = IF k = jobs[i] THEN x ELSE job[k]
      BY <1>1, <3>1
    <3>5. QED
      BY <3>2, <3>3, <3>4
  <2>3. QED
    BY <2>1, <2>2
<1>8. \A k \in Jobs : Open(k)' <=> Open(k)
  BY <1>1, <1>7 DEF Open
<1>9. MapSound'
  BY <1>5, <1>7 DEF JobBook, MapSound, JobOf
<1>10. OpenAlone'
  BY <1>7, <1>8 DEF JobBook, OpenAlone
<1>11. OpenKept'
  <2>1. ASSUME NEW k \in Jobs, Open(k)
        PROVE  Kept(k)'
    <3>1. Kept(k) /\ job'[k].item = job[k].item /\ job[k].item \in Items
      BY <1>7, <2>1 DEF JobBook, OpenKept, Open, ManagerInvariant, JobsSound, OutcomesSound
    <3>2. Leaving(i)'
      BY <1>3, <1>4 DEF Leaving
    <3>3. CASE k = jobs[i]
      <4>1. job[k].item = i
        BY <1>1, <3>3, ManagerAssumption DEF JobBook, MapSound, JobOf, Jobs
      <4>2. job'[k].stop = "cancel"
        BY <1>7, <3>3, ManagerAssumption DEF Jobs
      <4>3. Leaving(job[k].item)'
        BY <3>1, <3>2, <4>1 DEF Leaving, Present
      <4>4. QED
        BY <4>2, <4>3 DEF Kept
    <3>4. CASE k # jobs[i] /\ job[k].stop = "cancel"
      <4>1. Leaving(job[k].item) /\ job'[k] = job[k]
        BY <1>7, <3>1, <3>4 DEF Kept
      <4>2. Leaving(job[k].item)'
        BY <1>1, <1>4, <3>1, <4>1 DEF Leaving, Present
      <4>3. QED
        BY <3>4, <4>1, <4>2 DEF Kept
    <3>5. CASE k # jobs[i] /\ job[k].stop # "cancel"
      <4>1. ~InHand(k)
        BY <1>6 DEF InHand, ToStart, Starting
      <4>2. jobs[job[k].item] = k /\ job'[k] = job[k]
        BY <1>7, <3>1, <3>5, <4>1 DEF Kept
      <4>3. job[k].item # i
        BY <3>5, <4>2
      <4>4. QED
        BY <1>5, <3>1, <3>5, <4>2, <4>3 DEF Kept
    <3>6. QED
      BY <3>3, <3>4, <3>5
  <2>2. QED
    BY <1>8, <2>1 DEF OpenKept
<1>12. StartsFresh'
  <2>1. \A u \in Threads : thread'[u].pc \notin Starting
    BY <1>3, <1>4, <1>6 DEF ToStart, Starting
  <2>2. QED
    BY <2>1 DEF StartsFresh
<1>13. QED
  BY <1>9, <1>10, <1>11, <1>12 DEF JobBook

\* With the item gone, the jobs it had are left behind.
LEMMA ForgetBook ==
  ASSUME ManagerInvariant, JobBook, Serial, [Next]_vars, NEW t \in Threads, ForgetItem(t)
  PROVE  JobBook'
<1> DEFINE p == thread[t]
           r == [p EXCEPT !.pc = "erase"]
<1>0. PICK i \in Items : i = p.item
  BY DEF ForgetItem, At, ManagerInvariant, ThreadsSound, SoundThread, Aimed
<1>1. /\ p \in ThreadRecords /\ p.pc = "forget" /\ thread \in [Threads -> ThreadRecords]
      /\ UNCHANGED << jobs, job, outcomes >> /\ Go(t, r)
      /\ items \in [Items -> Rows] /\ items' = [items EXCEPT ![i] = Gone]
  BY <1>0 DEF ForgetItem, At, ManagerInvariant, ThreadsSound, StoreTyped
<1>2. r.pc = "erase"
  BY <1>1 DEF ThreadRecords
<1>3. \A u \in Threads : thread'[u] = IF u = t THEN r ELSE thread[u]
  BY <1>1 DEF Go
<1> HIDE DEF r
<1>4. \A u \in Threads : ~ToStart(u)
  BY <1>1 DEF Serial
<1>5. \A k \in Items : Leaving(k) => Leaving(k)'
  <2>1. \A k \in Items : items'[k] = IF k = i THEN Gone ELSE items[k]
    BY <1>1
  <2>2. ASSUME NEW k \in Items, Leaving(k)
        PROVE  Leaving(k)'
    <3>1. CASE k = i
      BY <2>1, <3>1 DEF Leaving, Present, Gone
    <3>2. CASE k # i
      BY <1>0, <1>1, <1>3, <2>1, <2>2, <3>2 DEF Leaving, Present
    <3>3. QED
      BY <3>1, <3>2
  <2>3. QED
    BY <2>2
<1>6. \A k \in Jobs : Open(k)' <=> Open(k)
  BY <1>1 DEF Open
<1>7. MapSound' /\ OpenAlone'
  BY <1>1, <1>6 DEF JobBook, MapSound, OpenAlone, JobOf
<1>8. OpenKept'
  <2>1. ASSUME NEW k \in Jobs, Open(k)
        PROVE  Kept(k)'
    <3>1. Kept(k) /\ job'[k] = job[k] /\ job[k].item \in Items
      BY <1>1, <2>1 DEF JobBook, OpenKept, Open, ManagerInvariant, JobsSound, OutcomesSound
    <3>2. CASE job[k].stop = "cancel"
      <4>1. Leaving(job[k].item)
        BY <3>1, <3>2 DEF Kept
      <4>2. Leaving(job[k].item)'
        BY <1>5, <3>1, <4>1 DEF Leaving, Present
      <4>3. QED
        BY <3>1, <3>2, <4>2 DEF Kept
    <3>3. CASE job[k].stop # "cancel"
      <4>1. ~InHand(k)
        BY <1>4 DEF InHand, ToStart, Starting
      <4>2. QED
        BY <1>1, <3>1, <3>3, <4>1 DEF Kept
    <3>4. QED
      BY <3>2, <3>3
  <2>2. QED
    BY <1>6, <2>1 DEF OpenKept
<1>9. StartsFresh'
  <2>1. \A u \in Threads : thread'[u].pc \notin Starting
    BY <1>2, <1>3, <1>4 DEF ToStart, Starting
  <2>2. QED
    BY <2>1 DEF StartsFresh
<1>10. QED
  BY <1>7, <1>8, <1>9 DEF JobBook

\* handle_outcome takes the entry of the outcome's item out of the map: it is the entry of the
\* outcome's own job, since the item has no other that is open.
LEMMA TakeBook ==
  ASSUME ManagerInvariant, JobBook, HandlerTake
  PROVE  JobBook'
<1>0. PICK j \in Jobs : j = Head(outcomes)
  <2>1. Head(outcomes) \in Jobs
    BY DEF HandlerTake, ManagerInvariant, OutcomesSound
  <2>2. QED
    BY <2>1
<1> DEFINE i == job[j].item
<1>1. /\ outcomes \in Seq(Jobs) /\ outcomes # << >> /\ outcomes' = Tail(outcomes)
      /\ UNCHANGED << items, job, thread >> /\ jobs' = [jobs EXCEPT ![i] = 0]
      /\ jobs \in [Items -> 0 .. MaxJobs]
  BY <1>0 DEF HandlerTake, ManagerInvariant, OutcomesSound, ControlTyped
<1>2. /\ 1 \in DOMAIN outcomes /\ j = outcomes[1]
      /\ \A k \in DOMAIN outcomes' : k + 1 \in DOMAIN outcomes /\ outcomes'[k] = outcomes[k + 1] /\ k + 1 # 1
  BY <1>0, <1>1
<1>3. job[j].at = "sent" /\ Open(j)
  BY <1>2 DEF ManagerInvariant, OutcomesSound, Open
<1>4. i \in Items
  BY <1>2, <1>3 DEF ManagerInvariant, JobsSound
<1>5. \A k \in Jobs : Open(k)' => Open(k)
  BY <1>1, <1>2 DEF Open
<1>6. ~Open(j)'
  <2>1. \A k \in DOMAIN outcomes' : outcomes'[k] # j
    BY <1>2 DEF ManagerInvariant, OutcomesSound
  <2>2. QED
    BY <1>1, <1>3, <2>1 DEF Open
<1>7. \A k \in Items : jobs'[k] = IF k = i THEN 0 ELSE jobs[k]
  BY <1>1
<1>8. MapSound'
  BY <1>1, <1>7 DEF JobBook, MapSound, JobOf
<1>9. OpenAlone'
  BY <1>1, <1>5 DEF JobBook, OpenAlone
<1>10. OpenKept'
  <2>1. ASSUME NEW k \in Jobs, Open(k)'
        PROVE  Kept(k)'
    <3>1. Open(k) /\ Kept(k) /\ k # j
      BY <1>5, <1>6, <2>1 DEF JobBook, OpenKept
    <3>2. job[k].item # i /\ job[k].item \in Items
      BY <1>2, <1>3, <3>1 DEF JobBook, OpenAlone, Open, ManagerInvariant, JobsSound, OutcomesSound
    <3>3. QED
      BY <1>1, <1>7, <3>1, <3>2 DEF Kept, Leaving, InHand, Present
  <2>2. QED
    BY <2>1 DEF OpenKept
<1>11. StartsFresh'
  <2>1. ASSUME NEW u \in Threads, thread[u].pc \in Starting
        PROVE  jobs'[thread[u].item] = 0
    <3>1. thread[u].item \in Items
      BY <2>1 DEF ManagerInvariant, ThreadsSound, SoundThread, Starting, Aimed
    <3>2. QED
      BY <1>7, <2>1, <3>1 DEF JobBook, StartsFresh
  <2>2. QED
    BY <1>1, <1>5, <2>1 DEF JobBook, StartsFresh, JobOf
<1>12. QED
  BY <1>8, <1>9, <1>10, <1>11 DEF JobBook

\* Every step keeps the book while starts and deletions are serial.
LEMMA BookStep ==
  ASSUME ManagerInvariant, JobBook, Serial, [Next]_vars
  PROVE  JobBook'
<1>1. CASE UNCHANGED vars
  BY <1>1 DEF vars, JobBook, MapSound, JobOf, OpenAlone, OpenKept, Kept, StartsFresh, Open, InHand,
     Leaving, Present
<1>2. ASSUME NEW t \in Callers, NEW cmd \in Commands, NEW i \in Items, Begin(t, cmd, i)
      PROVE  JobBook'
  <2>1. t \in Threads
    BY DEF Threads
  <2>2. QED
    BY <1>2, <2>1, CalmBook
<1>3. CASE BeginTick \/ Detect
  <2>1. Ticker \in Threads
    BY DEF Threads
  <2>2. QED
    BY <1>3, <2>1, CalmBook
<1>4. ASSUME NEW t \in Threads, ThreadStep(t)
      PROVE  JobBook'
  <2>1. CASE CheckItem(t) \/ SpawnJob(t) \/ InsertJob(t) \/ CancelJob(t) \/ ForgetItem(t)
    BY <2>1, CheckItemBook, SpawnBook, InsertBook, CancelBook, ForgetBook
  <2>2. CASE \/ MarkItem(t) \/ StartsDone(t) \/ PauseItem(t) \/ Unqueue(t) \/ PausesDone(t)
             \/ EraseRow(t) \/ ResetItem(t) \/ StartCollect(t) \/ Enqueue(t) \/ StopCollect(t)
             \/ Unwait(t) \/ Admit(t)
    BY <2>2, CalmBook
  <2>3. QED
    BY <1>4, <2>1, <2>2 DEF ThreadStep
<1>5. ASSUME NEW j \in Jobs, JobEnds(j) \/ JobReports(j)
      PROVE  JobBook'
  BY <1>5, CalmBook
<1>6. CASE HandlerStep
  BY <1>6, TakeBook, CalmBook DEF HandlerStep
<1>7. CASE Tick \/ SaverBegin \/ SaverAnswer \/ SaverCollect \/ \E a \in Actors : Persist(a)
  BY <1>7, CalmBook
<1>8. QED
  BY <1>1, <1>2, <1>3, <1>4, <1>5, <1>6, <1>7 DEF Next

-----------------------------------------------------------------------------
(***************************************************************************)
(* Where starts come from.                                                 *)
(***************************************************************************)
AtStart == Starting \cup {"start"}

\* A command's steps come back to no start and no deletion but through the first of them.
LEMMA StepTable ==
  ASSUME ManagerInvariant, NEW t \in Threads, ThreadStep(t)
  PROVE  /\ \A u \in Threads \ {t} : thread'[u] = thread[u]
         /\ thread'[t].pc # "cancel"
         /\ thread'[t].pc = "reset" => thread[t].pc = "cancel" /\ thread[t].cmd # "delete"
         /\ thread'[t].pc = "forget" => thread[t].pc = "cancel"
         /\ thread'[t].pc = "erase" => thread[t].pc = "forget"
         /\ thread'[t].pc \in AtStart => thread[t].pc \in AtStart \/ ResetItem(t) \/ Admit(t)
<1> DEFINE p == thread[t]
           Table(r) == /\ r.pc # "cancel"
                       /\ r.pc = "reset" => p.pc = "cancel" /\ p.cmd # "delete"
                       /\ r.pc = "forget" => p.pc = "cancel"
                       /\ r.pc = "erase" => p.pc = "forget"
                       /\ r.pc \in AtStart => p.pc \in AtStart \/ ResetItem(t) \/ Admit(t)
<1>1. p \in ThreadRecords /\ thread \in [Threads -> ThreadRecords]
  BY DEF ManagerInvariant, ThreadsSound
<1>2. SUFFICES \E r : Go(t, r) /\ Table(r)
  <2>1. ASSUME NEW r, Go(t, r)
        PROVE  \A u \in Threads : thread'[u] = IF u = t THEN r ELSE thread[u]
    BY <1>1, <2>1 DEF Go
  <2>2. QED
    BY <1>2, <2>1
<1>3. Resting(t).pc = "idle"
  BY DEF Resting, Doing
<1>4. CASE CheckItem(t)
  <2>1. PICK i \in p.todo :
          \/ Go(t, [p EXCEPT !.todo = @ \ {i}])
          \/ Go(t, [[p EXCEPT !.todo = @ \ {i}] EXCEPT !.pc = "mark", !.item = i])
    BY <1>4 DEF CheckItem
  <2>2. p.pc = "start"
    BY <1>4 DEF CheckItem, At
  <2>3. /\ Table([p EXCEPT !.todo = @ \ {i}])
        /\ Table([[p EXCEPT !.todo = @ \ {i}] EXCEPT !.pc = "mark", !.item = i])
    BY <1>1, <2>2 DEF ThreadRecords, AtStart, Starting
  <2> HIDE DEF Table
  <2>4. QED
    BY <2>1, <2>3, Zenon
<1>5. CASE MarkItem(t) \/ Unqueue(t) \/ InsertJob(t) \/ ForgetItem(t)
  <2>1. \/ p.pc = "mark" /\ Go(t, [p EXCEPT !.pc = "spawn"])
        \/ Go(t, [p EXCEPT !.pc = "pause", !.item = NoItem])
        \/ p.pc = "insert" /\ Go(t, [p EXCEPT !.pc = "start", !.item = NoItem, !.job = 0])
        \/ p.pc = "forget" /\ Go(t, [p EXCEPT !.pc = "erase"])
    BY <1>5 DEF MarkItem, Unqueue, InsertJob, ForgetItem, At
  <2>2. /\ p.pc = "mark" => Table([p EXCEPT !.pc = "spawn"])
        /\ Table([p EXCEPT !.pc = "pause", !.item = NoItem])
        /\ p.pc = "insert" => Table([p EXCEPT !.pc = "start", !.item = NoItem, !.job = 0])
        /\ p.pc = "forget" => Table([p EXCEPT !.pc = "erase"])
    BY <1>1 DEF ThreadRecords, AtStart, Starting
  <2> HIDE DEF Table
  <2>3. QED
    BY <2>1, <2>2, Zenon
<1>6. CASE SpawnJob(t)
  <2>1. /\ p.pc = "spawn"
        /\ \/ \E j : Go(t, [p EXCEPT !.pc = "insert", !.job = j])
           \/ Go(t, [p EXCEPT !.pc = "start", !.item = NoItem])
    BY <1>6 DEF SpawnJob, At
  <2>2. /\ \A j : Table([p EXCEPT !.pc = "insert", !.job = j])
        /\ Table([p EXCEPT !.pc = "start", !.item = NoItem])
    BY <1>1, <2>1 DEF ThreadRecords, AtStart, Starting
  <2> HIDE DEF Table
  <2>3. QED
    BY <2>1, <2>2, Zenon
<1>7. CASE StartsDone(t) \/ PausesDone(t) \/ EraseRow(t) \/ ResetItem(t)
  <2>1. \/ Go(t, Doing("tick", "detect", {})) \/ Go(t, Resting(t))
        \/ Go(t, Doing("stopQueue", "unwait", p.wait))
        \/ ResetItem(t) /\ Go(t, Doing("redownload", "start", {p.item}))
    BY <1>7 DEF StartsDone, PausesDone, EraseRow, ResetItem
  <2>2. /\ Table(Doing("tick", "detect", {})) /\ Table(Resting(t))
        /\ Table(Doing("stopQueue", "unwait", p.wait))
        /\ ResetItem(t) => Table(Doing("redownload", "start", {p.item}))
    BY <1>3 DEF Doing, AtStart, Starting
  <2> HIDE DEF Table
  <2>3. QED
    BY <2>1, <2>2, Zenon
<1>8. CASE PauseItem(t)
  <2>1. PICK i \in p.todo :
          \/ Go(t, [p EXCEPT !.todo = @ \ {i}])
          \/ Go(t, [[p EXCEPT !.todo = @ \ {i}] EXCEPT !.pc = "unqueue", !.item = i])
    BY <1>8 DEF PauseItem
  <2>2. p.pc = "pause"
    BY <1>8 DEF PauseItem, At
  <2>3. /\ Table([p EXCEPT !.todo = @ \ {i}])
        /\ Table([[p EXCEPT !.todo = @ \ {i}] EXCEPT !.pc = "unqueue", !.item = i])
    BY <1>1, <2>2 DEF ThreadRecords, AtStart, Starting
  <2> HIDE DEF Table
  <2>4. QED
    BY <2>1, <2>3, Zenon
<1>9. CASE CancelJob(t)
  <2>1. /\ p.pc = "cancel"
        /\ \/ p.cmd = "delete" /\ Go(t, [p EXCEPT !.pc = "forget"])
           \/ p.cmd # "delete" /\ Go(t, [p EXCEPT !.pc = "reset"])
    BY <1>9 DEF CancelJob, At
  <2>2. Table([p EXCEPT !.pc = "forget"]) /\ (p.cmd # "delete" => Table([p EXCEPT !.pc = "reset"]))
    BY <1>1, <2>1 DEF ThreadRecords, AtStart, Starting
  <2> HIDE DEF Table
  <2>3. QED
    BY <2>1, <2>2, Zenon
<1>10. CASE Enqueue(t) \/ Unwait(t) \/ Admit(t)
  <2>1. \/ p.pc = "enqueue" /\ Go(t, [p EXCEPT !.pc = "admit"])
        \/ Go(t, Resting(t))
        \/ p.pc \in {"enqueue", "unwait"} /\ \E i : Go(t, [p EXCEPT !.todo = @ \ {i}])
        \/ Admit(t) /\ \E S : Go(t, [p EXCEPT !.pc = "start", !.todo = S])
    BY <1>10 DEF Enqueue, Unwait, Admit, At
  <2>2. /\ Table([p EXCEPT !.pc = "admit"]) /\ Table(Resting(t))
        /\ p.pc \in {"enqueue", "unwait"} => \A i : Table([p EXCEPT !.todo = @ \ {i}])
        /\ Admit(t) => \A S : Table([p EXCEPT !.pc = "start", !.todo = S])
    BY <1>1, <1>3 DEF ThreadRecords, AtStart, Starting
  <2> HIDE DEF Table
  <2>3. QED
    BY <2>1, <2>2, Zenon
<1>11. CASE StartCollect(t) \/ StopCollect(t)
  <2>1. \/ \E S : Go(t, Doing("startQueue", "enqueue", S))
        \/ \E S, x : Go(t, [Doing("stopQueue", "pause", S) EXCEPT !.wait = x])
    BY <1>11 DEF StartCollect, StopCollect
  <2>2. /\ \A S : Table(Doing("startQueue", "enqueue", S))
        /\ \A S, x : Table([Doing("stopQueue", "pause", S) EXCEPT !.wait = x])
    BY DEF Doing, AtStart, Starting
  <2> HIDE DEF Table
  <2>3. QED
    BY <2>1, <2>2, Zenon
<1>12. QED
  BY <1>4, <1>5, <1>6, <1>7, <1>8, <1>9, <1>10, <1>11 DEF ThreadStep

\* Commands one by one: the queue does not run, so the tick starts nothing.
OneByOneKept ==
  /\ ~queue.running
  /\ \A t \in Threads :
       /\ thread[t].pc # "reset"
       /\ thread[t].pc = "cancel" => thread[t].cmd = "delete"
       /\ t \notin Callers => /\ thread[t].todo = {}
                              /\ thread[t].pc \in {"idle", "admit", "start", "detect"}

\* With one caller and no queue, only that caller starts and deletes.
LEMMA OneByOneStep ==
  ASSUME OneByOne, ManagerInvariant, OneByOneKept, [Next]_vars
  PROVE  OneByOneKept'
<1>1. thread \in [Threads -> ThreadRecords]
  BY DEF ManagerInvariant, ThreadsSound
<1>2. ASSUME UNCHANGED << thread, queue >>
      PROVE  OneByOneKept'
  BY <1>2 DEF OneByOneKept
<1>3. ASSUME NEW t \in Callers, NEW cmd \in Commands, NEW i \in Items, Begin(t, cmd, i)
      PROVE  OneByOneKept'
  <2>1. t \in Threads /\ cmd \in {"start", "pause", "delete"}
    BY DEF Threads, OneByOne
  <2>2. queue' = queue
    BY <1>3, <2>1 DEF Begin
  <2>3. \/ Go(t, Doing(cmd, "start", {i})) \/ Go(t, Doing(cmd, "pause", {i}))
        \/ cmd = "delete" /\ Go(t, [Doing(cmd, "cancel", {}) EXCEPT !.item = i])
    BY <1>3, <2>1 DEF Begin
  <2>4. \E r : Go(t, r) /\ r.pc # "reset" /\ (r.pc = "cancel" => r.cmd = "delete")
    <3>1. /\ Doing(cmd, "start", {i}).pc = "start" /\ Doing(cmd, "pause", {i}).pc = "pause"
          /\ [Doing(cmd, "cancel", {}) EXCEPT !.item = i].pc = "cancel"
          /\ [Doing(cmd, "cancel", {}) EXCEPT !.item = i].cmd = cmd
      BY DEF Doing
    <3>2. QED
      BY <2>3, <3>1
  <2>5. QED
    BY <1>1, <1>3, <2>1, <2>2, <2>4 DEF Go, OneByOneKept
<1>4. CASE BeginTick \/ Detect
  <2>1. ~queue'.running
    <3>1. queue' = queue \/ queue' = [running |-> FALSE, busy |-> FALSE]
      BY <1>4 DEF BeginTick, Detect
    <3>2. QED
      BY <3>1 DEF OneByOneKept
  <2>2. PICK r : Go(Ticker, r) /\ r.pc \in {"idle", "admit"} /\ r.todo = {}
    <3>1. Go(Ticker, Doing("tick", "admit", {})) \/ Go(Ticker, Resting(Ticker))
      BY <1>4 DEF BeginTick, Detect
    <3>2. /\ Doing("tick", "admit", {}).pc = "admit" /\ Doing("tick", "admit", {}).todo = {}
          /\ Resting(Ticker).pc = "idle" /\ Resting(Ticker).todo = {}
      BY DEF Doing, Resting
    <3>3. QED
      BY <3>1, <3>2
  <2>3. \A u \in Threads : thread'[u] = IF u = Ticker THEN r ELSE thread[u]
    BY <1>1, <2>2 DEF Go
  <2>4. QED
    BY <2>1, <2>2, <2>3 DEF OneByOneKept
<1>5. ASSUME NEW t \in Threads, ThreadStep(t)
      PROVE  OneByOneKept'
  <2>1. queue' = queue
    BY <1>5 DEF ThreadStep, CheckItem, MarkItem, SpawnJob, InsertJob, StartsDone, PauseItem, Unqueue,
       PausesDone, CancelJob, ForgetItem, EraseRow, ResetItem, StartCollect, Enqueue, StopCollect,
       Unwait, Admit
  <2>2. /\ \A u \in Threads \ {t} : thread'[u] = thread[u]
        /\ thread'[t].pc # "cancel" /\ thread'[t].pc # "reset"
    BY <1>5, StepTable DEF OneByOneKept
  <2>3. ASSUME t \notin Callers
        PROVE  thread'[t].todo = {} /\ thread'[t].pc \in {"idle", "admit", "start", "detect"}
    <3>1. t = Ticker /\ thread[t].todo = {} /\ thread[t].pc \in {"idle", "admit", "start", "detect"}
      BY <2>3 DEF OneByOneKept, Threads
    <3>2. StartsDone(t) \/ Admit(t)
      BY <1>5, <3>1 DEF ThreadStep, CheckItem, MarkItem, SpawnJob, InsertJob, PauseItem, Unqueue,
         PausesDone, CancelJob, ForgetItem, EraseRow, ResetItem, StartCollect, Enqueue, StopCollect,
         Unwait, At
    <3>3. CASE StartsDone(t)
      <4>1. Go(t, Doing("tick", "detect", {}))
        BY <3>1, <3>3 DEF StartsDone
      <4>2. Doing("tick", "detect", {}).pc = "detect" /\ Doing("tick", "detect", {}).todo = {}
        BY DEF Doing
      <4>3. QED
        BY <1>1, <4>1, <4>2 DEF Go
    <3>4. CASE Admit(t)
      <4>1. Go(t, [thread[t] EXCEPT !.pc = "start", !.todo = {}])
        BY <3>4 DEF Admit, Admissible, OneByOneKept
      <4>2. [thread[t] EXCEPT !.pc = "start", !.todo = {}].pc = "start"
            /\ [thread[t] EXCEPT !.pc = "start", !.todo = {}].todo = {}
        BY <1>1 DEF ThreadRecords
      <4>3. QED
        BY <1>1, <4>1, <4>2 DEF Go
    <3>5. QED
      BY <3>2, <3>3, <3>4
  <2>4. QED
    BY <2>1, <2>2, <2>3 DEF OneByOneKept
<1>6. CASE \/ \E j \in Jobs : JobEnds(j) \/ JobReports(j)
           \/ HandlerStep \/ Tick \/ SaverBegin \/ SaverAnswer \/ SaverCollect
           \/ (\E a \in Actors : Persist(a)) \/ UNCHANGED vars
  BY <1>2, <1>6 DEF JobEnds, JobReports, HandlerStep, HandlerTake, HandlerSettle, HandlerScanned,
     HandlerLast, Tick, SaverBegin, SaverAnswer, SaverCollect, Persist, vars
<1>7. QED
  BY <1>3, <1>4, <1>5, <1>6 DEF Next

\* By admission: who starts an item holds the admission lock, and nothing is deleted.
ByAdmissionKept ==
  /\ \A t \in Threads : /\ thread[t].pc \in AtStart => admission = t
                        /\ thread[t].pc \notin {"cancel", "forget", "erase", "reset"}
  /\ \A i \in Items : Present(i)

\* With starts by admission only, the lock is held by who starts.
LEMMA ByAdmissionStep ==
  ASSUME ByAdmission, ManagerInvariant, ByAdmissionKept, [Next]_vars
  PROVE  ByAdmissionKept'
<1>1. thread \in [Threads -> ThreadRecords]
  BY DEF ManagerInvariant, ThreadsSound
<1>2. \A i \in Items : Present(i)'
  BY Presence DEF ByAdmissionKept, ForgetItem, At
<1>3. ASSUME NEW t \in Threads, NEW r, Go(t, r), admission' = admission,
             r.pc \notin AtStart \cup {"cancel", "forget", "erase", "reset"}
      PROVE  ByAdmissionKept'
  <2>1. \A u \in Threads : thread'[u] = IF u = t THEN r ELSE thread[u]
    BY <1>1, <1>3 DEF Go
  <2>2. QED
    BY <1>2, <1>3, <2>1 DEF ByAdmissionKept
<1>4. ASSUME NEW t \in Callers, NEW cmd \in Commands, NEW i \in Items, Begin(t, cmd, i)
      PROVE  ByAdmissionKept'
  <2>1. t \in Threads /\ cmd \in {"startQueue", "stopQueue", "pause"}
    BY DEF Threads, ByAdmission
  <2>2. \/ Go(t, Doing(cmd, "pause", {i})) \/ Go(t, Doing(cmd, "collect", {}))
        \/ Go(t, Doing(cmd, "stopCollect", {}))
    BY <1>4, <2>1 DEF Begin
  <2>3. /\ Doing(cmd, "pause", {i}).pc = "pause" /\ Doing(cmd, "collect", {}).pc = "collect"
        /\ Doing(cmd, "stopCollect", {}).pc = "stopCollect"
    BY DEF Doing
  <2>4. admission' = admission
    BY <1>4 DEF Begin
  <2>5. {"pause", "collect", "stopCollect"} \cap (AtStart \cup {"cancel", "forget", "erase", "reset"}) = {}
    BY DEF AtStart, Starting
  <2>6. QED
    BY <1>3, <2>1, <2>2, <2>3, <2>4, <2>5
<1>5. CASE BeginTick \/ Detect
  <2>1. Ticker \in Threads /\ admission' = admission
    BY <1>5 DEF Threads, BeginTick, Detect
  <2>2. Go(Ticker, Doing("tick", "admit", {})) \/ Go(Ticker, Resting(Ticker))
    BY <1>5 DEF BeginTick, Detect
  <2>3. Doing("tick", "admit", {}).pc = "admit" /\ Resting(Ticker).pc = "idle"
    BY DEF Doing, Resting
  <2>4. {"admit", "idle"} \cap (AtStart \cup {"cancel", "forget", "erase", "reset"}) = {}
    BY DEF AtStart, Starting
  <2>5. QED
    BY <1>3, <2>1, <2>2, <2>3, <2>4
<1>6. ASSUME NEW t \in Threads, ThreadStep(t)
      PROVE  ByAdmissionKept'
  <2>1. /\ \A u \in Threads \ {t} : thread'[u] = thread[u]
        /\ thread'[t].pc \notin {"cancel", "forget", "erase", "reset"}
        /\ thread'[t].pc \in AtStart => thread[t].pc \in AtStart \/ Admit(t)
    <3>1. ~ResetItem(t)
      BY DEF ResetItem, At, ByAdmissionKept
    <3>2. QED
      BY <1>6, <3>1, StepTable DEF ByAdmissionKept
  <2>2. ASSUME NEW u \in Threads, thread'[u].pc \in AtStart
        PROVE  admission' = u
    <3>1. CASE Admit(t)
      <4>1. u = t
        <5>1. u # t => admission = u /\ admission = Nobody
          BY <2>1, <2>2, <3>1 DEF Admit, ByAdmissionKept
        <5>2. QED
          BY <5>1, ManagerAssumption
      <4>2. QED
        BY <3>1, <4>1 DEF Admit
    <3>2. CASE StartsDone(t)
      <4>1. thread[t].pc = "start"
        BY <3>2 DEF StartsDone, At
      <4>2. thread'[t].pc \notin AtStart
        <5>1. Go(t, Doing("tick", "detect", {})) \/ Go(t, Resting(t))
          BY <3>2 DEF StartsDone
        <5>2. Doing("tick", "detect", {}).pc = "detect" /\ Resting(t).pc = "idle"
          BY DEF Doing, Resting
        <5>3. thread'[t].pc \in {"detect", "idle"}
          BY <1>1, <5>1, <5>2 DEF Go
        <5>4. QED
          BY <5>3 DEF AtStart, Starting
      <4>3. u # t /\ admission = u /\ admission = t
        BY <2>1, <2>2, <4>1, <4>2 DEF ByAdmissionKept, AtStart
      <4>4. QED
        BY <4>3
    <3>3. CASE ~Admit(t) /\ ~StartsDone(t)
      <4>1. admission' = admission
        BY <1>6, <3>3 DEF ThreadStep, CheckItem, MarkItem, SpawnJob, InsertJob, PauseItem, Unqueue,
           PausesDone, CancelJob, ForgetItem, EraseRow, ResetItem, StartCollect, Enqueue,
           StopCollect, Unwait
      <4>2. thread[u].pc \in AtStart
        BY <2>1, <2>2, <3>3
      <4>3. QED
        BY <4>1, <4>2 DEF ByAdmissionKept
    <3>4. QED
      BY <3>1, <3>2, <3>3
  <2>3. QED
    BY <1>2, <2>1, <2>2 DEF ByAdmissionKept
<1>7. CASE \/ \E j \in Jobs : JobEnds(j) \/ JobReports(j)
           \/ HandlerStep \/ Tick \/ SaverBegin \/ SaverAnswer \/ SaverCollect
           \/ (\E a \in Actors : Persist(a)) \/ UNCHANGED vars
  <2>1. UNCHANGED << thread, admission >>
    BY <1>7 DEF JobEnds, JobReports, HandlerStep, HandlerTake, HandlerSettle, HandlerScanned,
       HandlerLast, Tick, SaverBegin, SaverAnswer, SaverCollect, Persist, vars
  <2>2. QED
    BY <1>2, <2>1 DEF ByAdmissionKept
<1>8. QED
  BY <1>4, <1>5, <1>6, <1>7 DEF Next

\* Either way starts and deletions are serial.
SerialKept == (OneByOne => OneByOneKept) /\ (ByAdmission => ByAdmissionKept)

\* Both ways no two threads start, or start and delete, at once.
LEMMA SerialHolds ==
  ASSUME OneByOne \/ ByAdmission, SerialKept
  PROVE  Serial
<1>1. CASE OneByOne
  <2>1. \A s \in Threads : ToStart(s) => s \in Callers
    BY <1>1 DEF SerialKept, OneByOneKept, ToStart, Starting
  <2>2. \A s \in Threads : thread[s].pc \in {"cancel", "forget"} => s \in Callers
    BY <1>1 DEF SerialKept, OneByOneKept
  <2>3. \A s \in Threads : ToStart(s) => thread[s].pc \notin {"cancel", "forget"}
    BY DEF ToStart, Starting
  <2>4. QED
    BY <1>1, <2>1, <2>2, <2>3 DEF SerialKept, OneByOneKept, OneByOne, Serial
<1>2. CASE ByAdmission
  <2>1. \A s \in Threads : ToStart(s) => admission = s
    BY <1>2 DEF SerialKept, ByAdmissionKept, ToStart, AtStart
  <2>2. QED
    BY <1>2, <2>1 DEF SerialKept, ByAdmissionKept, Serial
<1>3. QED
  BY <1>1, <1>2

\* At first there is no job.
LEMMA JobsInit ==
  ASSUME Init
  PROVE  JobBook /\ SerialKept
<1>1. /\ \A t \in Threads : thread[t] = Resting(t) /\ Resting(t).pc = "idle" /\ Resting(t).todo = {}
      /\ \A i \in Items : items[i] = Row("idle", FALSE) /\ jobs[i] = 0
      /\ \A j \in Jobs : job[j] = NoJob
      /\ outcomes = << >> /\ ~queue.running
  BY DEF Init, Resting, Doing
<1>2. \A j \in Jobs : ~Open(j)
  BY <1>1 DEF Open, NoJob
<1>3. JobBook
  BY <1>1, <1>2 DEF JobBook, MapSound, OpenAlone, OpenKept, StartsFresh, Starting
<1>4. OneByOneKept /\ ByAdmissionKept
  BY <1>1 DEF OneByOneKept, ByAdmissionKept, AtStart, Starting, Present, Row
<1>5. QED
  BY <1>3, <1>4 DEF SerialKept

\* The book of jobs is right in every state.
THEOREM JobBookHolds ==
  ASSUME OneByOne \/ ByAdmission
  PROVE  Spec => [](ManagerInvariant /\ JobBook /\ SerialKept)
<1> DEFINE Inv == ManagerInvariant /\ JobBook /\ SerialKept
<1>1. Init => Inv
  BY ManagerInit, JobsInit
<1>2. Inv /\ [Next]_vars => Inv'
  <2> SUFFICES ASSUME Inv, [Next]_vars
               PROVE  Inv'
    OBVIOUS
  <2>1. ManagerInvariant'
    BY ManagerStep
  <2>2. JobBook'
    BY SerialHolds, BookStep
  <2>3. SerialKept'
    BY OneByOneStep, ByAdmissionStep DEF SerialKept
  <2>4. QED
    BY <2>1, <2>2, <2>3
<1>3. QED
  BY <1>1, <1>2, PTL DEF Spec

\* A job that nobody cancelled is in the map, or its starter is about to put it there, for any
\* number of items and jobs: where single commands come one after the other, deletions
\* included, and where only the queue starts items, whatever threads run its commands.
THEOREM JobsAreMapped ==
  ASSUME OneByOne \/ ByAdmission
  PROVE  Spec => []LiveJobsAreMapped
<1>1. JobBook => LiveJobsAreMapped
  BY DEF JobBook, OpenKept, Kept, Open, InHand, Running, LiveJobsAreMapped
<1>2. QED
  BY <1>1, JobBookHolds, PTL

-----------------------------------------------------------------------------
(***************************************************************************)
(* The queue's slots.                                                      *)
(*                                                                         *)
(* A slot is taken by an item that has a running job, and by one that was  *)
(* admitted and has none yet.  Only admission takes slots, and it counts   *)
(* every taken one as active: the lock says that nobody is starting items, *)
(* so a running job is in the map.                                         *)
(***************************************************************************)
Live == {i \in Items : \E j \in Jobs : Running(j) /\ job[j].item = i}

Claims(t, i) == \/ thread[t].pc \in AtStart /\ i \in thread[t].todo
                \/ thread[t].pc \in Starting /\ i = thread[t].item
Claimed == {i \in Items : \E t \in Threads : Claims(t, i)}

Taken == Live \cup Claimed
Capacity == Cardinality(Taken) <= MaxConcurrent

\* An item that has no running job gets one only from who claims it.
LEMMA LiveStep ==
  ASSUME ManagerInvariant, [Next]_vars, NEW i \in Items, i \in Live'
  PROVE  i \in Live \/ \E t \in Threads : SpawnJob(t) /\ thread[t].item = i
<1>1. job \in [Jobs -> JobRecords]
  BY DEF ManagerInvariant, JobsSound
<1>2. ASSUME \A j \in Jobs : job'[j].at = "running" => job[j].at = "running" /\ job'[j].item = job[j].item
      PROVE  i \in Live
  BY <1>2 DEF Live, Running
<1>3. CASE job' = job
  BY <1>2, <1>3
<1>4. ASSUME NEW k, NEW stop, job' = Stopped(k, stop)
      PROVE  i \in Live
  <2>1. ASSUME NEW j \in Jobs
        PROVE  job'[j].at = job[j].at /\ job'[j].item = job[j].item
    <3>1. job'[j] = IF j = k THEN [job[j] EXCEPT !.stop = IF @ = "cancel" THEN @ ELSE stop] ELSE job[j]
      BY <1>1, <1>4 DEF Stopped
    <3>2. job[j] \in JobRecords
      BY <1>1
    <3>3. QED
      BY <3>1, <3>2 DEF JobRecords
  <2>2. QED
    BY <1>2, <2>1
<1>5. ASSUME NEW j \in Jobs, JobEnds(j) \/ JobReports(j)
      PROVE  i \in Live
  <2>1. PICK r, at : job' = [job EXCEPT ![j].at = at, ![j].result = r] /\ at \in {"reporting", "sent"}
    <3>1. CASE JobEnds(j)
      BY <3>1 DEF JobEnds
    <3>2. CASE JobReports(j)
      <4>1. job' = [job EXCEPT ![j].at = "sent", ![j].result = job[j].result]
        BY <1>1, <3>2 DEF JobReports, JobRecords
      <4>2. QED
        BY <4>1
    <3>3. QED
      BY <1>5, <3>1, <3>2
  <2>2. \A k \in Jobs : /\ job'[k].item = job[k].item
                        /\ k # j => job'[k].at = job[k].at
                        /\ k = j => job'[k].at # "running"
    BY <1>1, <2>1 DEF JobRecords
  <2>3. QED
    BY <1>2, <2>2
<1>6. ASSUME NEW t \in Threads, SpawnJob(t)
      PROVE  i \in Live \/ thread[t].item = i
  <2>1. \/ job' = job
        \/ \E j \in Jobs : job' = [job EXCEPT ![j] = [NoJob EXCEPT !.item = thread[t].item, !.at = "running"]]
    BY <1>6 DEF SpawnJob
  <2>2. ASSUME NEW j \in Jobs,
               job' = [job EXCEPT ![j] = [NoJob EXCEPT !.item = thread[t].item, !.at = "running"]]
        PROVE  \A k \in Jobs : IF k = j THEN job'[k].item = thread[t].item ELSE job'[k] = job[k]
    BY <1>1, <2>2 DEF NoJob
  <2>3. QED
    BY <2>1, <2>2 DEF Live, Running
<1>7. ASSUME NEW t \in Threads, ThreadStep(t), ~SpawnJob(t)
      PROVE  job' = job \/ \E k, stop : job' = Stopped(k, stop)
  BY <1>7 DEF ThreadStep, CheckItem, MarkItem, InsertJob, StartsDone, PauseItem, Unqueue,
     PausesDone, CancelJob, ForgetItem, EraseRow, ResetItem, StartCollect, Enqueue, StopCollect,
     Unwait, Admit
<1>8. CASE \/ \E t \in Callers, cmd \in Commands, k \in Items : Begin(t, cmd, k)
           \/ BeginTick \/ Detect
           \/ HandlerStep \/ Tick \/ SaverBegin \/ SaverAnswer \/ SaverCollect
           \/ (\E a \in Actors : Persist(a)) \/ UNCHANGED vars
  BY <1>3, <1>8 DEF Begin, BeginTick, Detect, HandlerStep, HandlerTake, HandlerSettle,
     HandlerScanned, HandlerLast, Tick, SaverBegin, SaverAnswer, SaverCollect, Persist, vars
<1>9. QED
  BY <1>3, <1>4, <1>5, <1>6, <1>7, <1>8 DEF Next

\* Nothing but admission makes a claim: a start hands it on from step to step.
LEMMA ClaimStep ==
  ASSUME ByAdmission, ManagerInvariant, ByAdmissionKept, NEW t \in Threads, ThreadStep(t), ~Admit(t),
         NEW i \in Items, Claims(t, i)'
  PROVE  Claims(t, i)
<1> DEFINE p == thread[t]
<1>1. p \in ThreadRecords /\ thread \in [Threads -> ThreadRecords]
  BY DEF ManagerInvariant, ThreadsSound
<1>2. thread'[t].pc \in AtStart
  BY DEF Claims, AtStart
<1>3. ~ResetItem(t)
  BY DEF ResetItem, At, ByAdmissionKept
<1>4. p.pc \in AtStart
  BY <1>2, <1>3, StepTable
<1>5. ASSUME NEW r, Go(t, r)
      PROVE  thread'[t] = r
  BY <1>1, <1>5 DEF Go
<1>6. CASE CheckItem(t)
  <2>1. PICK k \in p.todo :
          \/ Go(t, [p EXCEPT !.todo = @ \ {k}])
          \/ Go(t, [[p EXCEPT !.todo = @ \ {k}] EXCEPT !.pc = "mark", !.item = k])
    BY <1>6 DEF CheckItem
  <2>2. \/ thread'[t] = [p EXCEPT !.todo = @ \ {k}]
        \/ thread'[t] = [[p EXCEPT !.todo = @ \ {k}] EXCEPT !.pc = "mark", !.item = k]
    BY <1>5, <2>1
  <2>3. thread'[t].todo \subseteq p.todo /\ thread'[t].item \in {p.item, k}
        /\ (thread'[t].pc \in Starting => thread'[t].item = k)
    BY <1>1, <1>6, <2>2 DEF ThreadRecords, CheckItem, At, Starting
  <2>4. QED
    BY <1>4, <2>3 DEF Claims
<1>7. CASE MarkItem(t) \/ SpawnJob(t) \/ InsertJob(t)
  <2>1. \/ Go(t, [p EXCEPT !.pc = "spawn"])
        \/ \E j : Go(t, [p EXCEPT !.pc = "insert", !.job = j])
        \/ Go(t, [p EXCEPT !.pc = "start", !.item = NoItem])
        \/ Go(t, [p EXCEPT !.pc = "start", !.item = NoItem, !.job = 0])
    BY <1>7 DEF MarkItem, SpawnJob, InsertJob
  <2>2. \/ thread'[t] = [p EXCEPT !.pc = "spawn"]
        \/ \E j : thread'[t] = [p EXCEPT !.pc = "insert", !.job = j]
        \/ thread'[t] = [p EXCEPT !.pc = "start", !.item = NoItem]
        \/ thread'[t] = [p EXCEPT !.pc = "start", !.item = NoItem, !.job = 0]
    BY <1>5, <2>1
  <2>3. thread'[t].todo = p.todo /\ (thread'[t].item = p.item \/ thread'[t].pc = "start")
    BY <1>1, <2>2 DEF ThreadRecords
  <2>4. p.pc \in Starting
    BY <1>7 DEF MarkItem, SpawnJob, InsertJob, At, Starting
  <2>5. QED
    BY <1>4, <2>3, <2>4 DEF Claims, Starting
<1>8. CASE StartsDone(t)
  <2>1. Go(t, Doing("tick", "detect", {})) \/ Go(t, Resting(t))
    BY <1>8 DEF StartsDone
  <2>2. Doing("tick", "detect", {}).pc = "detect" /\ Resting(t).pc = "idle"
    BY DEF Doing, Resting
  <2>3. thread'[t].pc \in {"detect", "idle"}
    BY <1>5, <2>1, <2>2
  <2>4. QED
    BY <1>2, <2>3 DEF AtStart, Starting
<1>9. QED
  BY <1>4, <1>6, <1>7, <1>8 DEF ThreadStep, AtStart, Starting, PauseItem, Unqueue, PausesDone, CancelJob,
     ForgetItem, EraseRow, ResetItem, StartCollect, Enqueue, StopCollect, Unwait, At

\* A slot that is taken was taken before, unless admission takes it now.
LEMMA TakenStep ==
  ASSUME ByAdmission, ManagerInvariant, ByAdmissionKept, [Next]_vars, \A t \in Threads : ~Admit(t)
  PROVE  Taken' \subseteq Taken
<1>1. thread \in [Threads -> ThreadRecords]
  BY DEF ManagerInvariant, ThreadsSound
<1>2. Live' \subseteq Taken
  <2>1. \A t \in Threads : SpawnJob(t) => thread[t].pc \in Starting
    BY DEF SpawnJob, At, Starting
  <2>2. QED
    BY <2>1, LiveStep DEF Taken, Claimed, Claims, Live
<1>3. ASSUME NEW i \in Items, NEW u \in Threads, Claims(u, i)'
      PROVE  \E t \in Threads : Claims(t, i)
  <2>1. CASE thread'[u] = thread[u]
    BY <1>3, <2>1 DEF Claims
  <2>2. ASSUME NEW t \in Threads, ThreadStep(t)
        PROVE  Claims(u, i)
    <3>1. CASE u = t
      BY <1>3, <2>2, <3>1, ClaimStep
    <3>2. CASE u # t
      <4>1. thread'[u] = thread[u]
        BY <2>2, <3>2, StepTable
      <4>2. QED
        BY <1>3, <4>1 DEF Claims
    <3>3. QED
      BY <3>1, <3>2
  <2>3. ASSUME NEW t \in Threads, NEW r, Go(t, r), r.pc \notin AtStart
        PROVE  thread'[u] = thread[u]
    <3>1. u # t
      BY <1>1, <1>3, <2>3 DEF Go, Claims, AtStart
    <3>2. QED
      BY <1>1, <2>3, <3>1 DEF Go
  <2>4. ASSUME NEW t \in Callers, NEW cmd \in Commands, NEW k \in Items, Begin(t, cmd, k)
        PROVE  thread'[u] = thread[u]
    <3>1. t \in Threads /\ cmd \in {"startQueue", "stopQueue", "pause"}
      BY DEF Threads, ByAdmission
    <3>2. \/ Go(t, Doing(cmd, "pause", {k})) \/ Go(t, Doing(cmd, "collect", {}))
          \/ Go(t, Doing(cmd, "stopCollect", {}))
      BY <2>4, <3>1 DEF Begin
    <3>3. /\ Doing(cmd, "pause", {k}).pc \notin AtStart
          /\ Doing(cmd, "collect", {}).pc \notin AtStart
          /\ Doing(cmd, "stopCollect", {}).pc \notin AtStart
      BY DEF Doing, AtStart, Starting
    <3>4. QED
      BY <2>3, <3>1, <3>2, <3>3
  <2>5. CASE BeginTick \/ Detect
    <3>1. Ticker \in Threads /\ (Go(Ticker, Doing("tick", "admit", {})) \/ Go(Ticker, Resting(Ticker)))
      BY <2>5 DEF Threads, BeginTick, Detect
    <3>2. Doing("tick", "admit", {}).pc \notin AtStart /\ Resting(Ticker).pc \notin AtStart
      BY DEF Doing, Resting, AtStart, Starting
    <3>3. QED
      BY <2>1, <2>3, <3>1, <3>2
  <2>6. CASE \/ \E j \in Jobs : JobEnds(j) \/ JobReports(j)
             \/ HandlerStep \/ Tick \/ SaverBegin \/ SaverAnswer \/ SaverCollect
             \/ (\E a \in Actors : Persist(a)) \/ UNCHANGED vars
    <3>1. thread' = thread
      BY <2>6 DEF JobEnds, JobReports, HandlerStep, HandlerTake, HandlerSettle, HandlerScanned,
         HandlerLast, Tick, SaverBegin, SaverAnswer, SaverCollect, Persist, vars
    <3>2. QED
      BY <2>1, <3>1
  <2>7. QED
    BY <2>1, <2>2, <2>4, <2>5, <2>6 DEF Next
<1>4. QED
  BY <1>2, <1>3 DEF Taken, Claimed

\* Where nobody is starting an item, admission counts every running job among the active items.
LEMMA LiveCounted ==
  ASSUME ManagerInvariant, JobBook, ByAdmissionKept, \A t \in Threads : thread[t].pc \notin AtStart,
         NEW i \in Live
  PROVE  Present(i) /\ jobs[i] # 0
<1>1. PICK j \in Jobs : Running(j) /\ job[j].item = i
  BY DEF Live
<1>2. i \in Items /\ Present(i)
  BY DEF Live, ByAdmissionKept
<1>3. Kept(j)
  BY <1>1 DEF JobBook, OpenKept, Open, Running
<1>4. ~InHand(j) /\ ~Leaving(i)
  BY <1>2 DEF InHand, Leaving, AtStart, Starting, ByAdmissionKept
<1>5. jobs[i] = j
  BY <1>1, <1>3, <1>4 DEF Kept
<1>6. QED
  BY <1>2, <1>5, ManagerAssumption DEF Jobs

\* What admission takes up fits into the slots it counted.
LEMMA AdmitFits ==
  ASSUME ManagerInvariant, JobBook, ByAdmissionKept, Capacity, NEW t \in Threads, Admit(t)
  PROVE  Capacity'
<1> DEFINE active == {i \in Items : items[i].status = "active" \/ (Present(i) /\ jobs[i] # 0)}
           waiting == WithStatus({"queued"})
<1>1. IsFiniteSet(Items) /\ MaxConcurrent \in Nat
  BY ManagerAssumption
<1>2. \A u \in Threads : thread[u].pc \notin AtStart
  BY ManagerAssumption DEF Admit, ByAdmissionKept
<1>3. PICK S \in Admissible : Go(t, [thread[t] EXCEPT !.pc = "start", !.todo = S])
  BY DEF Admit
<1>4. Live' = Live
  BY DEF Admit, Live, Running
<1>5. Claimed' = S \cap Items
  <2>1. thread \in [Threads -> ThreadRecords]
    BY DEF ManagerInvariant, ThreadsSound
  <2>2. \A u \in Threads \ {t} : thread'[u] = thread[u]
    BY <1>3, <2>1 DEF Go
  <2>3. thread'[t].pc = "start" /\ thread'[t].todo = S
    BY <1>3, <2>1 DEF Go, ThreadRecords
  <2>4. ASSUME NEW i \in Items
        PROVE  (\E u \in Threads : Claims(u, i)') <=> i \in S
    BY <1>2, <2>2, <2>3 DEF Claims, AtStart, Starting
  <2>5. QED
    BY <2>4 DEF Claimed
<1>6. IsFiniteSet(Live) /\ IsFiniteSet(active) /\ IsFiniteSet(S \cap Items)
  <2>1. \A T \in SUBSET Items : IsFiniteSet(T)
    BY <1>1, FS_Subset
  <2>2. Live \subseteq Items /\ active \subseteq Items
    BY DEF Live
  <2>3. QED
    BY <2>1, <2>2
<1>7. Cardinality(Live) \in Nat /\ Cardinality(active) \in Nat /\ Cardinality(S \cap Items) \in Nat
  BY <1>6, FS_CardinalityType
<1>8. Cardinality(Live) <= Cardinality(active)
  <2>1. Live \in SUBSET active
    BY <1>2, LiveCounted DEF Live
  <2>2. QED
    BY <1>6, <2>1, FS_Subset
<1>9. Cardinality(Live) <= MaxConcurrent
  <2>1. IsFiniteSet(Taken) /\ Live \in SUBSET Taken
    <3>1. Taken \in SUBSET Items
      BY DEF Taken, Live, Claimed
    <3>2. QED
      BY <1>1, <3>1, FS_Subset DEF Taken
  <2>2. Cardinality(Live) <= Cardinality(Taken) /\ Cardinality(Taken) \in Nat
    BY <2>1, FS_Subset, FS_CardinalityType
  <2>3. QED
    BY <1>1, <1>7, <2>2 DEF Capacity
<1>10. CASE S = {}
  <2>1. Taken' = Live
    BY <1>4, <1>5, <1>10 DEF Taken
  <2>2. QED
    BY <1>9, <2>1 DEF Capacity
<1>11. CASE S # {}
  <2>1. S \subseteq Items /\ Cardinality(S) <= FreeSlots /\ Cardinality(S) \in Nat /\ FreeSlots \in Nat
    <3>1. S \in SUBSET waiting /\ waiting \subseteq Items
      BY <1>11 DEF Admissible, WithStatus
    <3>2. Cardinality(S) = IF Cardinality(waiting) <= FreeSlots THEN Cardinality(waiting) ELSE FreeSlots
      BY <1>11 DEF Admissible
    <3>3. IsFiniteSet(waiting) /\ Cardinality(waiting) \in Nat
      BY <1>1, <3>1, FS_Subset, FS_CardinalityType
    <3>4. FreeSlots \in Nat
      BY <1>1, <1>7 DEF FreeSlots
    <3> HIDE DEF waiting
    <3>5. QED
      BY <3>1, <3>2, <3>3, <3>4
  <2>2. FreeSlots = IF Cardinality(active) >= MaxConcurrent THEN 0
                    ELSE MaxConcurrent - Cardinality(active)
    BY DEF FreeSlots
  <2>3. S \cap Items = S
    BY <2>1
  <2>4. S # {} => Cardinality(S) # 0
    BY <1>6, <2>3, FS_EmptySet
  <2> HIDE DEF active
  <2>5. Cardinality(Live \cup S) <= Cardinality(Live) + Cardinality(S)
    <3>1. /\ Cardinality(Live \cup S) = Cardinality(Live) + Cardinality(S) - Cardinality(Live \cap S)
          /\ IsFiniteSet(Live \cap S)
      BY <1>6, <2>3, FS_Union, FS_Subset
    <3>2. Cardinality(Live \cap S) \in Nat
      BY <3>1, FS_CardinalityType
    <3>3. QED
      BY <1>7, <2>1, <3>1, <3>2
  <2>6. IsFiniteSet(Live \cup S) /\ Cardinality(Live \cup S) \in Nat
    BY <1>6, <2>3, FS_Union, FS_CardinalityType
  <2>7. Cardinality(Live \cup S) <= MaxConcurrent
    BY <1>1, <1>7, <1>8, <1>11, <2>1, <2>2, <2>4, <2>5, <2>6
  <2>8. Taken' = Live \cup S
    BY <1>4, <1>5, <2>3 DEF Taken
  <2>9. QED
    BY <2>7, <2>8 DEF Capacity
<1>12. QED
  BY <1>10, <1>11

\* The slots suffice after every step.
LEMMA CapacityStep ==
  ASSUME ByAdmission, ManagerInvariant, JobBook, ByAdmissionKept, Capacity, [Next]_vars
  PROVE  Capacity'
<1>1. CASE \E t \in Threads : Admit(t)
  BY <1>1, AdmitFits
<1>2. CASE \A t \in Threads : ~Admit(t)
  <2>1. IsFiniteSet(Taken) /\ Taken' \in SUBSET Taken
    <3>1. Taken \in SUBSET Items /\ IsFiniteSet(Items)
      BY ManagerAssumption DEF Taken, Live, Claimed
    <3>2. QED
      BY <1>2, <3>1, TakenStep, FS_Subset
  <2>2. /\ Cardinality(Taken') <= Cardinality(Taken)
        /\ Cardinality(Taken') \in Nat /\ Cardinality(Taken) \in Nat
    BY <2>1, FS_Subset, FS_CardinalityType
  <2>3. QED
    BY <2>2, ManagerAssumption DEF Capacity
<1>3. QED
  BY <1>1, <1>2

\* The jobs that count against the limit run on as many items as there are jobs.
LEMMA CapacityBounds ==
  ASSUME ManagerInvariant, JobBook, Capacity
  PROVE  AdmittedWithinLimit
<1> DEFINE counted == {j \in Jobs : Running(j) /\ job[j].stop # "cancel" /\ Present(job[j].item)}
           itemOf == [j \in counted |-> job[j].item]
<1>1. IsFiniteSet(counted)
  <2>1. IsFiniteSet(Jobs)
    BY ManagerAssumption, FS_Interval DEF Jobs
  <2>2. counted \in SUBSET Jobs
    OBVIOUS
  <2>3. QED
    BY <2>1, <2>2, FS_Subset
<1>2. IsFiniteSet(Taken) /\ Live \in SUBSET Taken
  <2>1. Taken \in SUBSET Items
    BY DEF Taken, Live, Claimed
  <2>2. QED
    BY <2>1, FS_Subset, ManagerAssumption DEF Taken
<1>3. IsFiniteSet(Live) /\ Cardinality(Live) <= Cardinality(Taken)
  BY <1>2, FS_Subset
<1>4. itemOf \in [counted -> Live]
  BY DEF Live, Running, ManagerInvariant, JobsSound
<1>5. \A j, k \in counted : itemOf[j] = itemOf[k] => j = k
  BY DEF Running, JobBook, OpenAlone, Open
<1> HIDE DEF counted, itemOf
<1>6. ~(Cardinality(Live) < Cardinality(counted))
  <2>1. Cardinality(Live) < Cardinality(counted) =>
          \E j, k \in counted : j # k /\ itemOf[j] = itemOf[k]
    BY <1>1, <1>3, <1>4, FS_PigeonHole
  <2>2. QED
    BY <1>5, <2>1
<1>7. Cardinality(Live) \in Nat /\ Cardinality(counted) \in Nat /\ Cardinality(Taken) \in Nat
  BY <1>1, <1>2, <1>3, FS_CardinalityType
<1>8. Cardinality(counted) <= MaxConcurrent
  BY <1>3, <1>6, <1>7, ManagerAssumption DEF Capacity
<1>9. QED
  BY <1>8 DEF AdmittedWithinLimit, counted

\* At first no slot is taken.
LEMMA CapacityInit ==
  ASSUME Init
  PROVE  Capacity
<1>1. /\ \A t \in Threads : thread[t].pc = "idle"
      /\ \A j \in Jobs : job[j].at = "none"
  BY DEF Init, Resting, Doing, NoJob
<1>2. Taken = {}
  BY <1>1 DEF Taken, Live, Running, Claimed, Claims, AtStart, Starting
<1>3. QED
  BY <1>2, FS_EmptySet, ManagerAssumption DEF Capacity

\* The queue never runs more downloads than it has slots, for any number of items, of threads
\* that give its commands and of slots, where only admission starts items.
THEOREM AdmissionWithinLimit ==
  ASSUME ByAdmission
  PROVE  Spec => []AdmittedWithinLimit
<1> DEFINE Book == ManagerInvariant /\ JobBook /\ SerialKept
<1>1. Spec => []Book
  BY JobBookHolds
<1>2. Init => Capacity
  BY CapacityInit
<1>3. Book /\ Capacity /\ [Next]_vars => Capacity'
  BY CapacityStep DEF SerialKept
<1>4. Book /\ Capacity => AdmittedWithinLimit
  BY CapacityBounds
<1> HIDE DEF Book
<1>5. QED
  BY <1>1, <1>2, <1>3, <1>4, PTL DEF Spec
=============================================================================
