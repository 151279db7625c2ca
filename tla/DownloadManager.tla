-------------------------- MODULE DownloadManager --------------------------
(***************************************************************************)
(* The download manager (prism-core, manager/mod.rs, queues.rs, jobs.rs):  *)
(* the list of items, the map of running jobs, one queue, the task that    *)
(* handles job outcomes, the periodic checkpoint, and the database.        *)
(*                                                                         *)
(* Commands arrive on any thread of the runtime (async Tauri commands, the *)
(* browser's IPC, the one-second tick), so each step here is one critical  *)
(* section of the state mutex or one database statement, and anything may  *)
(* happen between two of them.  What a job downloads is SegmentedTransfer; *)
(* here it runs, is asked to stop, and ends.  Every item is in the queue;  *)
(* the trash, torrents and video tools are left out.                       *)
(***************************************************************************)
EXTENDS Integers, Sequences, FiniteSets

CONSTANTS
  Items,          \* The download items.
  NoItem,
  Callers,        \* Threads that run a user's commands.
  Ticker,         \* The task that ticks the queue every second.
  Handler,        \* The task that handles job outcomes.
  Saver,          \* The task that checkpoints every two seconds.
  Nobody,         \* Nobody holds the admission lock.
  Commands,       \* The commands the callers may give.
  MaxConcurrent,  \* max_concurrent of the queue.
  EarlyOutcomes,  \* Whether a job may end before its starter has put it into the map.
  MaxJobs,        \* Bound: jobs started.
  MaxCommands,    \* Bound: commands given.
  MaxCheckpoints  \* Bound: checkpoints taken.

AllCommands == {"start", "pause", "delete", "redownload", "startQueue", "stopQueue"}
Threads == Callers \cup {Ticker}

ASSUME ManagerAssumption ==
  /\ IsFiniteSet(Items) /\ NoItem \notin Items /\ Nobody \notin Threads
  /\ Commands \subseteq AllCommands
  /\ MaxConcurrent \in Nat \ {0}
  /\ EarlyOutcomes \in BOOLEAN
  /\ MaxJobs \in Nat /\ MaxCommands \in Nat /\ MaxCheckpoints \in Nat

VARIABLES
  items,      \* The items in memory (State::items).
  rows,       \* The rows of the downloads table.
  dirty,      \* Items whose row the next checkpoint writes.
  jobs,       \* State::jobs: the job of an item, 0 for none.
  job,        \* Every job ever started.
  outcomes,   \* The channel of job outcomes.
  handler,    \* Where the outcome task is.
  saver,      \* Where the checkpoint task is.
  thread,     \* Where each thread is in its command.
  write,      \* The row copies an actor has yet to give to the database.
  admission,  \* Who holds the admission lock.
  queue,      \* The queue: running, and busy (queue_was_busy).
  commands    \* How many commands were given (for the bound).

vars == << items, rows, dirty, jobs, job, outcomes, handler, saver, thread, write,
           admission, queue, commands >>

-----------------------------------------------------------------------------
Jobs == 1 .. MaxJobs
Actors == Threads \cup Jobs \cup {Handler, Saver}

\* "active" is any of Connecting, Downloading, Retrying and Processing.
Statuses == {"absent", "idle", "queued", "active", "paused", "failed", "completed"}
Rows == [status : Statuses, resume : BOOLEAN]
Gone == [status |-> "absent", resume |-> FALSE]
Row(status, resume) == [status |-> status, resume |-> resume]
NoWrite == << >>

Results == {"none", "completed", "failed", "paused", "cancelled"}
JobRecords == [item : Items \cup {NoItem}, at : {"none", "running", "reporting", "sent"},
               stop : {"no", "pause", "cancel"}, result : Results]
NoJob == [item |-> NoItem, at |-> "none", stop |-> "no", result |-> "none"]

Pcs == {"idle", "start", "mark", "spawn", "insert", "pause", "unqueue", "cancel", "forget",
        "erase", "reset", "collect", "enqueue", "admit", "stopCollect", "unwait", "detect"}
ThreadRecords == [cmd : AllCommands \cup {"tick"}, pc : Pcs, todo : SUBSET Items,
                  wait : SUBSET Items, item : Items \cup {NoItem}, job : 0 .. MaxJobs]
Doing(cmd, pc, todo) ==
  [cmd |-> cmd, pc |-> pc, todo |-> todo, wait |-> {}, item |-> NoItem, job |-> 0]
Resting(t) == Doing(IF t = Ticker THEN "tick" ELSE "start", "idle", {})

Present(i) == items[i].status # "absent"
Mapped == {i \in Items : jobs[i] # 0}
Running(j) == job[j].at = "running"

Init ==
  /\ items = [i \in Items |-> Row("idle", FALSE)]
  /\ rows = items
  /\ dirty = {}
  /\ jobs = [i \in Items |-> 0]
  /\ job = [j \in Jobs |-> NoJob]
  /\ outcomes = << >>
  /\ handler = [pc |-> "idle", job |-> 0]
  /\ saver = [pc |-> "idle", todo |-> {}, taken |-> 0]
  /\ thread = [t \in Threads |-> Resting(t)]
  /\ write = [a \in Actors |-> NoWrite]
  /\ admission = Nobody
  /\ queue = [running |-> FALSE, busy |-> FALSE]
  /\ commands = 0

-----------------------------------------------------------------------------
\* Mutant: an item that is gone is put back by who still had it in hand.
WithItem_Anyway(a, i, new) ==
  /\ items' = [items EXCEPT ![i] = new]
  /\ write' = [write EXCEPT ![a] = [k \in {i} |-> new]]

\* with_item: the item changes under the lock; a copy goes to the database after it.
WithItem(a, i, new) ==
  IF Present(i)
  THEN /\ items' = [items EXCEPT ![i] = new]
       /\ write' = [write EXCEPT ![a] = [k \in {i} |-> new]]
  ELSE UNCHANGED << items, write >>

Upserted(copies) == [i \in Items |-> IF i \in DOMAIN copies THEN copies[i] ELSE rows[i]]

Persist(a) ==
  /\ write[a] # NoWrite
  /\ rows' = Upserted(write[a])
  /\ write' = [write EXCEPT ![a] = NoWrite]
  /\ UNCHANGED << items, dirty, jobs, job, outcomes, handler, saver, thread, admission,
                  queue, commands >>

At(t, pc) == thread[t].pc = pc /\ write[t] = NoWrite
Go(t, rec) == thread' = [thread EXCEPT ![t] = rec]

-----------------------------------------------------------------------------
(***************************************************************************)
(* Jobs.  The engine ends one some time after it was asked to stop, or by  *)
(* itself; the reporter first stores the file name, if it learnt one.      *)
(***************************************************************************)
ResultsOf(stop) ==
  {"completed", "failed"} \cup (CASE stop = "no" -> {}
                                  [] stop = "pause" -> {"paused"}
                                  [] stop = "cancel" -> {"cancelled"})

JobEnds(j) ==
  /\ Running(j)
  /\ EarlyOutcomes \/ \A t \in Threads : thread[t].job # j
  /\ \E r \in ResultsOf(job[j].stop) :
       job' = [job EXCEPT ![j].at = "reporting", ![j].result = r]
  /\ \/ WithItem(j, job[j].item, items[job[j].item])
     \/ UNCHANGED << items, write >>
  /\ UNCHANGED << rows, dirty, jobs, outcomes, handler, saver, thread, admission, queue,
                  commands >>

\* Mutant: the outcome is sent, and sent again.
JobReports_Again(j) ==
  /\ job[j].at = "reporting" /\ write[j] = NoWrite
  /\ outcomes' = Append(outcomes, j)
  /\ UNCHANGED << items, rows, dirty, jobs, job, handler, saver, thread, write, admission,
                  queue, commands >>

JobReports(j) ==
  /\ job[j].at = "reporting" /\ write[j] = NoWrite
  /\ job' = [job EXCEPT ![j].at = "sent"]
  /\ outcomes' = Append(outcomes, j)
  /\ UNCHANGED << items, rows, dirty, jobs, handler, saver, thread, write, admission, queue,
                  commands >>

\* request_stop: a cancellation wins over a pause.
Stopped(j, stop) ==
  [job EXCEPT ![j].stop = IF @ = "cancel" THEN @ ELSE stop]

-----------------------------------------------------------------------------
(***************************************************************************)
(* handle_outcome, one outcome after the other.                            *)
(***************************************************************************)
HandlerAt(pc) == handler.pc = pc /\ write[Handler] = NoWrite

HandlerTake ==
  /\ HandlerAt("idle") /\ outcomes # << >>
  /\ handler' = [pc |-> "settle", job |-> Head(outcomes)]
  /\ outcomes' = Tail(outcomes)
  /\ jobs' = [jobs EXCEPT ![job[Head(outcomes)].item] = 0]
  /\ UNCHANGED << items, rows, dirty, job, saver, thread, write, admission, queue, commands >>

\* The item after the outcome; `resume` says whether a resume state came with it.
Settled(item, result, resume) ==
  CASE result = "completed" -> Row("active", FALSE)
    [] result = "paused" -> Row(IF item.status = "completed" THEN "completed" ELSE "paused",
                                item.resume \/ resume)
    [] result = "failed" -> Row("failed", item.resume \/ resume)
    [] result = "cancelled" -> item

\* Mutant: a failure leaves the status it found.
HandlerSettle_KeepsStatus ==
  LET j == handler.job
      i == job[j].item
  IN  /\ HandlerAt("settle")
      /\ WithItem(Handler, i, IF job[j].result = "failed" THEN items[i]
                              ELSE Settled(items[i], job[j].result, TRUE))
      /\ handler' = [handler EXCEPT !.pc = IF job[j].result = "completed" THEN "scan" ELSE "last"]
      /\ UNCHANGED << rows, dirty, jobs, job, outcomes, saver, thread, admission, queue,
                      commands >>

HandlerSettle ==
  LET j == handler.job
      i == job[j].item
  IN  /\ HandlerAt("settle")
      /\ \E resume \in BOOLEAN : WithItem(Handler, i, Settled(items[i], job[j].result, resume))
      /\ handler' = [handler EXCEPT !.pc = IF job[j].result = "completed" THEN "scan" ELSE "last"]
      /\ UNCHANGED << rows, dirty, jobs, job, outcomes, saver, thread, admission, queue,
                      commands >>

\* The virus scanner and the search for duplicates were awaited.
HandlerScanned ==
  LET i == job[handler.job].item
  IN  /\ HandlerAt("scan")
      /\ \E status \in {"completed", "failed"} :
           WithItem(Handler, i, [items[i] EXCEPT !.status = status])
      /\ handler' = [handler EXCEPT !.pc = "last"]
      /\ UNCHANGED << rows, dirty, jobs, job, outcomes, saver, thread, admission, queue,
                      commands >>

\* "Persist immediately": the item is read once more and written.
HandlerLast ==
  LET i == job[handler.job].item
  IN  /\ HandlerAt("last")
      /\ WithItem(Handler, i, items[i])
      /\ handler' = [pc |-> "idle", job |-> 0]
      /\ UNCHANGED << rows, dirty, jobs, job, outcomes, saver, thread, admission, queue,
                      commands >>

-----------------------------------------------------------------------------
(***************************************************************************)
(* progress_tick and checkpoint.                                           *)
(***************************************************************************)
\* A job that has ended but is still in the map reads as downloading, too.
Tick ==
  /\ items' = [i \in Items |->
                 IF Present(i) /\ jobs[i] # 0
                 THEN [items[i] EXCEPT !.status = "active"] ELSE items[i]]
  /\ dirty' = dirty \cup {i \in Mapped : Present(i)}
  /\ UNCHANGED << rows, jobs, job, outcomes, handler, saver, thread, write, admission, queue,
                  commands >>

SaverAt(pc) == saver.pc = pc /\ write[Saver] = NoWrite

SaverBegin ==
  /\ SaverAt("idle") /\ saver.taken < MaxCheckpoints
  /\ saver' = [pc |-> "ask", todo |-> Mapped, taken |-> saver.taken + 1]
  /\ UNCHANGED << items, rows, dirty, jobs, job, outcomes, handler, thread, write, admission,
                  queue, commands >>

\* Whatever became of the job while its checkpoint was awaited.
SaverAnswer ==
  /\ SaverAt("ask")
  /\ \E i \in saver.todo :
       /\ saver' = [saver EXCEPT !.todo = @ \ {i}]
       /\ \/ UNCHANGED items
          \/ Present(i) /\ items' = [items EXCEPT ![i].resume = TRUE]
  /\ UNCHANGED << rows, dirty, jobs, job, outcomes, handler, thread, write, admission, queue,
                  commands >>

SaverCollect ==
  /\ SaverAt("ask") /\ saver.todo = {}
  /\ write' = [write EXCEPT ![Saver] = [i \in {k \in dirty : Present(k)} |-> items[i]]]
  /\ dirty' = {}
  /\ saver' = [saver EXCEPT !.pc = "idle"]
  /\ UNCHANGED << items, rows, jobs, job, outcomes, handler, thread, admission, queue,
                  commands >>

-----------------------------------------------------------------------------
(***************************************************************************)
(* Commands.  A thread works off `todo`, one item at a time.               *)
(***************************************************************************)
Begin(t, cmd, i) ==
  /\ At(t, "idle") /\ cmd \in Commands
  /\ commands < MaxCommands /\ commands' = commands + 1
  /\ CASE cmd = "start" -> Go(t, Doing(cmd, "start", {i})) /\ UNCHANGED queue
       [] cmd = "pause" -> Go(t, Doing(cmd, "pause", {i})) /\ UNCHANGED queue
       [] cmd \in {"delete", "redownload"} ->
            Present(i) /\ Go(t, [Doing(cmd, "cancel", {}) EXCEPT !.item = i]) /\ UNCHANGED queue
       [] cmd = "startQueue" ->
            Go(t, Doing(cmd, "collect", {})) /\ queue' = [running |-> TRUE, busy |-> TRUE]
       [] cmd = "stopQueue" ->
            Go(t, Doing(cmd, "stopCollect", {})) /\ queue' = [running |-> FALSE, busy |-> FALSE]
  /\ UNCHANGED << items, rows, dirty, jobs, job, outcomes, handler, saver, write, admission >>

BeginTick ==
  /\ At(Ticker, "idle")
  /\ Go(Ticker, Doing("tick", "admit", {}))
  /\ UNCHANGED << items, rows, dirty, jobs, job, outcomes, handler, saver, write, admission,
                  queue, commands >>

\* Mutant: an item that has a job is started like any other.
CheckItem_Mapped(t) ==
  /\ At(t, "start")
  /\ \E i \in thread[t].todo :
       LET rest == [thread[t] EXCEPT !.todo = @ \ {i}]
       IN  Go(t, IF items[i].status \in {"absent", "completed"}
                 THEN rest ELSE [rest EXCEPT !.pc = "mark", !.item = i])
  /\ UNCHANGED << items, rows, dirty, jobs, job, outcomes, handler, saver, write, admission,
                  queue, commands >>

\* start_item, first look: it has no job yet and is not completed.
CheckItem(t) ==
  /\ At(t, "start")
  /\ \E i \in thread[t].todo :
       LET rest == [thread[t] EXCEPT !.todo = @ \ {i}]
       IN  Go(t, IF jobs[i] # 0 \/ items[i].status \in {"absent", "completed"}
                 THEN rest ELSE [rest EXCEPT !.pc = "mark", !.item = i])
  /\ UNCHANGED << items, rows, dirty, jobs, job, outcomes, handler, saver, write, admission,
                  queue, commands >>

MarkItem(t) ==
  LET i == thread[t].item
  IN  /\ At(t, "mark")
      /\ WithItem(t, i, [items[i] EXCEPT !.status = "active"])
      /\ Go(t, [thread[t] EXCEPT !.pc = "spawn"])
      /\ UNCHANGED << rows, dirty, jobs, job, outcomes, handler, saver, admission, queue,
                      commands >>

\* The job runs from here on.  A failure is shown in the item, but not by redownload.
SpawnJob(t) ==
  LET i == thread[t].item
  IN  /\ At(t, "spawn")
      /\ \/ \E j \in Jobs :
              /\ job[j].at = "none" /\ \A k \in 1 .. j - 1 : job[k].at # "none"
              /\ job' = [job EXCEPT ![j] = [NoJob EXCEPT !.item = i, !.at = "running"]]
              /\ Go(t, [thread[t] EXCEPT !.pc = "insert", !.job = j])
              /\ UNCHANGED << items, write >>
         \/ /\ IF thread[t].cmd = "redownload" THEN UNCHANGED << items, write >>
               ELSE WithItem(t, i, [items[i] EXCEPT !.status = "failed"])
            /\ Go(t, [thread[t] EXCEPT !.pc = "start", !.item = NoItem])
            /\ UNCHANGED job
      /\ UNCHANGED << rows, dirty, jobs, outcomes, handler, saver, admission, queue, commands >>

InsertJob(t) ==
  /\ At(t, "insert")
  /\ jobs' = [jobs EXCEPT ![thread[t].item] = thread[t].job]
  /\ Go(t, [thread[t] EXCEPT !.pc = "start", !.item = NoItem, !.job = 0])
  /\ UNCHANGED << items, rows, dirty, job, outcomes, handler, saver, write, admission, queue,
                  commands >>

\* start_items is done; admit drops its lock, and the tick goes on to detect_finished_queues.
StartsDone(t) ==
  /\ At(t, "start") /\ thread[t].todo = {}
  /\ Go(t, IF t = Ticker THEN Doing("tick", "detect", {}) ELSE Resting(t))
  /\ admission' = IF admission = t THEN Nobody ELSE admission
  /\ UNCHANGED << items, rows, dirty, jobs, job, outcomes, handler, saver, write, queue,
                  commands >>

PauseItem(t) ==
  /\ At(t, "pause")
  /\ \E i \in thread[t].todo :
       LET rest == [thread[t] EXCEPT !.todo = @ \ {i}]
       IN  IF jobs[i] # 0
           THEN job' = Stopped(jobs[i], "pause") /\ Go(t, rest)
           ELSE UNCHANGED job /\ Go(t, [rest EXCEPT !.pc = "unqueue", !.item = i])
  /\ UNCHANGED << items, rows, dirty, jobs, outcomes, handler, saver, write, admission, queue,
                  commands >>

Unqueue(t) ==
  LET i == thread[t].item
  IN  /\ At(t, "unqueue")
      /\ WithItem(t, i, [items[i] EXCEPT !.status = IF @ = "queued" THEN "paused" ELSE @])
      /\ Go(t, [thread[t] EXCEPT !.pc = "pause", !.item = NoItem])
      /\ UNCHANGED << rows, dirty, jobs, job, outcomes, handler, saver, admission, queue,
                      commands >>

PausesDone(t) ==
  /\ At(t, "pause") /\ thread[t].todo = {}
  /\ Go(t, IF thread[t].cmd = "stopQueue"
           THEN Doing("stopQueue", "unwait", thread[t].wait) ELSE Resting(t))
  /\ UNCHANGED << items, rows, dirty, jobs, job, outcomes, handler, saver, write, admission,
                  queue, commands >>

\* delete_items and redownload first cancel the job and remove the files.
CancelJob(t) ==
  LET i == thread[t].item
  IN  /\ At(t, "cancel")
      /\ jobs' = [jobs EXCEPT ![i] = 0]
      /\ job' = IF jobs[i] # 0 THEN Stopped(jobs[i], "cancel") ELSE job
      /\ Go(t, [thread[t] EXCEPT !.pc = IF thread[t].cmd = "delete"
                                        THEN "forget" ELSE "reset"])
      /\ UNCHANGED << items, rows, dirty, outcomes, handler, saver, write, admission, queue,
                      commands >>

ForgetItem(t) ==
  /\ At(t, "forget")
  /\ items' = [items EXCEPT ![thread[t].item] = Gone]
  /\ Go(t, [thread[t] EXCEPT !.pc = "erase"])
  /\ UNCHANGED << rows, dirty, jobs, job, outcomes, handler, saver, write, admission, queue,
                  commands >>

EraseRow(t) ==
  /\ At(t, "erase")
  /\ rows' = [rows EXCEPT ![thread[t].item] = Gone]
  /\ Go(t, Resting(t))
  /\ UNCHANGED << items, dirty, jobs, job, outcomes, handler, saver, write, admission, queue,
                  commands >>

ResetItem(t) ==
  LET i == thread[t].item
  IN  /\ At(t, "reset")
      /\ WithItem(t, i, Row("idle", FALSE))
      /\ Go(t, IF Present(i) THEN Doing("redownload", "start", {i}) ELSE Resting(t))
      /\ UNCHANGED << rows, dirty, jobs, job, outcomes, handler, saver, admission, queue,
                      commands >>

-----------------------------------------------------------------------------
(***************************************************************************)
(* The queue.                                                              *)
(***************************************************************************)
WithStatus(statuses) == {i \in Items : items[i].status \in statuses}

\* Failed items are taken along if the queue's schedule has retry_failed.
StartCollect(t) ==
  /\ At(t, "collect")
  /\ \E failed \in {{}, {"failed"}} :
       Go(t, Doing("startQueue", "enqueue", WithStatus({"idle", "paused"} \cup failed)))
  /\ UNCHANGED << items, rows, dirty, jobs, job, outcomes, handler, saver, write, admission,
                  queue, commands >>

Enqueue(t) ==
  /\ At(t, "enqueue")
  /\ IF thread[t].todo = {}
     THEN Go(t, [thread[t] EXCEPT !.pc = "admit"]) /\ UNCHANGED << items, write >>
     ELSE \E i \in thread[t].todo :
            /\ WithItem(t, i, [items[i] EXCEPT !.status = "queued"])
            /\ Go(t, [thread[t] EXCEPT !.todo = @ \ {i}])
  /\ UNCHANGED << rows, dirty, jobs, job, outcomes, handler, saver, admission, queue, commands >>

StopCollect(t) ==
  /\ At(t, "stopCollect")
  /\ Go(t, [Doing("stopQueue", "pause", WithStatus({"active"}))
              EXCEPT !.wait = WithStatus({"queued"})])
  /\ UNCHANGED << items, rows, dirty, jobs, job, outcomes, handler, saver, write, admission,
                  queue, commands >>

Unwait(t) ==
  /\ At(t, "unwait")
  /\ IF thread[t].todo = {}
     THEN Go(t, Resting(t)) /\ UNCHANGED << items, write >>
     ELSE \E i \in thread[t].todo :
            /\ WithItem(t, i, [items[i] EXCEPT !.status = "idle"])
            /\ Go(t, [thread[t] EXCEPT !.todo = @ \ {i}])
  /\ UNCHANGED << rows, dirty, jobs, job, outcomes, handler, saver, admission, queue, commands >>

\* The slots the queue has left (saturating_sub).
FreeSlots ==
  LET active == {i \in Items : items[i].status = "active" \/ (Present(i) /\ jobs[i] # 0)}
  IN  IF Cardinality(active) >= MaxConcurrent THEN 0 ELSE MaxConcurrent - Cardinality(active)

\* The waiting items to start; which of them come first (position) is left open.
Admissible ==
  LET waiting == WithStatus({"queued"})
      size == IF Cardinality(waiting) <= FreeSlots THEN Cardinality(waiting) ELSE FreeSlots
  IN  IF queue.running THEN {S \in SUBSET waiting : Cardinality(S) = size} ELSE {{}}

\* Mutant: admission is not one step at a time.
Admit_Unlocked(t) ==
  /\ At(t, "admit")
  /\ \E S \in Admissible : Go(t, [thread[t] EXCEPT !.pc = "start", !.todo = S])
  /\ UNCHANGED << items, rows, dirty, jobs, job, outcomes, handler, saver, write, admission,
                  queue, commands >>

\* The admission lock is held until the last of them is started.
Admit(t) ==
  /\ At(t, "admit") /\ admission = Nobody
  /\ admission' = t
  /\ \E S \in Admissible : Go(t, [thread[t] EXCEPT !.pc = "start", !.todo = S])
  /\ UNCHANGED << items, rows, dirty, jobs, job, outcomes, handler, saver, write, queue,
                  commands >>

Pending == \E i \in Items : items[i].status \in {"queued", "active"}
                            \/ (Present(i) /\ jobs[i] # 0)

\* detect_finished_queues: the queue's post action (a sound, a shutdown) follows.
Detect ==
  /\ At(Ticker, "detect")
  /\ queue' = IF queue.busy /\ ~Pending THEN [running |-> FALSE, busy |-> FALSE] ELSE queue
  /\ Go(Ticker, Resting(Ticker))
  /\ UNCHANGED << items, rows, dirty, jobs, job, outcomes, handler, saver, write, admission,
                  commands >>

-----------------------------------------------------------------------------
ThreadStep(t) ==
  \/ CheckItem(t) \/ MarkItem(t) \/ SpawnJob(t) \/ InsertJob(t) \/ StartsDone(t)
  \/ PauseItem(t) \/ Unqueue(t) \/ PausesDone(t)
  \/ CancelJob(t) \/ ForgetItem(t) \/ EraseRow(t) \/ ResetItem(t)
  \/ StartCollect(t) \/ Enqueue(t) \/ StopCollect(t) \/ Unwait(t) \/ Admit(t)

HandlerStep == HandlerTake \/ HandlerSettle \/ HandlerScanned \/ HandlerLast

Next ==
  \/ \E t \in Callers, cmd \in Commands, i \in Items : Begin(t, cmd, i)
  \/ BeginTick \/ Detect
  \/ \E t \in Threads : ThreadStep(t)
  \/ \E j \in Jobs : JobEnds(j) \/ JobReports(j)
  \/ HandlerStep
  \/ Tick \/ SaverBegin \/ SaverAnswer \/ SaverCollect
  \/ \E a \in Actors : Persist(a)

Spec == Init /\ [][Next]_vars

(***************************************************************************)
(* Threads and tasks that can go on do; nothing is assumed of the users,   *)
(* of how long a job runs, or of the order in which waiting threads get    *)
(* the admission lock.                                                     *)
(***************************************************************************)
Fairness ==
  /\ \A t \in Threads : WF_vars(ThreadStep(t))
  /\ \A j \in Jobs : WF_vars(JobReports(j))
  /\ \A a \in Actors : WF_vars(Persist(a))
  /\ WF_vars(HandlerStep)

FairSpec == Spec /\ Fairness

-----------------------------------------------------------------------------
(***************************************************************************)
(* What should hold.                                                       *)
(***************************************************************************)
\* Every variable keeps its type, and no outcome is sent twice.
TypeOK ==
  /\ items \in [Items -> Rows] /\ rows \in [Items -> Rows]
  /\ dirty \in SUBSET Items
  /\ jobs \in [Items -> 0 .. MaxJobs] /\ job \in [Jobs -> JobRecords]
  /\ outcomes \in Seq(Jobs) /\ Len(outcomes) <= MaxJobs
  /\ handler \in [pc : {"idle", "settle", "scan", "last"}, job : 0 .. MaxJobs]
  /\ saver \in [pc : {"idle", "ask"}, todo : SUBSET Items, taken : 0 .. MaxCheckpoints]
  /\ thread \in [Threads -> ThreadRecords]
  /\ \A a \in Actors : \E S \in SUBSET Items : write[a] \in [S -> Rows]
  /\ admission \in Threads \cup {Nobody}
  /\ queue \in [running : BOOLEAN, busy : BOOLEAN]
  /\ commands \in 0 .. MaxCommands

\* manager: "maps items to jobs".  A job that nobody cancelled is in the map, or about to be
\* put there by the thread that started it: it can be paused, is checkpointed, and no
\* second job is started beside it on the same file.
LiveJobsAreMapped ==
  \A j \in Jobs :
    Running(j) /\ job[j].stop # "cancel" =>
      jobs[job[j].item] = j \/ \E t \in Threads : thread[t].job = j

\* admit: the queue never runs more downloads than it has slots, however the tick, commands
\* and outcomes interleave, as long as items are only started by admission and none is deleted.
AdmittedWithinLimit ==
  Cardinality({j \in Jobs : Running(j) /\ job[j].stop # "cancel" /\ Present(job[j].item)})
    <= MaxConcurrent

\* delete_items: what is not moved to the trash is "forgotten".  No outcome, checkpoint or
\* command that had the item in hand before puts it back into the list.
DeletedStep == \A i \in Items : Present(i)' => Present(i)
DeletedStaysGone == [][DeletedStep]_vars

\* handle_outcome: "completion/failure must survive a crash right after".  Once the outcome
\* is handled, the row of a completed item says so.
CompletionSurvives ==
  \A i \in Items :
    items[i].status = "completed" /\ handler.pc = "idle" /\ write[Handler] = NoWrite =>
      rows[i].status = "completed"

\* queue_was_busy holds "queues that were running in the previous tick": a queue is not
\* reported finished while a command is still putting its items into it.
FinishedQueueHadItems ==
  [][queue.busy /\ ~queue'.busy /\ thread[Ticker].pc = "detect" =>
       \A t \in Callers : thread[t].pc \notin {"collect", "enqueue"}]_vars

\* Shown as active, and what that leads to where no job is replaced by another: shown as
\* something else, or a job of the item runs.
ShownActive(i) == items[i].status = "active"
SettledItem(i) == ~ShownActive(i) \/ \E j \in Jobs : Running(j) /\ job[j].item = i
=============================================================================
