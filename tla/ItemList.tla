------------------------------ MODULE ItemList ------------------------------
(***************************************************************************)
(* The list of downloads and the files it stands for (prism-core,          *)
(* manager/mod.rs): duplicates of one content, batches of one post, the    *)
(* trash, moving a finished file, cleaning the list of files that are      *)
(* gone, and the restart after an update.                                  *)
(*                                                                         *)
(* Where DownloadManager follows the rows, the locks and the queue, this   *)
(* module follows what is on the disk.  A job runs and ends; a cancelled   *)
(* one ends at once.  Each with_item is one step and reaches the database  *)
(* in it.  Sizes, prefix hashes and digests all are the content.           *)
(***************************************************************************)
EXTENDS Integers, Sequences, FiniteSets

CONSTANTS
  Count,        \* Ids 1 .. Count, in the order they were added.
  Body,         \* What the server of each item sends.
  Group,        \* Ids of one post downloaded as a batch (download_group).
  Paths,        \* Paths 1, 2, ...: a job takes the first free one.
  Nil,
  MaxCommands,  \* Bound: commands given.
  MaxForeign,   \* Bound: files another program deletes.
  MaxRuns       \* Bound: starts of the program.

Ids == 1 .. Count

VARIABLES
  up,         \* "up", "closing" for an update, or "down".
  items,      \* The list: a row per item, Nil once forgotten.
  jobs,       \* Ids with a job in State::jobs.
  live,       \* Ids whose job is at work.
  asked,      \* Ids whose job was asked to pause.
  disk,       \* The content at every path, Nil for no file.
  outcomes,   \* The channel of job outcomes.
  handler,    \* The task that handles them.
  doomed,     \* Ids a command or the cleaning still has to delete, and how.
  remembered, \* The resume-after-restart file: << item, was queued >>, or Nil.
  atWork,     \* History: what was downloading or waiting when the restart was asked for.
  announced,  \* How many times the batch was announced as complete.
  disturbed,  \* History: times an item went to the trash, came back or was downloaded again.
  used        \* Commands, foreign deletions and runs so far.

vars == << up, items, jobs, live, asked, disk, outcomes, handler, doomed, remembered, atWork,
           announced, disturbed, used >>

Statuses == {"Idle", "Queued", "Active", "Processing", "Completed", "Paused", "Failed"}
Rows == [status : Statuses, path : Paths \cup {Nil}, dup : Ids \cup {Nil}, trashed : BOOLEAN]
Waiting == [at |-> "outcome", id |-> 0, path |-> Nil, cands |-> {}, found |-> Nil,
            clean |-> TRUE]

TypeOK ==
  /\ up \in {"up", "closing", "down"}
  /\ items \in [Ids -> Rows \cup {Nil}]
  /\ jobs \subseteq Ids /\ live \subseteq jobs /\ asked \subseteq live
  /\ disk \in [Paths -> {Body[i] : i \in Ids} \cup {Nil}]
  /\ \A k \in 1 .. Len(outcomes) : outcomes[k].id \in Ids
  /\ handler.at \in {"outcome", "scan", "compare", "point", "finish", "announce"}
  /\ \A d \in doomed : d.id \in Ids
  /\ used.commands \in 0 .. MaxCommands /\ used.foreign \in 0 .. MaxForeign
  /\ used.runs \in 1 .. MaxRuns

\* The items were added to start now.
Init ==
  /\ up = "up"
  /\ items = [i \in Ids |-> [status |-> "Active", path |-> Nil, dup |-> Nil, trashed |-> FALSE]]
  /\ jobs = Ids /\ live = Ids /\ asked = {}
  /\ disk = [p \in Paths |-> Nil]
  /\ outcomes = << >> /\ handler = Waiting /\ doomed = {}
  /\ remembered = Nil /\ atWork = {} /\ announced = 0 /\ disturbed = 0
  /\ used = [commands |-> 0, foreign |-> 0, runs |-> 1]

-----------------------------------------------------------------------------
(* Starting and ending jobs.                                               *)

Present(i) == items[i] # Nil
Startable(i) ==
  /\ Present(i) /\ i \notin jobs
  /\ ~items[i].trashed /\ items[i].status # "Completed"
StartedRow(row) == [row EXCEPT !.status = "Active", !.dup = Nil]

\* start_item for each of S; the jobs begin at once.
StartItems(S) ==
  LET T == {i \in S : Startable(i)}
  IN /\ items' = [i \in Ids |-> IF i \in T THEN StartedRow(items[i]) ELSE items[i]]
     /\ jobs' = jobs \cup T
     /\ live' = live \cup T
     /\ asked' = asked

\* pause_items: a job is asked; without one a queued item leaves its queue.
PauseItems(S) ==
  /\ asked' = asked \cup (S \cap live)
  /\ items' = [i \in Ids |->
       IF i \in S \ jobs /\ Present(i) /\ items[i].status = "Queued"
       THEN [items[i] EXCEPT !.status = "Paused"] ELSE items[i]]
  /\ UNCHANGED << jobs, live >>

Report(i, result, p) ==
  /\ live' = live \ {i} /\ asked' = asked \ {i}
  /\ outcomes' = Append(outcomes, [id |-> i, result |-> result, path |-> p])

JobDelivers(i) ==
  /\ i \in live
  /\ \E p \in Paths :
       /\ disk[p] = Nil /\ \A q \in Paths : disk[q] = Nil => p <= q
       /\ disk' = [disk EXCEPT ![p] = Body[i]]
       /\ Report(i, "Completed", p)
  /\ UNCHANGED << up, items, jobs, handler, doomed, remembered, atWork, announced, disturbed, used >>

JobStops(i) ==
  /\ i \in live
  /\ \/ i \in asked /\ Report(i, "Paused", Nil)
     \/ i \notin asked /\ Report(i, "Failed", Nil)
  /\ UNCHANGED << up, items, jobs, disk, handler, doomed, remembered, atWork, announced, disturbed,
                  used >>

\* queue_tick admits a waiting item.
Admit(i) ==
  /\ up # "down" /\ Present(i) /\ items[i].status = "Queued" /\ Startable(i)
  /\ StartItems({i})
  /\ UNCHANGED << up, disk, outcomes, handler, doomed, remembered, atWork, announced, disturbed,
                  used >>

-----------------------------------------------------------------------------
(* The outcome task.                                                       *)

WithItem(i, row) == items' = IF Present(i) THEN [items EXCEPT ![i] = row] ELSE items

HandlerTake ==
  /\ handler.at = "outcome" /\ outcomes # << >>
  /\ LET o == Head(outcomes) IN
       /\ outcomes' = Tail(outcomes)
       /\ jobs' = jobs \ {o.id} /\ live' = live \ {o.id} /\ asked' = asked \ {o.id}
       /\ \/ /\ o.result = "Completed"
             /\ WithItem(o.id, [items[o.id] EXCEPT !.status = "Processing", !.path = o.path])
             /\ handler' = [Waiting EXCEPT !.at = "scan", !.id = o.id, !.path = o.path]
          \/ /\ o.result # "Completed"
             /\ WithItem(o.id, [items[o.id] EXCEPT !.status =
                  IF o.result = "Paused" /\ @ = "Completed" THEN @ ELSE o.result])
             /\ handler' = handler
  /\ UNCHANGED << up, disk, doomed, remembered, atWork, announced, disturbed, used >>

\* Rows that may hold the content already: deduplicate_post_file.
Originals(i) ==
  {[id |-> j, path |-> items[j].path] : j \in
     {j \in Ids \ {i} : /\ Present(j) /\ ~items[j].trashed
                          /\ items[j].status = "Completed" /\ items[j].dup = Nil
                          /\ Body[j] = Body[i]}}

HandlerScanned ==
  /\ handler.at = "scan"
  /\ \E clean \in BOOLEAN :
       LET cands == IF clean /\ handler.id \in Group /\ Present(handler.id)
                    THEN Originals(handler.id) ELSE {}
       IN handler' = [handler EXCEPT !.clean = clean, !.cands = cands,
                        !.at = IF cands = {} THEN "finish" ELSE "compare"]
  /\ UNCHANGED << up, items, jobs, live, asked, disk, outcomes, doomed, remembered, atWork,
                  announced, disturbed, used >>

\* Mutant: the file may be compared with itself.
SameContent_Itself(c, p) == disk[p] # Nil /\ disk[c.path] = disk[p]
SameContent(c, p) == disk[p] # Nil /\ c.path # p /\ disk[c.path] = disk[p]

\* The blocking task removes the new file when a candidate holds the same content.
HandlerCompared ==
  /\ handler.at = "compare"
  /\ LET same == {c \in handler.cands : SameContent(c, handler.path)} IN
       IF same = {}
       THEN handler' = [handler EXCEPT !.at = "finish"] /\ disk' = disk
       ELSE \E c \in same :
              /\ disk' = [disk EXCEPT ![handler.path] = Nil]
              /\ handler' = [handler EXCEPT !.at = "point", !.found = c]
  /\ UNCHANGED << up, items, jobs, live, asked, outcomes, doomed, remembered, atWork, announced,
                  disturbed, used >>

HandlerPoints ==
  /\ handler.at = "point"
  /\ WithItem(handler.id, [items[handler.id] EXCEPT !.path = handler.found.path,
                                                    !.dup = handler.found.id])
  /\ handler' = [handler EXCEPT !.at = "finish"]
  /\ UNCHANGED << up, jobs, live, asked, disk, outcomes, doomed, remembered, atWork, announced,
                  disturbed, used >>

HandlerFinishes ==
  /\ handler.at = "finish"
  /\ WithItem(handler.id, [items[handler.id] EXCEPT !.status =
                             IF handler.clean THEN "Completed" ELSE "Failed"])
  /\ handler' = IF Present(handler.id) /\ handler.clean
                THEN [handler EXCEPT !.at = "announce"] ELSE Waiting
  /\ UNCHANGED << up, jobs, live, asked, disk, outcomes, doomed, remembered, atWork, announced,
                  disturbed, used >>

\* A batch is announced by its last item (an item of its own at once).
\* Mutant: every finished item of the batch announces it.
BatchReady_Always == TRUE
BatchReady ==
  \A j \in Group : Present(j) /\ ~items[j].trashed => items[j].status = "Completed"

HandlerAnnounces ==
  /\ handler.at = "announce"
  /\ announced' = announced + (IF handler.id \in Group /\ BatchReady THEN 1 ELSE 0)
  /\ handler' = Waiting
  /\ UNCHANGED << up, items, jobs, live, asked, disk, outcomes, doomed, remembered, atWork,
                  disturbed, used >>

-----------------------------------------------------------------------------
(* Commands.                                                               *)

Command ==
  /\ up = "up" /\ used.commands < MaxCommands
  /\ used' = [used EXCEPT !.commands = @ + 1]

ResumeAll ==
  /\ Command
  /\ StartItems({i \in Ids : /\ Present(i) /\ ~items[i].trashed
                               /\ items[i].status \in {"Paused", "Failed", "Idle"}})
  /\ UNCHANGED << up, disk, outcomes, handler, doomed, remembered, atWork, announced, disturbed >>

PauseAll ==
  /\ Command
  /\ PauseItems({i \in Ids : Present(i) /\ items[i].status \in {"Active", "Processing",
                                                                  "Queued"}})
  /\ UNCHANGED << up, disk, outcomes, handler, doomed, remembered, atWork, announced, disturbed >>

\* Starting the queue: what waits in it becomes queued.
Enqueue(i) ==
  /\ Command
  /\ Present(i) /\ ~items[i].trashed /\ items[i].status \in {"Idle", "Paused", "Failed"}
  /\ items' = [items EXCEPT ![i].status = "Queued"]
  /\ UNCHANGED << up, jobs, live, asked, disk, outcomes, handler, doomed, remembered, atWork,
                  announced, disturbed >>

Restore(i) ==
  /\ Command
  /\ Present(i) /\ items[i].trashed
  /\ items' = [items EXCEPT ![i].trashed = FALSE]
  /\ disturbed' = disturbed + 1
  /\ UNCHANGED << up, jobs, live, asked, disk, outcomes, handler, doomed, remembered, atWork,
                  announced >>

\* delete_items, empty_trash, remove_completed: the items go one after another (DeleteOne).
Doom(S, files, permanent) ==
  doomed' = doomed \cup {[id |-> i, files |-> files, permanent |-> permanent] : i \in S}

Delete ==
  /\ Command
  /\ \/ \E i \in Ids, files, permanent \in BOOLEAN : Doom({i}, files, permanent)
     \/ Doom({i \in Ids : Present(i) /\ items[i].trashed}, FALSE, TRUE)
     \/ Doom({i \in Ids : Present(i) /\ items[i].status = "Completed" /\ ~items[i].trashed},
             FALSE, FALSE)
  /\ UNCHANGED << up, items, jobs, live, asked, disk, outcomes, handler, remembered, atWork,
                  announced, disturbed >>

\* remove_item_files: a duplicate does not own the file it shows.
WithoutFileOf(i) ==
  IF items[i].dup # Nil \/ items[i].path = Nil THEN disk
  ELSE [disk EXCEPT ![items[i].path] = Nil]

TrashedRow(row, files) ==
  [row EXCEPT
     !.trashed = TRUE,
     !.status = IF @ \in {"Active", "Processing", "Queued"} THEN "Paused"
                ELSE IF files /\ @ = "Completed" THEN "Idle" ELSE @]

DeleteOne(d) ==
  LET i == d.id
      leaving == d.permanent \/ (Present(i) /\ items[i].trashed)
  IN /\ d \in doomed
     /\ doomed' = doomed \ {d}
     /\ IF ~Present(i)
        THEN UNCHANGED << items, jobs, live, asked, disk, disturbed >>
        ELSE /\ disturbed' = disturbed + (IF leaving THEN 0 ELSE 1)
             /\ disk' = IF d.files THEN WithoutFileOf(i) ELSE disk
             /\ items' = [items EXCEPT ![i] = IF leaving THEN Nil ELSE TrashedRow(@, d.files)]
             /\ IF leaving \/ d.files
                THEN /\ jobs' = jobs \ {i} /\ live' = live \ {i} /\ asked' = asked \ {i}
                ELSE /\ asked' = asked \cup ({i} \cap live)
                     /\ UNCHANGED << jobs, live >>
     /\ UNCHANGED << up, outcomes, handler, remembered, atWork, announced, used >>

\* update_item with a new name or folder; a rename on disk replaces what is there.
Move(i, to) ==
  /\ Command
  /\ Present(i) /\ i \notin jobs /\ items[i].dup = Nil /\ items[i].path # Nil
  /\ LET from == items[i].path IN
       disk' = IF items[i].status = "Completed" /\ disk[from] # Nil /\ from # to
               THEN [disk EXCEPT ![from] = Nil, ![to] = disk[from]] ELSE disk
  /\ items' = [items EXCEPT ![i].path = to]
  /\ UNCHANGED << up, jobs, live, asked, outcomes, handler, doomed, remembered, atWork,
                  announced, disturbed >>

Redownload(i) ==
  /\ Command
  /\ Present(i)
  /\ disk' = WithoutFileOf(i)
  /\ items' = [items EXCEPT ![i] = [StartedRow(@) EXCEPT !.trashed = FALSE]]
  /\ jobs' = jobs \cup {i} /\ live' = live \cup {i} /\ asked' = asked \ {i}
  /\ disturbed' = disturbed + 1
  /\ UNCHANGED << up, outcomes, handler, doomed, remembered, atWork, announced >>

-----------------------------------------------------------------------------
(* Files that are gone, and duplicates the user may remove.                *)

ForeignDelete(p) ==
  /\ used.foreign < MaxForeign /\ disk[p] # Nil
  /\ disk' = [disk EXCEPT ![p] = Nil]
  /\ used' = [used EXCEPT !.foreign = @ + 1]
  /\ UNCHANGED << up, items, jobs, live, asked, outcomes, handler, doomed, remembered, atWork,
                  announced, disturbed >>

\* remove_deleted_files, once at each start: the finished ones whose file is gone.
Vanished ==
  {i \in Ids : /\ Present(i) /\ items[i].status = "Completed" /\ ~items[i].trashed
                 /\ items[i].path # Nil /\ disk[items[i].path] = Nil}

\* find_duplicate_items: of the finished rows, oldest first, one per path, those whose
\* content an older one holds.
Finished ==
  {i \in Ids : /\ Present(i) /\ items[i].status = "Completed" /\ ~items[i].trashed
                 /\ items[i].dup = Nil /\ items[i].path # Nil /\ disk[items[i].path] # Nil}
\* Mutant: a second row of the same file is looked at as well.
FirstOfPath_Any(i) == TRUE
FirstOfPath(i) == \A j \in Finished : j < i => items[j].path # items[i].path
DuplicateItems ==
  {i \in Finished :
     /\ FirstOfPath(i)
     /\ \E j \in Finished : /\ j < i /\ FirstOfPath(j)
                            /\ disk[items[j].path] = disk[items[i].path]}

-----------------------------------------------------------------------------
(* Restart.                                                                *)

\* Mutant: what waits in a queue is not remembered.
AtWork_NoQueued == {i \in Ids : Present(i) /\ ~items[i].trashed
                                  /\ items[i].status \in {"Active", "Processing"}}
AtWork == {i \in Ids : Present(i) /\ ~items[i].trashed
                         /\ items[i].status \in {"Active", "Processing", "Queued"}}

\* shutdown_for_restart, then shutdown: the jobs are asked to pause and get two seconds.
ShutdownForRestart ==
  /\ Command /\ up' = "closing"
  /\ remembered' = {<< i, items[i].status = "Queued" >> : i \in AtWork}
  /\ atWork' = {i \in Ids : Present(i) /\ ~items[i].trashed
                              /\ items[i].status \in {"Active", "Processing", "Queued"}}
  /\ asked' = asked \cup live
  /\ UNCHANGED << items, jobs, live, disk, outcomes, handler, doomed, announced, disturbed >>

\* The two seconds are over, or the program is killed.
Exit ==
  /\ up # "down" /\ used.runs < MaxRuns
  /\ up' = "down"
  /\ jobs' = {} /\ live' = {} /\ asked' = {}
  /\ outcomes' = << >> /\ handler' = Waiting /\ doomed' = {}
  /\ UNCHANGED << items, disk, remembered, atWork, announced, disturbed, used >>

\* Mutant: a row that was at work stays so.
Restored_AsSaved(row) == row
Restored(row) ==
  IF row # Nil /\ row.status \in {"Active", "Processing", "Queued"}
  THEN [row EXCEPT !.status = "Paused"] ELSE row

\* Core::start: the rows are loaded, then what the restart interrupted continues.
Start ==
  /\ up = "down" /\ up' = "up"
  /\ used' = [used EXCEPT !.runs = @ + 1]
  /\ remembered' = Nil
  /\ LET list == IF remembered = Nil THEN {} ELSE remembered
         loaded == [i \in Ids |-> Restored(items[i])]
         back(i) == /\ loaded[i] # Nil /\ ~loaded[i].trashed
                    /\ loaded[i].status # "Completed"
         begun == {i \in Ids : back(i) /\ << i, FALSE >> \in list}
     IN /\ items' = [i \in Ids |->
             IF i \in begun THEN StartedRow(loaded[i])
             ELSE IF back(i) /\ << i, TRUE >> \in list
             THEN [loaded[i] EXCEPT !.status = "Queued"] ELSE loaded[i]]
        /\ jobs' = begun /\ live' = begun
  /\ doomed' = {[id |-> i, files |-> FALSE, permanent |-> TRUE] : i \in Vanished}
  /\ UNCHANGED << asked, disk, outcomes, handler, atWork, announced, disturbed >>

Next ==
  \/ \E i \in Ids : JobDelivers(i) \/ JobStops(i) \/ Admit(i) \/ Enqueue(i) \/ Restore(i)
                      \/ Redownload(i)
  \/ HandlerTake \/ HandlerScanned \/ HandlerCompared \/ HandlerPoints \/ HandlerFinishes
  \/ HandlerAnnounces
  \/ ResumeAll \/ PauseAll \/ Delete \/ ShutdownForRestart \/ Exit \/ Start
  \/ \E d \in doomed : DeleteOne(d)
  \/ \E i \in Ids, p \in Paths : Move(i, p)
  \/ \E p \in Paths : ForeignDelete(p)

Spec == Init /\ [][Next]_vars

-----------------------------------------------------------------------------
\* No row says a download is at work when no job of it is, no outcome of it waits and
\* the outcome task is not at it: a crash, a restart and the trash included.
AtWorkHasJob ==
  up # "down" =>
    \A i \in Ids :
      Present(i) /\ items[i].status \in {"Active", "Processing"} =>
        i \in jobs \/ handler.id = i

\* Skipping a duplicate costs no content: when the outcome task removes the new file,
\* another file holds the same bytes (deduplicate_post_file, whatever rows share a path).
CheckStep ==
  \A p \in Paths :
    handler.at = "compare" /\ handler' # handler /\ disk[p] # Nil /\ disk'[p] = Nil =>
      \E q \in Paths : disk'[q] = disk[p]
ContentOutlivesCheck == [][CheckStep]_vars

\* Deleting every duplicate find_duplicate_items reports, with its file, costs no content.
DuplicatesHaveOriginal ==
  LET freed == {items[i].path : i \in DuplicateItems}
  IN \A p \in Paths : disk[p] # Nil => \E q \in Paths \ freed : disk[q] = disk[p]

\* A batch is announced once, and once more at most for each of its items that went to
\* the trash, came back or was downloaded again (a trashed one may still finish).
BatchCompletesOnce == announced <= 1 + disturbed

\* Whatever was downloading or waiting when the restart for an update began goes on after
\* it, unless it finished or went to the trash meanwhile.
RestartStep ==
  up = "down" /\ up' = "up" /\ remembered # Nil =>
    \A i \in atWork :
      Present(i) /\ ~items[i].trashed /\ items[i].status # "Completed" =>
        items'[i].status = "Queued" \/ i \in jobs'
RestartContinues == [][RestartStep]_vars

\* Stated by MediaInfo::duplicate_of, and not kept: a finished duplicate shows a file with
\* its content, which another finished download has.
DuplicateHasOriginal ==
  \A i \in Ids :
    Present(i) /\ items[i].status = "Completed" /\ items[i].dup # Nil =>
      \E j \in Ids : /\ j # i /\ Present(j) /\ items[j].status = "Completed"
                       /\ items[j].path = items[i].path
=============================================================================
