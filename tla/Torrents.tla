------------------------------ MODULE Torrents ------------------------------
(***************************************************************************)
(* Torrents (prism-torrent, and TorrentJob in prism-core, jobs.rs): an     *)
(* item's job adds the torrent to the session or wakes it there, watches   *)
(* it until it is finished, and puts it to sleep when it stops.  The       *)
(* session belongs to a library; it keeps its torrents across restarts, so *)
(* a torrent and its item can come to disagree.                            *)
(*                                                                         *)
(* Each job is its own task: an await ends a step.  The session answers as *)
(* src uses it: add and resume wake a torrent, pause puts it to sleep or   *)
(* refuses, delete forgets it.                                             *)
(***************************************************************************)
EXTENDS Integers, FiniteSets

CONSTANTS
  Items,
  TorrentOf,    \* The torrent of each item.
  Folders,      \* Folders a torrent may be saved in.
  Nil,
  MaxStarts,    \* Bound: starts of one item.
  MaxMoves,     \* Bound: changes of a save folder.
  MaxRefusals,  \* Bound: refused pauses.
  MaxKills,     \* Bound: kills of the program.
  MaxDeletes    \* Bound: items deleted.

Hashes == {TorrentOf[i] : i \in Items}

VARIABLES
  item,     \* The row of an item, Nil once deleted.
  job,      \* The job of an item.
  session,  \* The library's torrents: awake, the folder, finished; Nil for unknown ones.
  refused,  \* Torrents the session refused to put to sleep.
  carried,  \* Torrents that were awake when the program was killed.
  used

vars == << item, job, session, refused, carried, used >>

Statuses == {"Idle", "Downloading", "Paused", "Completed", "Failed"}
NoJob == [at |-> "none", stop |-> FALSE, folder |-> Nil, known |-> FALSE]

TypeOK ==
  /\ \A i \in Items :
       /\ item[i] # Nil => /\ item[i].status \in Statuses /\ item[i].hash \in BOOLEAN
                           /\ item[i].folder \in Folders
                           /\ item[i].path \in Folders \cup {Nil}
       /\ job[i].at \in {"none", "begin", "adding", "noted", "watch", "done"}
  /\ \A t \in Hashes : session[t] # Nil =>
       /\ session[t].awake \in BOOLEAN /\ session[t].folder \in Folders
       /\ session[t].finished \in BOOLEAN /\ session[t].failed \in BOOLEAN
  /\ refused \subseteq Hashes /\ carried \subseteq Hashes

Init ==
  /\ item \in [Items -> {[status |-> "Idle", hash |-> FALSE, folder |-> f, path |-> Nil] :
                           f \in Folders}]
  /\ job = [i \in Items |-> NoJob]
  /\ session = [t \in Hashes |-> Nil]
  /\ refused = {} /\ carried = {}
  /\ used = [starts |-> [i \in Items |-> 0], moves |-> 0, refusals |-> 0, kills |-> 0,
             deletes |-> 0]

-----------------------------------------------------------------------------
Managed(t) == session[t] # Nil
Row(i, row) == item' = IF item[i] = Nil THEN item ELSE [item EXCEPT ![i] = row]

\* start_item: the job takes a copy of the row.
Start(i) ==
  /\ item[i] # Nil /\ item[i].status # "Completed" /\ job[i].at = "none"
  /\ used.starts[i] < MaxStarts
  /\ used' = [used EXCEPT !.starts[i] = @ + 1]
  /\ item' = [item EXCEPT ![i].status = "Downloading"]
  /\ job' = [job EXCEPT ![i] = [NoJob EXCEPT !.at = "begin", !.folder = item[i].folder,
                                             !.known = item[i].hash]]
  /\ UNCHANGED << session, refused, carried >>

\* pause_items; the job sees it at its next await.
Pause(i) ==
  /\ job[i].at \notin {"none", "done"} /\ ~job[i].stop
  /\ job' = [job EXCEPT ![i].stop = TRUE]
  /\ UNCHANGED << item, session, refused, carried, used >>

\* A torrent the row knows by its hash is woken, or cannot be; else it is added.
Begin(i) ==
  /\ job[i].at = "begin"
  /\ LET t == TorrentOf[i] IN
       \/ /\ job[i].known /\ Managed(t)
          /\ session' = [session EXCEPT ![t].awake = TRUE, ![t].failed = FALSE]
          /\ job' = [job EXCEPT ![i].at = "watch"] /\ item' = item
       \/ /\ job[i].known /\ Managed(t)
          /\ job' = [job EXCEPT ![i].at = "done"] /\ session' = session
          /\ Row(i, [item[i] EXCEPT !.status = "Failed"])
       \/ /\ ~(job[i].known /\ Managed(t))
          /\ job' = [job EXCEPT ![i].at = "adding"] /\ UNCHANGED << session, item >>
  /\ UNCHANGED << refused, carried, used >>

\* TorrentEngine::add: a torrent the session has keeps the folder it has.
Added(t, folder) ==
  IF Managed(t) THEN session
  ELSE [session EXCEPT ![t] = [awake |-> TRUE, folder |-> folder, finished |-> FALSE,
                               failed |-> FALSE]]

\* The add ends first, or the stop does, or the session gives an error.
Add(i) ==
  /\ job[i].at = "adding"
  /\ \/ /\ session' = Added(TorrentOf[i], job[i].folder)
        /\ job' = [job EXCEPT ![i].at = "noted"] /\ item' = item
     \/ /\ job[i].stop
        /\ job' = [job EXCEPT ![i].at = "done"]
        /\ Row(i, [item[i] EXCEPT !.status = "Paused"]) /\ session' = session
     \/ /\ job' = [job EXCEPT ![i].at = "done"]
        /\ Row(i, [item[i] EXCEPT !.status = "Failed"]) /\ session' = session
  /\ UNCHANGED << refused, carried, used >>

NoteHash(i) ==
  /\ job[i].at = "noted"
  /\ Row(i, [item[i] EXCEPT !.hash = TRUE])
  /\ job' = [job EXCEPT ![i].at = "watch"]
  /\ UNCHANGED << session, refused, carried, used >>

\* The session puts a torrent to sleep or refuses; the job takes no notice.
Asleep(t) ==
  \/ /\ Managed(t) /\ session' = [session EXCEPT ![t].awake = FALSE]
     /\ UNCHANGED << refused, used >>
  \/ ~Managed(t) /\ UNCHANGED << session, refused, used >>
  \/ /\ Managed(t) /\ session[t].awake /\ used.refusals < MaxRefusals
     /\ used' = [used EXCEPT !.refusals = @ + 1]
     /\ refused' = refused \cup {t} /\ session' = session

\* Mutant: a finished torrent goes on seeding.
Ending_OnlyStopped(i) == job[i].stop
Ending(i) == job[i].stop \/ session[TorrentOf[i]].finished

\* content_path of the folder the job was given.
CompletedRow(i) == [item[i] EXCEPT !.status = "Completed", !.path = job[i].folder]

\* One round of the watch: finished, failed, or removed from the session, or stopped.
Watch(i) ==
  /\ job[i].at = "watch"
  /\ LET t == TorrentOf[i] IN
       \/ /\ Managed(t) /\ session[t].finished
          /\ IF Ending(i) THEN Asleep(t) ELSE UNCHANGED << session, refused, used >>
          /\ Row(i, CompletedRow(i))
       \/ /\ Managed(t) /\ ~session[t].finished /\ session[t].failed
          /\ Row(i, [item[i] EXCEPT !.status = "Failed"])
          /\ UNCHANGED << session, refused, used >>
       \/ /\ ~Managed(t)
          /\ Row(i, [item[i] EXCEPT !.status = "Failed"])
          /\ UNCHANGED << session, refused, used >>
       \/ /\ job[i].stop /\ ~(Managed(t) /\ session[t].finished)
          /\ Asleep(t)
          /\ Row(i, [item[i] EXCEPT !.status = "Paused"])
  /\ job' = [job EXCEPT ![i].at = "done"]
  /\ UNCHANGED carried

\* The outcome was handled; the job leaves the map.
Leave(i) ==
  /\ job[i].at = "done"
  /\ job' = [job EXCEPT ![i] = NoJob]
  /\ UNCHANGED << item, session, refused, carried, used >>

-----------------------------------------------------------------------------
\* update_item with a new folder, while no job is in the map.
MoveFolder(i, f) ==
  /\ used.moves < MaxMoves
  /\ item[i] # Nil /\ item[i].status \notin {"Completed"} /\ job[i].at = "none"
  /\ item' = [item EXCEPT ![i].folder = f]
  /\ used' = [used EXCEPT !.moves = @ + 1]
  /\ UNCHANGED << job, session, refused, carried >>

\* delete_items: the job is stopped, and the torrent leaves the session if the row has its hash.
Delete(i) ==
  /\ item[i] # Nil /\ used.deletes < MaxDeletes
  /\ used' = [used EXCEPT !.deletes = @ + 1]
  /\ item' = [item EXCEPT ![i] = Nil]
  /\ job' = IF job[i].at = "none" THEN job ELSE [job EXCEPT ![i].stop = TRUE]
  /\ session' = IF item[i].hash THEN [session EXCEPT ![TorrentOf[i]] = Nil] ELSE session
  /\ refused' = IF item[i].hash THEN refused \ {TorrentOf[i]} ELSE refused
  /\ UNCHANGED carried

\* The library: pieces arrive, or a torrent fails and stops.
Arrive(t) ==
  /\ Managed(t) /\ session[t].awake /\ ~session[t].failed
  /\ \/ session' = [session EXCEPT ![t].finished = TRUE]
     \/ session' = [session EXCEPT ![t].failed = TRUE, ![t].awake = FALSE]
  /\ UNCHANGED << item, job, refused, carried, used >>

\* The program is killed and starts again: rows at work are paused, and the session takes
\* its torrents up as it left them.
Kill ==
  /\ used.kills < MaxKills
  /\ used' = [used EXCEPT !.kills = @ + 1]
  /\ item' = [i \in Items |->
       IF item[i] # Nil /\ item[i].status = "Downloading"
       THEN [item[i] EXCEPT !.status = "Paused"] ELSE item[i]]
  /\ job' = [i \in Items |-> NoJob]
  /\ carried' = {t \in Hashes : Managed(t) /\ session[t].awake}
  /\ UNCHANGED << session, refused >>

Next ==
  \/ \E i \in Items : \/ Start(i) \/ Pause(i) \/ Begin(i) \/ Add(i) \/ NoteHash(i) \/ Watch(i)
                      \/ Leave(i) \/ Delete(i)
                      \/ \E f \in Folders : MoveFolder(i, f)
  \/ \E t \in Hashes : Arrive(t)
  \/ Kill

Spec == Init /\ [][Next]_vars

-----------------------------------------------------------------------------
\* A torrent nobody downloads sleeps, and a finished one does not seed: one that is awake has
\* a job at it, or the session refused to put it to sleep or took it up after a kill.  A
\* deletion, a stop and an add may come in any order.
QuietWithoutJob ==
  \A t \in Hashes :
    Managed(t) /\ session[t].awake =>
      \/ \E i \in Items : TorrentOf[i] = t /\ job[i].at \in {"noted", "watch"}
      \/ t \in refused \cup carried

\* Stated by TorrentEngine::add, and not kept: a finished item is in the folder its row says.
ContentWhereSaid ==
  \A i \in Items :
    item[i] # Nil /\ item[i].status = "Completed" /\ Managed(TorrentOf[i]) =>
      item[i].path = session[TorrentOf[i]].folder
=============================================================================
