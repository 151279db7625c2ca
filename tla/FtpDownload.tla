----------------------------- MODULE FtpDownload -----------------------------
(***************************************************************************)
(* An FTP download (prism-engine, ftp.rs): the probe that every run starts *)
(* with and what it decides about the resume state, and the workers'       *)
(* control connections, on which a RETR is answered twice - when the data  *)
(* connection opens and when the transfer is over.                         *)
(***************************************************************************)
EXTENDS Naturals, FiniteSets

CONSTANTS
  Workers,
  Blocks,       \* blocks of the file
  MaxRetries,   \* max_retries
  MaxVersions,  \* bound: versions of the file on the server
  MaxFaults,    \* bound: lost connections and refused commands
  MaxStarts     \* bound: runs of the download

VARIABLES
  rest, dates, version,   \* the server accepts REST, answers MDTM; the file's version
  phase,     \* "off", "probe", "run", "done", "failed"
  ranged,    \* probe.resumable
  saved,     \* the resume state: version of its size and date, 0 for none
  disk,      \* the blocks that count as received, by version, 0 if missing
  first,     \* FtpFactory::first: the probe's connection
  conn,      \* FtpFetcher::conn: "none" or "open"
  owed,      \* replies the server still sends on the connection
  clean,     \* FtpFetcher::last_clean
  at, unit, got, fails,   \* what a worker does, its block, the version it receives, its failures
  faults, starts,
  mixed,         \* history: a reply was taken for another's
  movedAtWork    \* history: the file changed during a run

server == <<rest, dates, version>>
control == <<first, conn, owed, clean>>
worker == <<at, unit, got, fails>>
vars == <<server, phase, ranged, saved, disk, control, worker, faults, starts, mixed, movedAtWork>>

Missing == {b \in 1..Blocks : disk[b] = 0} \ {unit[w] : w \in Workers}
Fault == faults < MaxFaults /\ faults' = faults + 1

TypeOK ==
  /\ phase \in {"off", "probe", "run", "done", "failed"}
  /\ saved \in 0..MaxVersions /\ disk \in [1..Blocks -> 0..MaxVersions]
  /\ conn \in [Workers -> {"none", "open"}] /\ clean \in [Workers -> BOOLEAN]
  /\ owed \in [Workers -> 0..1] /\ at \in [Workers -> {"idle", "opening", "reading", "over"}]
  /\ fails \in [Workers -> 0..MaxRetries]

Init ==
  /\ rest \in BOOLEAN /\ dates \in BOOLEAN /\ version = 1
  /\ phase = "off" /\ ranged = FALSE /\ saved = 0 /\ disk = [b \in 1..Blocks |-> 0]
  /\ first = FALSE /\ conn = [w \in Workers |-> "none"] /\ owed = [w \in Workers |-> 0]
  /\ clean = [w \in Workers |-> TRUE] /\ at = [w \in Workers |-> "idle"]
  /\ unit = [w \in Workers |-> 0] /\ got = [w \in Workers |-> 0] /\ fails = [w \in Workers |-> 0]
  /\ faults = 0 /\ starts = 0 /\ mixed = FALSE /\ movedAtWork = FALSE

Moves ==
  /\ version < MaxVersions /\ version' = version + 1
  /\ movedAtWork' = (movedAtWork \/ phase \in {"probe", "run"})
  /\ UNCHANGED <<rest, dates, phase, ranged, saved, disk, control, worker, faults, starts, mixed>>

Start ==
  /\ phase \in {"off", "failed"} /\ starts < MaxStarts /\ starts' = starts + 1
  /\ phase' = "probe"
  /\ fails' = [w \in Workers |-> 0]
  /\ UNCHANGED <<server, ranged, saved, disk, control, at, unit, got, faults, mixed, movedAtWork>>

(* The workers' fetchers are new in each run and drop their connections.   *)
Ended ==
  /\ at' = [w \in Workers |-> "idle"] /\ unit' = [w \in Workers |-> 0]
  /\ conn' = [w \in Workers |-> "none"] /\ owed' = [w \in Workers |-> 0]
  /\ clean' = [w \in Workers |-> TRUE] /\ first' = FALSE

\* Mutant: only the size of the file is compared.
SameFile_SizeOnly == TRUE
SameFile == dates => saved = version

(* probe_ftp answered: the part file is continued, refused or started over *)
Probed ==
  /\ phase = "probe"
  /\ ranged' = rest
  /\ \/ /\ saved # 0 /\ rest /\ ~SameFile
        /\ phase' = "failed" /\ UNCHANGED <<disk, saved, first>>
     \/ /\ saved # 0 /\ rest /\ SameFile
        /\ phase' = "run" /\ first' = TRUE /\ saved' = version /\ UNCHANGED disk
     \/ /\ saved = 0 \/ ~rest
        /\ phase' = "run" /\ first' = TRUE
        /\ saved' = IF rest THEN version ELSE 0
        /\ disk' = [b \in 1..Blocks |-> 0]
  /\ UNCHANGED <<server, conn, owed, clean, worker, faults, starts, mixed, movedAtWork>>

(* It is tried again a few times.                                          *)
ProbeFails ==
  /\ phase = "probe" /\ Fault
  /\ phase' \in {"probe", "failed"}
  /\ UNCHANGED <<server, ranged, saved, disk, control, worker, starts, mixed, movedAtWork>>

Pause ==
  /\ phase \in {"probe", "run"} /\ phase' = "off" /\ Ended
  /\ UNCHANGED <<server, ranged, saved, disk, got, fails, faults, starts, mixed, movedAtWork>>

(* A worker takes a block; the first one gets the probe's connection.      *)
Take(w) ==
  /\ phase = "run" /\ at[w] = "idle"
  /\ ranged \/ \A o \in Workers \ {w} : at[o] = "idle"
  /\ \E b \in Missing : (ranged \/ b = 1 + Cardinality({c \in 1..Blocks : disk[c] # 0}))
                        /\ unit' = [unit EXCEPT ![w] = b]
  /\ at' = [at EXCEPT ![w] = "opening"]
  /\ IF first /\ conn[w] = "none"
     THEN first' = FALSE /\ conn' = [conn EXCEPT ![w] = "open"]
     ELSE UNCHANGED <<first, conn>>
  /\ UNCHANGED <<server, phase, ranged, saved, disk, owed, clean, got, fails, faults, starts, mixed,
                 movedAtWork>>

\* Mutant: a connection is used again whatever became of its transfer.
Reusable_Always(w) == conn[w] = "open"
Reusable(w) == conn[w] = "open" /\ clean[w]

(* open: REST and RETR on the connection, or on a new one.                 *)
Open(w) ==
  /\ at[w] = "opening"
  /\ at' = [at EXCEPT ![w] = "reading"]
  /\ mixed' = (mixed \/ (Reusable(w) /\ owed[w] > 0))
  /\ conn' = [conn EXCEPT ![w] = "open"]
  /\ owed' = [owed EXCEPT ![w] = 1] /\ clean' = [clean EXCEPT ![w] = FALSE]
  /\ got' = [got EXCEPT ![w] = version]
  /\ UNCHANGED <<server, phase, ranged, saved, disk, first, unit, fails, faults, starts, movedAtWork>>

(* A block is complete: the end of the file with the reply read, or the    *)
(* end of the segment, where the worker leaves the transfer.               *)
Receive(w) ==
  /\ at[w] = "reading"
  /\ disk' = [disk EXCEPT ![unit[w]] = got[w]]
  /\ at' = [at EXCEPT ![w] = "idle"] /\ unit' = [unit EXCEPT ![w] = 0]
  /\ fails' = [fails EXCEPT ![w] = 0]
  /\ \/ /\ unit[w] = Blocks
        /\ clean' = [clean EXCEPT ![w] = TRUE] /\ owed' = [owed EXCEPT ![w] = 0]
     \/ UNCHANGED <<clean, owed>>
  /\ UNCHANGED <<server, phase, ranged, saved, first, conn, got, faults, starts, mixed, movedAtWork>>

(* map_ftp and Worker::on_failure: a lost data or control connection, a    *)
(* refused command.  Without REST the file starts over.                    *)
Fails(w) ==
  /\ at[w] \in {"opening", "reading"} /\ Fault
  /\ conn' = [conn EXCEPT ![w] = IF at[w] = "opening" THEN "none" ELSE @]
  /\ owed' = [owed EXCEPT ![w] = IF at[w] = "opening" THEN 0 ELSE @]
  /\ \/ /\ fails[w] < MaxRetries
        /\ fails' = [fails EXCEPT ![w] = @ + 1]
        /\ at' = [at EXCEPT ![w] = "opening"]
        /\ unit' = IF ranged THEN unit ELSE [unit EXCEPT ![w] = 1]
        /\ disk' = IF ranged THEN disk ELSE [b \in 1..Blocks |-> 0]
     \/ /\ fails[w] = MaxRetries
        /\ at' = [at EXCEPT ![w] = "over"] /\ unit' = [unit EXCEPT ![w] = 0]
        /\ UNCHANGED <<fails, disk>>
  /\ UNCHANGED <<server, phase, ranged, saved, first, clean, got, starts, mixed, movedAtWork>>

(* The file is complete, or nobody is left to receive what is missing.     *)
Finish ==
  /\ phase = "run"
  /\ \/ (\A b \in 1..Blocks : disk[b] # 0) /\ phase' = "done" /\ saved' = 0
     \/ (\A w \in Workers : at[w] \in {"idle", "over"}) /\ (\E w \in Workers : at[w] = "over")
        /\ (\E b \in 1..Blocks : disk[b] = 0) /\ phase' = "failed" /\ UNCHANGED saved
  /\ Ended
  /\ UNCHANGED <<server, ranged, disk, got, fails, faults, starts, mixed, movedAtWork>>

Next ==
  \/ Moves \/ Start \/ Probed \/ ProbeFails \/ Pause \/ Finish
  \/ \E w \in Workers : Take(w) \/ Open(w) \/ Receive(w) \/ Fails(w)

Spec == Init /\ [][Next]_vars
-----------------------------------------------------------------------------
(* A worker never takes the last reply of a transfer it abandoned for the  *)
(* answer to its next command.                                             *)
RepliesMatch == ~mixed

(* A file that changed while the download was paused is not mixed with     *)
(* what was received of it before, if the server tells the date.           *)
PausedChangeIsFound ==
  ranged /\ dates /\ ~movedAtWork =>
    \A a, b \in 1..Blocks : disk[a] = 0 \/ disk[b] = 0 \/ disk[a] = disk[b]
==============================================================================
