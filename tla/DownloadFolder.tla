--------------------------- MODULE DownloadFolder ---------------------------
(***************************************************************************)
(* The files of downloads that want the same name in one folder: transfer  *)
(* and storage of the engine, the rows of the manager.  A job chooses a    *)
(* free name, claims it with its part file and moves the file into place;  *)
(* the manager's row follows, an item is deleted with its file, and a kill *)
(* of the program comes between any two of these steps.                    *)
(***************************************************************************)
EXTENDS Naturals, FiniteSets

CONSTANTS
  Items,       \* downloads whose suggested name is the same
  Policies,    \* the conflict policies they may have
  MaxNumber,   \* bound: names are numbered up to this
  MaxKills,    \* bounds: kills,
  MaxOthers,   \* deletions and files of other programs together,
  MaxStarts    \* and these together with the starts of jobs

NoOwner == "nobody"
Somebody == "somebody"       \* a file that is no download's
Names == (0 .. MaxNumber) \X (0 .. MaxNumber)
Wanted == <<0, 0>>
NoName == <<MaxNumber + 1, 0>>

(* numbered_name: "a", "a (n)" and "a (k) (n)".                            *)
Numbered(name, n) ==
  IF n = 0 THEN name ELSE IF name[1] = 0 THEN <<name[2], n>> ELSE NoName

VARIABLES
  policy,      \* Destination::conflict of each item
  final, part, \* whose data the file and the part file of each name hold
  eng,         \* where the item's engine job is
  spot,        \* the final path it chose; its part file has the same name
  tries,       \* candidates place_file has tried
  row,         \* the item in memory: status, file_name, resume
  saved,       \* the item in the database
  deleted,     \* items deleted with their files
  late,        \* history: a name was claimed that had its file by then
  kills, starts, foreign

files == <<final, part>>
jobs == <<eng, spot, tries>>
vars == <<policy, files, jobs, row, saved, deleted, late, kills, starts, foreign>>

Fresh == [status |-> "idle", name |-> Wanted, resume |-> NoName]

Init ==
  /\ policy \in [Items -> Policies]
  /\ final = [n \in Names |-> NoOwner] /\ part = [n \in Names |-> NoOwner]
  /\ eng = [i \in Items |-> "none"] /\ spot = [i \in Items |-> NoName]
  /\ tries = [i \in Items |-> 0]
  /\ row = [i \in Items |-> Fresh] /\ saved = row
  /\ deleted = {} /\ late = FALSE /\ kills = 0 /\ starts = 0 /\ foreign = 0

Others == Cardinality(deleted) + foreign
To(i, stage) == eng' = [eng EXCEPT ![i] = stage]

---------------------------------------------------------------------------
(* The engine job: setup, prepare_destination, place_file.                 *)

Start(i) ==
  /\ eng[i] = "none" /\ i \notin deleted /\ starts + Others < MaxStarts
  /\ row[i].status \in {"idle", "paused", "failed"}
  /\ starts' = starts + 1
  /\ row' = [row EXCEPT ![i].status = "running"]
  /\ To(i, IF row[i].resume = NoName THEN "choose" ELSE "resume")
  /\ UNCHANGED <<policy, files, spot, tries, saved, deleted, late, kills, foreign>>

(* A resume whose part file is gone starts over under the same name.       *)
Resume(i) ==
  /\ eng[i] = "resume"
  /\ spot' = [spot EXCEPT ![i] = row[i].resume]
  /\ To(i, IF part[row[i].resume] # NoOwner THEN "transfer" ELSE "fixed")
  /\ UNCHANGED <<policy, files, tries, row, saved, deleted, late, kills, starts, foreign>>

Free(n) == n \in Names /\ part[n] = NoOwner /\ final[n] = NoOwner
FirstFree(name) ==
  LET free == {n \in 0 .. MaxNumber : Free(Numbered(name, n))}
  IN IF free = {} THEN NoName ELSE Numbered(name, CHOOSE n \in free : \A m \in free : n <= m)

Choose(i) ==
  /\ eng[i] = "choose"
  /\ LET name == row[i].name IN
     CASE policy[i] = "overwrite" -> spot' = [spot EXCEPT ![i] = name] /\ To(i, "fixed")
       [] policy[i] = "fail" ->
            /\ spot' = [spot EXCEPT ![i] = name]
            /\ To(i, IF final[name] # NoOwner THEN "failed" ELSE "claim")
       [] policy[i] = "rename" ->
            /\ spot' = [spot EXCEPT ![i] = FirstFree(name)]
            /\ To(i, IF FirstFree(name) = NoName THEN "failed" ELSE "claim")
  /\ UNCHANGED <<policy, files, tries, row, saved, deleted, late, kills, starts, foreign>>

(* create_part_file: with create_new it fails if the file exists.          *)
\* Mutant: the part file is created or truncated.
Claimable_Always(n) == TRUE
Claimable(n) == part[n] = NoOwner
Claim(i) ==
  /\ eng[i] \in {"claim", "fixed"}
  /\ IF eng[i] = "fixed" \/ Claimable(spot[i])
     THEN part' = [part EXCEPT ![spot[i]] = i] /\ To(i, "transfer")
     ELSE UNCHANGED part /\ To(i, IF policy[i] = "fail" THEN "failed" ELSE "choose")
  /\ late' = (late \/ (eng[i] = "claim" /\ Claimable(spot[i]) /\ final[spot[i]] # NoOwner))
  /\ UNCHANGED <<policy, final, spot, tries, row, saved, deleted, kills, starts, foreign>>

(* The transfer is done, or it ends with a pause or an error.              *)
Transferred(i) ==
  /\ eng[i] = "transfer" /\ i \notin deleted
  /\ To(i, "place") /\ tries' = [tries EXCEPT ![i] = 0]
  /\ UNCHANGED <<policy, files, spot, row, saved, deleted, late, kills, starts, foreign>>
Interrupted(i) ==
  /\ eng[i] = "transfer" /\ i \notin deleted
  /\ To(i, "paused")
  /\ UNCHANGED <<policy, files, spot, tries, row, saved, deleted, late, kills, starts, foreign>>

Candidate(i) == IF policy[i] = "rename" THEN Numbered(spot[i], tries[i]) ELSE spot[i]

(* rename_no_replace: the hard link fails if the name is taken.            *)
\* Mutant: the finished file is renamed over whatever is there.
Vacant_Always(i) == TRUE
Vacant(i) == final[Candidate(i)] = NoOwner \/ policy[i] = "overwrite"
Place(i) ==
  /\ eng[i] = "place"
  /\ IF part[spot[i]] = NoOwner \/ Candidate(i) \notin Names
     THEN To(i, "failed") /\ UNCHANGED <<files, tries, spot>>
     ELSE IF Vacant(i)
     THEN /\ final' = [final EXCEPT ![Candidate(i)] = part[spot[i]]]
          /\ IF policy[i] = "overwrite" THEN part' = [part EXCEPT ![spot[i]] = NoOwner] /\ To(i, "placed")
                                        ELSE To(i, "unlink") /\ UNCHANGED part
          /\ UNCHANGED <<tries, spot>>
     ELSE IF policy[i] = "rename" THEN tries' = [tries EXCEPT ![i] = @ + 1] /\ UNCHANGED <<files, eng, spot>>
     ELSE To(i, "failed") /\ UNCHANGED <<files, tries, spot>>
  /\ UNCHANGED <<policy, row, saved, deleted, late, kills, starts, foreign>>

Unlink(i) ==
  /\ eng[i] = "unlink"
  /\ part' = [part EXCEPT ![spot[i]] = NoOwner] /\ To(i, "placed")
  /\ UNCHANGED <<policy, final, spot, tries, row, saved, deleted, late, kills, starts, foreign>>

(* A job cancelled with delete_file removes the part file it has.          *)
Cancelled(i) ==
  /\ i \in deleted /\ eng[i] \in {"resume", "choose", "claim", "fixed", "transfer"}
  /\ part' = IF eng[i] = "transfer" THEN [part EXCEPT ![spot[i]] = NoOwner] ELSE part
  /\ To(i, "none")
  /\ UNCHANGED <<policy, final, spot, tries, row, saved, deleted, late, kills, starts, foreign>>

---------------------------------------------------------------------------
(* The manager: the outcome of a job, the scan of a finished file, the row.*)

\* Mutant: the row keeps the name that was asked for.
NameOf_Asked(i) == row[i].name
NameOf(i) == Candidate(i)
Outcome(i) ==
  /\ eng[i] \in {"placed", "paused", "failed"} /\ To(i, IF eng[i] = "placed" THEN "scan" ELSE "none")
  /\ row' = IF i \in deleted THEN row
            ELSE [row EXCEPT ![i] =
                    CASE eng[i] = "placed" -> [status |-> "processing", name |-> NameOf(i), resume |-> NoName]
                      [] eng[i] = "paused" -> [status |-> "paused", name |-> spot[i], resume |-> spot[i]]
                      [] eng[i] = "failed" -> [@ EXCEPT !.status = "failed"]]
  /\ saved' = IF eng[i] = "placed" THEN saved ELSE row'
  /\ UNCHANGED <<policy, files, spot, tries, deleted, late, kills, starts, foreign>>

Scanned(i) ==
  /\ eng[i] = "scan" /\ To(i, "none")
  /\ row' = IF i \in deleted THEN row ELSE [row EXCEPT ![i].status = "completed"]
  /\ saved' = [saved EXCEPT ![i] = row'[i]]
  /\ UNCHANGED <<policy, files, spot, tries, deleted, late, kills, starts, foreign>>

(* The checkpoint: the resume state of a running job goes into its row.    *)
Checkpoint(i) ==
  /\ i \notin deleted
  /\ row' = IF eng[i] = "transfer" THEN [row EXCEPT ![i].resume = spot[i]] ELSE row
  /\ saved' = [saved EXCEPT ![i] = row'[i]] /\ saved' # saved
  /\ UNCHANGED <<policy, files, jobs, deleted, late, kills, starts, foreign>>

(* delete_items with delete_files: what the row names is removed.          *)
Delete(i) ==
  /\ i \notin deleted /\ Others < MaxOthers /\ starts + Others < MaxStarts
  /\ deleted' = deleted \cup {i}
  /\ final' = [final EXCEPT ![row[i].name] = NoOwner]
  /\ part' = [n \in Names |-> IF n \in {row[i].name, row[i].resume} THEN NoOwner ELSE part[n]]
  /\ UNCHANGED <<policy, jobs, row, saved, late, kills, starts, foreign>>

---------------------------------------------------------------------------
(* Another program makes a file; a kill, after which the rows are read back*)
(* and what was active is paused.                                          *)

ForeignFile ==
  /\ Others < MaxOthers /\ starts + Others < MaxStarts /\ foreign' = foreign + 1
  /\ \E n \in {Wanted, Numbered(Wanted, 1)} :
       final[n] = NoOwner /\ final' = [final EXCEPT ![n] = Somebody]
  /\ UNCHANGED <<policy, part, jobs, row, saved, deleted, late, kills, starts>>

Kill ==
  /\ kills < MaxKills /\ kills' = kills + 1
  /\ eng' = [i \in Items |-> "none"]
  /\ row' = [i \in Items |-> IF saved[i].status \in {"running", "processing"}
                              THEN [saved[i] EXCEPT !.status = "paused"] ELSE saved[i]]
  /\ UNCHANGED <<policy, files, spot, tries, saved, deleted, late, starts, foreign>>

Job(i) == \/ Start(i) \/ Resume(i) \/ Choose(i) \/ Claim(i) \/ Transferred(i) \/ Interrupted(i)
          \/ Place(i) \/ Unlink(i) \/ Cancelled(i)
Next == \/ \E i \in Items : Job(i) \/ Outcome(i) \/ Scanned(i) \/ Checkpoint(i) \/ Delete(i)
        \/ ForeignFile \/ Kill
Spec == Init /\ [][Next]_vars

---------------------------------------------------------------------------
Owners == Items \cup {NoOwner, Somebody}
TypeOK ==
  /\ final \in [Names -> Owners] /\ part \in [Names -> Items \cup {NoOwner}]
  /\ spot \in [Items -> Names \cup {NoName}]
  /\ \A i \in Items : row[i].name \in Names /\ saved[i].resume \in Names \cup {NoName}

Careful == {i \in Items : policy[i] # "overwrite"}

(* A deletion takes files away and an overwriting download is told to.  A  *)
(* kill brings back the rows: then one that fails on a taken name, which   *)
(* looks at it before it claims the part file, may have claimed a name     *)
(* that is another's; so may one that renames, if its look was so old that *)
(* the download it saw nothing of had finished meanwhile.                  *)
Undisturbed ==
  /\ deleted = {} /\ Careful = Items
  /\ kills = 0 \/ (~late /\ \A i \in Items : policy[i] = "rename")

(* Two downloads never write the same part file, though they look for a    *)
(* free name at the same time and some come back after a kill.             *)
AtWork == {"transfer", "place", "unlink"}
PartsNotShared ==
  Undisturbed => \A i, j \in Items :
    i # j /\ eng[i] \in AtWork /\ eng[j] \in AtWork => spot[i] # spot[j]

(* A file in place, a download's or not, is not replaced by a download that*)
(* was not told to overwrite.                                              *)
FinishedStep ==
  \A n \in Names : final[n] # NoOwner /\ final'[n] # final[n] =>
     deleted' # deleted \/ \E i \in Items \ Careful : eng[i] = "place" /\ eng'[i] = "placed"
FinishedKept == [][FinishedStep]_vars

(* A row that says completed names a file with the item's own data, also   *)
(* the row found after a kill.                                             *)
CompletedHasFile ==
  Undisturbed => \A i \in Items : \A r \in {row[i], saved[i]} : r.status = "completed" => final[r.name] = i

(* Deleting an item with its file leaves the files of the others.          *)
DeletesOwnFiles ==
  [][ \A i \in deleted' \ deleted : \A n \in Names :
        /\ final[n] \in Owners \ {i, NoOwner} => final'[n] = final[n]
        /\ part[n] \in Items \ {i} => part'[n] = part[n] ]_vars
=============================================================================
