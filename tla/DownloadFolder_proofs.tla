------------------------- MODULE DownloadFolder_proofs -------------------------
(***************************************************************************)
(* However downloads of one name look for a free one, claim it, finish and *)
(* pause, no two write one part file, a row that says completed names the  *)
(* item's own file, and a file in place is replaced only on request; the   *)
(* first two through kills too, if no claim came too late (Undisturbed).   *)
(*                                                                         *)
(* Not to share a part file is not inductive alone: a resumed download     *)
(* whose part file is gone makes it anew without asking whether another    *)
(* has claimed the name meanwhile.  None has, because its finished file    *)
(* bars the name to whoever looks.  The invariant follows every name an    *)
(* item uses or has in a row: the part file is its own, or gone and the    *)
(* name barred.  A claim whose look is out of date, or one with the policy *)
(* "fail", disregards that bar, which is safe only while nothing is read   *)
(* back after a kill; so there are two invariants, and the one with kills  *)
(* assumes that all rename and none claimed so late.                       *)
(***************************************************************************)
EXTENDS DownloadFolder, WellFoundedInduction, TLAPS

FolderConstants ==
  /\ MaxNumber \in Nat
  /\ Policies \subseteq {"rename", "fail", "overwrite"}
  /\ NoOwner \notin Items /\ Somebody \notin Items

Stages == {"none", "resume", "choose", "claim", "fixed", "transfer", "place", "unlink",
           "placed", "paused", "failed", "scan"}
Statuses == {"idle", "running", "processing", "paused", "failed", "completed"}
Rows == [status : Statuses, name : Names, resume : Names \cup {NoName}]

FolderTypes ==
  /\ policy \in [Items -> Policies]
  /\ final \in [Names -> Owners]
  /\ part \in [Names -> Items \cup {NoOwner}]
  /\ eng \in [Items -> Stages]
  /\ spot \in [Items -> Names \cup {NoName}]
  /\ tries \in [Items -> Nat]
  /\ row \in [Items -> Rows]
  /\ saved \in [Items -> Rows]
  /\ deleted \in SUBSET Items
  /\ kills \in Nat

\* In these stages a job has a name.
Named == {"claim", "fixed", "transfer", "place", "unlink", "placed", "paused"}
HasName(i) ==
  /\ eng[i] \in Named => spot[i] \in Names
  /\ eng[i] = "resume" => row[i].resume \in Names
  /\ eng[i] \in {"unlink", "placed"} => Candidate(i) \in Names

FolderTyped == FolderTypes /\ \A i \in Items : HasName(i)

---------------------------------------------------------------------------
(* While no item is deleted and nobody overwrites:                         *)

AllRename == deleted = {} /\ ~late /\ \A i \in Items : policy[i] = "rename"
NoKillYet == deleted = {} /\ Careful = Items /\ kills = 0

\* With its part file in hand.
InHand == {"transfer", "place", "unlink", "paused"}

(* All rename and none claims a name late, with kills.                     *)

\* The names an item uses, or will read back from its row.
Uses(i, n) ==
  \/ eng[i] \in InHand \cup {"fixed"} /\ n = spot[i]
  \/ n = row[i].resume
  \/ n = saved[i].resume
\* Its part file is gone for good: a finished file bars the name.
Barred(n) == part[n] = NoOwner /\ final[n] # NoOwner

OwnOrBarred == \A i \in Items, n \in Names : Uses(i, n) => part[n] = i \/ Barred(n)
UsedByOne == \A i, j \in Items, n \in Names : Uses(i, n) /\ Uses(j, n) => i = j
PartInHand == \A i \in Items : eng[i] \in InHand => part[spot[i]] = i
\* What is being put in place has, or will leave, a file of its own name behind.
NameTaken ==
  \A i \in Items : /\ eng[i] = "place" /\ tries[i] > 0 => final[spot[i]] # NoOwner
                   /\ eng[i] = "unlink" => final[spot[i]] # NoOwner

RenamersApart == OwnOrBarred /\ UsedByOne /\ PartInHand /\ NameTaken

(* No kill yet, with any careful policy.                                   *)
ResumesOwn ==
  \A i \in Items, n \in Names : row[i].resume = n /\ eng[i] # "placed" => part[n] = i
CarefulApart == PartInHand /\ ResumesOwn /\ \A i \in Items : eng[i] # "fixed"

(* In both cases what is finished is the item's own.                       *)
FinishedOwn ==
  \A i \in Items :
    /\ eng[i] \in {"unlink", "placed"} => final[Candidate(i)] = i
    /\ eng[i] = "scan" => final[row[i].name] = i
    /\ row[i].status = "completed" => final[row[i].name] = i
    /\ saved[i].status = "completed" => final[saved[i].name] = i

FolderInv ==
  /\ FolderTyped
  /\ AllRename => RenamersApart
  /\ NoKillYet => CarefulApart
  /\ Undisturbed => FinishedOwn

---------------------------------------------------------------------------
(* Names.                                                                  *)

\* NoName is none of the names, and the number 0 adds nothing.
LEMMA NameFacts ==
  ASSUME FolderConstants
  PROVE  NoName \notin Names /\ Wanted \in Names /\ \A name : Numbered(name, 0) = name
<1>1. NoName \notin Names
  <2>1. \A name \in Names : name[1] \in 0 .. MaxNumber
    BY DEF Names
  <2>. QED  BY <2>1 DEF FolderConstants, NoName
<1>2. Wanted \in Names
  BY DEF FolderConstants, Names, Wanted
<1>3. \A name : Numbered(name, 0) = name
  BY DEF Numbered
<1>. QED  BY <1>1, <1>2, <1>3

\* first_free_name: a name that is found is a free one.
LEMMA FirstFreeIsFree ==
  ASSUME FolderConstants, NEW name, FirstFree(name) # NoName
  PROVE  Free(FirstFree(name))
<1>. DEFINE free == {n \in 0 .. MaxNumber : Free(Numbered(name, n))}
<1>1. free # {} /\ free \in SUBSET Nat
  BY DEF FirstFree, FolderConstants
<1>2. PICK n \in free : \A m \in free : n <= m
  <2>. HIDE DEF free
  <2>1. PICK n \in free : \A m \in free : ~ (<<m, n>> \in OpToRel(<, Nat))
    BY <1>1, NatLessThanWellFounded, WFMin
  <2>2. \A m \in free : ~ (m < n)
    BY <1>1, <2>1 DEF OpToRel
  <2>. QED  BY <1>1, <2>2
<1>3. \A m \in free : (CHOOSE k \in free : \A l \in free : k <= l) <= m
  BY <1>2
<1>4. (CHOOSE k \in free : \A l \in free : k <= l) \in free
  BY <1>2
<1>5. FirstFree(name) = Numbered(name, CHOOSE k \in free : \A l \in free : k <= l)
  BY <1>1 DEF FirstFree
<1>. QED  BY <1>4, <1>5

---------------------------------------------------------------------------
(* Types.                                                                  *)

\* What an item has that decides about its name.
SameName(j) ==
  /\ eng'[j] = eng[j] /\ spot'[j] = spot[j] /\ tries'[j] = tries[j]
  /\ row'[j].resume = row[j].resume /\ policy' = policy

\* A job whose stage, name and row stay the same keeps having a name.
LEMMA SameNameKept ==
  ASSUME NEW j \in Items, HasName(j), SameName(j)
  PROVE  HasName(j)'
BY DEF HasName, SameName, Candidate, Named

\* A step of item i that changes its job's stage, name and count only.
JobStep(i, stage, name, count) ==
  /\ eng' = [eng EXCEPT ![i] = stage]
  /\ spot' = [spot EXCEPT ![i] = name]
  /\ tries' = [tries EXCEPT ![i] = count]

\* Such a step touches the job of i and no other.
LEMMA JobStepFacts ==
  ASSUME FolderTypes, NEW i \in Items, NEW stage \in Stages, NEW name \in Names \cup {NoName},
         NEW count \in Nat, JobStep(i, stage, name, count)
  PROVE  /\ eng' \in [Items -> Stages] /\ eng'[i] = stage
         /\ spot' \in [Items -> Names \cup {NoName}] /\ spot'[i] = name
         /\ tries' \in [Items -> Nat] /\ tries'[i] = count
         /\ \A j \in Items \ {i} : eng'[j] = eng[j] /\ spot'[j] = spot[j] /\ tries'[j] = tries[j]
BY DEF FolderTypes, JobStep

\* The stages of a job that a step of the transfer leads to, with the name it has then.
LEMMA ResumeIs ==
  ASSUME FolderTyped, NEW i \in Items, Resume(i)
  PROVE  \E stage \in {"transfer", "fixed"} :
           /\ JobStep(i, stage, row[i].resume, tries[i])
           /\ row[i].resume \in Names
           /\ stage = "transfer" <=> part[row[i].resume] # NoOwner
<1>1. row[i].resume \in Names
  BY DEF FolderTyped, HasName, Resume
<1>. DEFINE stage == IF part[row[i].resume] # NoOwner THEN "transfer" ELSE "fixed"
<1>2. JobStep(i, stage, row[i].resume, tries[i])
  BY DEF Resume, To, JobStep, FolderTyped, FolderTypes
<1>. QED  BY <1>1, <1>2

\* Choosing leads to a claim, a fixed name or a failure.
LEMMA ChooseIs ==
  ASSUME FolderConstants, FolderTyped, NEW i \in Items, Choose(i)
  PROVE  \E stage \in {"claim", "fixed", "failed"}, name \in Names \cup {NoName} :
           /\ JobStep(i, stage, name, tries[i])
           /\ stage # "failed" => name \in Names
           /\ stage = "fixed" <=> policy[i] = "overwrite"
           /\ stage = "claim" /\ policy[i] = "rename" => Free(name)
<1>. DEFINE wish == row[i].name
            free == FirstFree(wish)
<1>0. wish \in Names /\ policy[i] \in {"rename", "fail", "overwrite"}
  BY DEF FolderTyped, FolderTypes, Rows, FolderConstants
<1>. HIDE DEF wish
<1>1. /\ tries' = tries
      /\ \/ policy[i] = "overwrite" /\ spot' = [spot EXCEPT ![i] = wish] /\ To(i, "fixed")
         \/ /\ policy[i] = "fail" /\ spot' = [spot EXCEPT ![i] = wish]
            /\ To(i, IF final[wish] # NoOwner THEN "failed" ELSE "claim")
         \/ /\ policy[i] = "rename" /\ spot' = [spot EXCEPT ![i] = free]
            /\ To(i, IF free = NoName THEN "failed" ELSE "claim")
  BY <1>0 DEF Choose, wish
<1>2. tries' = [tries EXCEPT ![i] = tries[i]]
  BY <1>1 DEF FolderTyped, FolderTypes
<1>3. CASE policy[i] = "overwrite"
  <2>1. JobStep(i, "fixed", wish, tries[i])
    BY <1>1, <1>2, <1>3 DEF JobStep, To
  <2>. QED  BY <1>0, <1>3, <2>1
<1>4. CASE policy[i] = "fail"
  <2>1. \/ JobStep(i, "failed", wish, tries[i])
        \/ JobStep(i, "claim", wish, tries[i])
    BY <1>1, <1>2, <1>4 DEF JobStep, To
  <2>. QED  BY <1>0, <1>4, <2>1
<1>5. CASE policy[i] = "rename" /\ free = NoName
  <2>1. JobStep(i, "failed", NoName, tries[i])
    BY <1>1, <1>2, <1>5 DEF JobStep, To
  <2>. QED  BY <1>5, <2>1
<1>6. CASE policy[i] = "rename" /\ free # NoName
  <2>1. JobStep(i, "claim", free, tries[i])
    BY <1>1, <1>2, <1>6 DEF JobStep, To
  <2>2. Free(free)
    BY <1>6, FirstFreeIsFree
  <2>3. free \in Names
    BY <2>2 DEF Free
  <2>. HIDE DEF free
  <2>. QED  BY <1>6, <2>1, <2>2, <2>3
<1>. QED  BY <1>0, <1>3, <1>4, <1>5, <1>6

\* Such a step keeps the types, when the name it leads to is one.
LEMMA JobStepTyped ==
  ASSUME FolderTyped, NEW i \in Items, NEW stage \in Stages, NEW name \in Names \cup {NoName},
         NEW count \in Nat, JobStep(i, stage, name, count),
         part' \in [Names -> Items \cup {NoOwner}], final' \in [Names -> Owners],
         UNCHANGED <<policy, row, saved, deleted, kills>>,
         stage # "resume", stage \in Named => name \in Names,
         stage \in {"unlink", "placed"} => Candidate(i)' \in Names
  PROVE  FolderTyped'
<1>1. /\ eng' \in [Items -> Stages] /\ eng'[i] = stage
      /\ spot' \in [Items -> Names \cup {NoName}] /\ spot'[i] = name
      /\ tries' \in [Items -> Nat] /\ tries'[i] = count
      /\ \A j \in Items \ {i} : eng'[j] = eng[j] /\ spot'[j] = spot[j] /\ tries'[j] = tries[j]
  BY JobStepFacts DEF FolderTyped
<1>2. FolderTypes'
  BY <1>1 DEF FolderTyped, FolderTypes
<1>3. HasName(i)'
  BY <1>1 DEF HasName
<1>4. \A j \in Items \ {i} : HasName(j)'
  BY <1>1, SameNameKept DEF FolderTyped, SameName
<1>. QED  BY <1>2, <1>3, <1>4 DEF FolderTyped

---------------------------------------------------------------------------
(* Steps that leave part files alone.                                      *)

\* Nothing new is used or put in place.
LEMMA RenamersQuiet ==
  ASSUME RenamersApart, UNCHANGED part,
         \A n \in Names : final[n] # NoOwner => final'[n] # NoOwner,
         \A j \in Items, n \in Names : Uses(j, n)' => Uses(j, n),
         \A j \in Items : eng'[j] \in InHand => part[spot'[j]] = j,
         \A j \in Items : eng'[j] \in {"place", "unlink"} =>
           /\ eng'[j] = eng[j] /\ spot'[j] = spot[j] /\ tries'[j] = tries[j] /\ spot[j] \in Names
  PROVE  RenamersApart'
<1>. USE DEF RenamersApart
<1>1. \A n \in Names : Barred(n) => Barred(n)'
  BY DEF Barred
<1>2. OwnOrBarred'
  BY <1>1 DEF OwnOrBarred
<1>3. UsedByOne' /\ PartInHand'
  BY DEF UsedByOne, PartInHand
<1>4. NameTaken'
  BY DEF NameTaken
<1>. QED  BY <1>2, <1>3, <1>4

\* Before any kill, a step that leaves the part files alone needs only this.
LEMMA CarefulQuiet ==
  ASSUME UNCHANGED part,
         \A j \in Items : eng'[j] \in InHand => part[spot'[j]] = j,
         \A j \in Items, n \in Names :
           row'[j].resume = n /\ eng'[j] # "placed" => part[n] = j,
         \A j \in Items : eng'[j] # "fixed"
  PROVE  CarefulApart'
BY DEF CarefulApart, PartInHand, ResumesOwn

\* What is finished stays in place and nothing becomes finished.
LEMMA FinishedQuiet ==
  ASSUME FinishedOwn, FolderTyped, FolderConstants,
         \A n \in Names : final[n] # NoOwner => final'[n] = final[n],
         \A j \in Items : eng'[j] \in {"unlink", "placed"} =>
           eng[j] \in {"unlink", "placed"} /\ Candidate(j)' = Candidate(j),
         \A j \in Items : eng'[j] = "scan" => eng[j] = "scan" /\ row'[j].name = row[j].name,
         \A j \in Items : row'[j].status = "completed" =>
           \E r \in {row[j], saved[j]} : r.status = "completed" /\ row'[j].name = r.name,
         \A j \in Items : saved'[j].status = "completed" =>
           \E r \in {row[j], saved[j]} : r.status = "completed" /\ saved'[j].name = r.name
  PROVE  FinishedOwn'
<1>1. \A j \in Items : row[j].name \in Names /\ saved[j].name \in Names
  BY DEF FolderTyped, FolderTypes, Rows
<1>2. \A j \in Items : j # NoOwner
  BY DEF FolderConstants
<1>. SUFFICES ASSUME NEW j \in Items
              PROVE  /\ eng'[j] \in {"unlink", "placed"} => final'[Candidate(j)'] = j
                     /\ eng'[j] = "scan" => final'[row'[j].name] = j
                     /\ row'[j].status = "completed" => final'[row'[j].name] = j
                     /\ saved'[j].status = "completed" => final'[saved'[j].name] = j
  BY DEF FinishedOwn
<1>3. ASSUME eng'[j] \in {"unlink", "placed"} PROVE final'[Candidate(j)'] = j
  <2>1. final[Candidate(j)] = j /\ Candidate(j) \in Names /\ Candidate(j)' = Candidate(j)
    BY <1>3 DEF FinishedOwn, FolderTyped, HasName
  <2>. QED  BY <1>2, <2>1
<1>4. ASSUME eng'[j] = "scan" PROVE final'[row'[j].name] = j
  BY <1>1, <1>2, <1>4 DEF FinishedOwn
<1>5. ASSUME row'[j].status = "completed" PROVE final'[row'[j].name] = j
  BY <1>1, <1>2, <1>5 DEF FinishedOwn
<1>6. ASSUME saved'[j].status = "completed" PROVE final'[saved'[j].name] = j
  BY <1>1, <1>2, <1>6 DEF FinishedOwn
<1>. QED  BY <1>3, <1>4, <1>5, <1>6

\* A step of a job that leaves the files alone, to a stage where it neither puts a file in place
\* nor is about to claim one, under the name it had or has in its row, with the part file its own.
LEMMA JobStepQuiet ==
  ASSUME FolderConstants, FolderInv, NEW i \in Items, NEW stage \in Stages,
         NEW name \in Names \cup {NoName}, NEW count \in Nat, JobStep(i, stage, name, count),
         UNCHANGED <<policy, part, final, row, saved, deleted, late, kills>>,
         stage \notin {"resume", "claim", "place", "unlink", "placed", "scan"},
         eng[i] # "placed",
         stage \in Named => name \in Names,
         stage \in InHand /\ (AllRename \/ NoKillYet) => part[name] = i,
         stage \in InHand \cup {"fixed"} /\ AllRename => name \in Names /\ Uses(i, name),
         stage = "fixed" => ~NoKillYet
  PROVE  FolderInv'
<1>1. /\ eng' \in [Items -> Stages] /\ eng'[i] = stage
      /\ spot' \in [Items -> Names \cup {NoName}] /\ spot'[i] = name
      /\ tries' \in [Items -> Nat] /\ tries'[i] = count
      /\ \A j \in Items \ {i} : eng'[j] = eng[j] /\ spot'[j] = spot[j] /\ tries'[j] = tries[j]
  BY JobStepFacts DEF FolderInv, FolderTyped
<1>2. FolderTyped'
  BY JobStepTyped DEF FolderInv, FolderTyped, FolderTypes
<1>3. ASSUME AllRename' PROVE RenamersApart'
  <2>1. AllRename /\ RenamersApart
    BY <1>3 DEF AllRename, FolderInv
  <2>2. \A j \in Items, n \in Names : Uses(j, n)' => Uses(j, n)
    BY <1>1, <2>1 DEF Uses
  <2>3. \A j \in Items : eng'[j] \in InHand => part[spot'[j]] = j
    BY <1>1, <2>1 DEF RenamersApart, PartInHand
  <2>4. \A j \in Items : eng'[j] \in {"place", "unlink"} =>
          /\ eng'[j] = eng[j] /\ spot'[j] = spot[j] /\ tries'[j] = tries[j] /\ spot[j] \in Names
    BY <1>1 DEF FolderInv, FolderTyped, HasName, Named
  <2>. QED  BY <2>1, <2>2, <2>3, <2>4, RenamersQuiet
<1>4. ASSUME NoKillYet' PROVE CarefulApart'
  <2>1. NoKillYet /\ CarefulApart
    BY <1>4 DEF NoKillYet, Careful, FolderInv
  <2>2. \A j \in Items : eng'[j] \in InHand => part[spot'[j]] = j
    BY <1>1, <2>1 DEF CarefulApart, PartInHand
  <2>3. \A j \in Items, n \in Names : row'[j].resume = n /\ eng'[j] # "placed" => part[n] = j
    BY <1>1, <2>1 DEF CarefulApart, ResumesOwn
  <2>4. \A j \in Items : eng'[j] # "fixed"
    BY <1>1, <2>1 DEF CarefulApart
  <2>. QED  BY <2>2, <2>3, <2>4, CarefulQuiet
<1>5. ASSUME Undisturbed' PROVE FinishedOwn'
  <2>1. Undisturbed /\ FinishedOwn
    BY <1>5 DEF Undisturbed, Careful, FolderInv
  <2>2. \A j \in Items : eng'[j] \in {"unlink", "placed"} =>
          eng[j] \in {"unlink", "placed"} /\ Candidate(j)' = Candidate(j)
    BY <1>1 DEF Candidate
  <2>3. \A j \in Items : eng'[j] = "scan" => eng[j] = "scan" /\ row'[j].name = row[j].name
    BY <1>1
  <2>. QED  BY <2>1, <2>2, <2>3, FinishedQuiet DEF FolderInv
<1>. QED  BY <1>2, <1>3, <1>4, <1>5 DEF FolderInv

---------------------------------------------------------------------------
(* The steps of a job.                                                     *)

\* A resumed job gets the name of its row.
LEMMA ResumeStep ==
  ASSUME FolderConstants, FolderInv, NEW i \in Items, Resume(i)
  PROVE  FolderInv'
<1>. DEFINE name == row[i].resume
<1>1. PICK stage \in {"transfer", "fixed"} :
        /\ JobStep(i, stage, name, tries[i])
        /\ name \in Names
        /\ stage = "transfer" <=> part[name] # NoOwner
  BY ResumeIs DEF FolderInv
<1>2. eng[i] = "resume" /\ UNCHANGED <<policy, part, final, row, saved, deleted, late, kills>>
  BY DEF Resume, files
<1>3. Uses(i, name)
  BY DEF Uses
<1>4. AllRename => part[name] \in {i, NoOwner}
  BY <1>1, <1>3 DEF FolderInv, RenamersApart, OwnOrBarred, Barred
<1>5. NoKillYet => part[name] = i
  BY <1>1, <1>2 DEF FolderInv, CarefulApart, ResumesOwn
<1>6. i # NoOwner /\ stage \in Stages /\ tries[i] \in Nat
  BY DEF FolderConstants, Stages, FolderInv, FolderTyped, FolderTypes
<1>. HIDE DEF name
<1>7. /\ stage \in InHand /\ (AllRename \/ NoKillYet) => part[name] = i
      /\ stage = "fixed" => ~NoKillYet
      /\ stage \notin {"resume", "claim", "place", "unlink", "placed", "scan"}
  BY <1>1, <1>4, <1>5, <1>6 DEF InHand
<1>. QED  BY <1>1, <1>2, <1>3, <1>6, <1>7, JobStepQuiet

\* Choosing a name to claim: it is neither in use nor barred.
LEMMA ChooseClaimStep ==
  ASSUME FolderConstants, FolderInv, NEW i \in Items, NEW name \in Names,
         JobStep(i, "claim", name, tries[i]), eng[i] = "choose",
         policy[i] = "rename" => Free(name),
         UNCHANGED <<policy, part, final, row, saved, deleted, late, kills>>
  PROVE  FolderInv'
<1>0. FolderTypes /\ tries[i] \in Nat /\ "claim" \in Stages
  BY DEF FolderInv, FolderTyped, FolderTypes, Stages
<1>1. /\ eng' \in [Items -> Stages] /\ eng'[i] = "claim"
      /\ spot' \in [Items -> Names \cup {NoName}] /\ spot'[i] = name
      /\ tries' = tries
      /\ \A j \in Items \ {i} : eng'[j] = eng[j] /\ spot'[j] = spot[j]
  BY <1>0, JobStepFacts DEF JobStep, FolderTypes
<1>2. FolderTyped'
  BY <1>0, JobStepTyped DEF FolderInv, FolderTypes
<1>3. ASSUME AllRename' PROVE RenamersApart'
  <2>1. AllRename /\ RenamersApart /\ Free(name)
    BY <1>3 DEF AllRename, FolderInv
  <2>. USE <2>1 DEF RenamersApart
  <2>2. \A n \in Names : Barred(n) => Barred(n)'
    BY DEF Barred
  <2>3. \A j \in Items, n \in Names : Uses(j, n)' => Uses(j, n)
    BY <1>1 DEF Uses, InHand
  <2>4. OwnOrBarred' /\ UsedByOne'
    BY <2>2, <2>3 DEF OwnOrBarred, UsedByOne
  <2>5. PartInHand' /\ NameTaken'
    BY <1>1 DEF PartInHand, NameTaken, InHand
  <2>. QED  BY <2>4, <2>5
<1>4. ASSUME NoKillYet' PROVE CarefulApart'
  <2>1. NoKillYet /\ CarefulApart
    BY <1>4 DEF NoKillYet, Careful, FolderInv
  <2>. QED  BY <1>1, <2>1 DEF CarefulApart, PartInHand, ResumesOwn, InHand
<1>5. ASSUME Undisturbed' PROVE FinishedOwn'
  <2>1. Undisturbed /\ FinishedOwn
    BY <1>5 DEF Undisturbed, Careful, FolderInv
  <2>2. \A j \in Items : eng'[j] \in {"unlink", "placed"} =>
          eng[j] \in {"unlink", "placed"} /\ Candidate(j)' = Candidate(j)
    BY <1>1 DEF Candidate
  <2>3. \A j \in Items : eng'[j] = "scan" => eng[j] = "scan" /\ row'[j].name = row[j].name
    BY <1>1
  <2>. QED  BY <2>1, <2>2, <2>3, FinishedQuiet DEF FolderInv
<1>. QED  BY <1>2, <1>3, <1>4, <1>5 DEF FolderInv

\* A job chooses a name.
LEMMA ChooseStep ==
  ASSUME FolderConstants, FolderInv, NEW i \in Items, Choose(i)
  PROVE  FolderInv'
<1>1. PICK stage \in {"claim", "fixed", "failed"}, name \in Names \cup {NoName} :
        /\ JobStep(i, stage, name, tries[i])
        /\ stage # "failed" => name \in Names
        /\ stage = "fixed" <=> policy[i] = "overwrite"
        /\ stage = "claim" /\ policy[i] = "rename" => Free(name)
  BY ChooseIs DEF FolderInv
<1>2. eng[i] = "choose" /\ UNCHANGED <<policy, part, final, row, saved, deleted, late, kills>>
  BY DEF Choose, files
<1>3. CASE stage = "claim"
  BY <1>1, <1>2, <1>3, ChooseClaimStep
<1>4. CASE stage \in {"fixed", "failed"}
  <2>1. stage = "fixed" => ~AllRename /\ ~NoKillYet
    BY <1>1 DEF AllRename, NoKillYet, Careful
  <2>2. stage \in Stages /\ stage \notin InHand /\ tries[i] \in Nat /\ "failed" \notin Named
    BY <1>4 DEF Stages, InHand, Named, FolderInv, FolderTyped, FolderTypes
  <2>. QED  BY <1>1, <1>2, <1>4, <2>1, <2>2, JobStepQuiet
<1>. QED  BY <1>1, <1>3, <1>4

\* A claim that fails, an interruption, a file that cannot be put in place.
LEMMA GivingUpName ==
  ASSUME FolderConstants, FolderInv, NEW i \in Items, NEW stage \in {"choose", "failed", "paused"},
         JobStep(i, stage, spot[i], tries[i]),
         eng[i] \in {"claim", "transfer", "place"}, stage = "paused" => eng[i] = "transfer",
         UNCHANGED <<policy, part, final, row, saved, deleted, late, kills>>
  PROVE  FolderInv'
<1>1. stage \in Stages /\ tries[i] \in Nat /\ spot[i] \in Names
  BY DEF Stages, FolderInv, FolderTyped, FolderTypes, HasName, Named
<1>2. stage \in InHand => eng[i] \in InHand
  BY DEF InHand
<1>3. stage \in InHand /\ (AllRename \/ NoKillYet) => part[spot[i]] = i
  BY <1>2 DEF FolderInv, RenamersApart, CarefulApart, PartInHand
<1>4. stage \in InHand \cup {"fixed"} => Uses(i, spot[i])
  BY <1>2 DEF Uses
<1>. QED  BY <1>1, <1>3, <1>4, JobStepQuiet

\* The part file is made: nobody else uses the name.
LEMMA ClaimTakes ==
  ASSUME FolderConstants, FolderInv, NEW i \in Items, eng[i] \in {"claim", "fixed"},
         eng[i] = "claim" => part[spot[i]] = NoOwner /\ (late' \/ final[spot[i]] = NoOwner),
         late => late',
         JobStep(i, "transfer", spot[i], tries[i]),
         part' = [part EXCEPT ![spot[i]] = i],
         UNCHANGED <<policy, final, row, saved, deleted, kills>>
  PROVE  FolderInv'
<1>. DEFINE n == spot[i]
<1>0. FolderTypes /\ tries[i] \in Nat /\ "transfer" \in Stages /\ n \in Names /\ i # NoOwner
  BY DEF FolderInv, FolderTyped, FolderTypes, Stages, HasName, Named, FolderConstants
<1>1. /\ eng' \in [Items -> Stages] /\ eng'[i] = "transfer"
      /\ \A j \in Items \ {i} : eng'[j] = eng[j]
      /\ spot' = spot /\ tries' = tries
  BY <1>0, JobStepFacts DEF JobStep, FolderTypes
<1>2. /\ part' \in [Names -> Items \cup {NoOwner}]
      /\ part'[n] = i /\ \A m \in Names \ {n} : part'[m] = part[m]
  BY <1>0 DEF FolderTypes
<1>. HIDE DEF n
<1>3. FolderTyped'
  BY <1>0, <1>2, JobStepTyped DEF FolderInv, FolderTypes, n
<1>4. ASSUME AllRename' PROVE RenamersApart'
  <2>1. AllRename /\ RenamersApart
    BY <1>4 DEF AllRename, FolderInv
  <2>. USE <2>1 DEF RenamersApart
  <2>2. \A j \in Items \ {i} : ~Uses(j, n)
    <3>1. CASE eng[i] = "claim"
      <4>1. part[n] = NoOwner /\ final[n] = NoOwner
        BY <1>4, <3>1 DEF AllRename, n
      <4>. QED  BY <1>0, <4>1 DEF OwnOrBarred, Barred, FolderConstants
    <3>2. CASE eng[i] = "fixed"
      <4>1. Uses(i, n)
        BY <3>2 DEF Uses, n
      <4>. QED  BY <1>0, <4>1 DEF UsedByOne
    <3>. QED  BY <3>1, <3>2
  <2>3. \A j \in Items, m \in Names : Uses(j, m)' => Uses(j, m) \/ (j = i /\ m = n)
    BY <1>1 DEF Uses, n
  <2>4. \A m \in Names \ {n} : Barred(m) => Barred(m)'
    BY <1>1, <1>2 DEF Barred
  <2>5. OwnOrBarred'
    BY <1>2, <2>2, <2>3, <2>4 DEF OwnOrBarred
  <2>6. UsedByOne'
    BY <2>2, <2>3 DEF UsedByOne
  <2>7. PartInHand'
    <3>1. \A j \in Items \ {i} : eng[j] \in InHand => spot[j] \in Names \ {n}
      BY <2>2 DEF Uses, FolderInv, FolderTyped, HasName, Named, InHand
    <3>. QED  BY <1>1, <1>2, <3>1 DEF PartInHand, n
  <2>8. NameTaken'
    BY <1>1 DEF NameTaken
  <2>. QED  BY <2>5, <2>6, <2>7, <2>8
<1>5. ASSUME NoKillYet' PROVE CarefulApart'
  <2>1. NoKillYet /\ CarefulApart
    BY <1>5 DEF NoKillYet, Careful, FolderInv
  <2>2. part[n] = NoOwner
    BY <2>1 DEF CarefulApart, n
  <2>3. PartInHand'
    <3>1. \A j \in Items \ {i} : eng[j] \in InHand => spot[j] \in Names /\ part[spot[j]] = j
      BY <2>1 DEF CarefulApart, PartInHand, FolderInv, FolderTyped, HasName, Named, InHand
    <3>2. \A j \in Items \ {i} : eng[j] \in InHand => spot[j] \in Names \ {n}
      BY <2>2, <3>1 DEF FolderConstants
    <3>. QED  BY <1>1, <1>2, <3>1, <3>2 DEF PartInHand, n
  <2>4. ResumesOwn'
    BY <1>1, <1>2, <2>1, <2>2 DEF CarefulApart, ResumesOwn, FolderConstants
  <2>5. \A j \in Items : eng'[j] # "fixed"
    BY <1>1, <2>1 DEF CarefulApart
  <2>. QED  BY <2>3, <2>4, <2>5 DEF CarefulApart
<1>6. ASSUME Undisturbed' PROVE FinishedOwn'
  <2>1. Undisturbed /\ FinishedOwn
    BY <1>6 DEF Undisturbed, Careful, FolderInv
  <2>2. \A j \in Items : eng'[j] \in {"unlink", "placed"} =>
          eng[j] \in {"unlink", "placed"} /\ Candidate(j)' = Candidate(j)
    BY <1>1 DEF Candidate
  <2>3. \A j \in Items : eng'[j] = "scan" => eng[j] = "scan" /\ row'[j].name = row[j].name
    BY <1>1
  <2>. QED  BY <2>1, <2>2, <2>3, FinishedQuiet DEF FolderInv
<1>. QED  BY <1>3, <1>4, <1>5, <1>6 DEF FolderInv

\* A job claims the part file of its name.
LEMMA ClaimStep ==
  ASSUME FolderConstants, FolderInv, NEW i \in Items, Claim(i)
  PROVE  FolderInv'
<1>. USE DEF FolderInv, FolderTyped, FolderTypes
<1>1. /\ spot' = [spot EXCEPT ![i] = spot[i]] /\ tries' = [tries EXCEPT ![i] = tries[i]]
      /\ UNCHANGED <<policy, final, row, saved, deleted, kills>>
      /\ eng[i] \in {"claim", "fixed"}
  BY DEF Claim
<1>2. CASE eng[i] = "fixed" \/ Claimable(spot[i])
  <2>1. part' = [part EXCEPT ![spot[i]] = i] /\ JobStep(i, "transfer", spot[i], tries[i])
    BY <1>1, <1>2 DEF Claim, To, JobStep
  <2>2. eng[i] = "claim" => part[spot[i]] = NoOwner
    BY <1>2 DEF Claimable
  <2>3. /\ late => late'
        /\ eng[i] = "claim" => late' \/ final[spot[i]] = NoOwner
    BY <1>2 DEF Claim
  <2>. QED  BY <1>1, <2>1, <2>2, <2>3, ClaimTakes
<1>3. CASE ~(eng[i] = "fixed" \/ Claimable(spot[i]))
  <2>1. PICK stage \in {"failed", "choose"} : JobStep(i, stage, spot[i], tries[i])
    BY <1>1, <1>3 DEF Claim, To, JobStep
  <2>2. UNCHANGED part /\ eng[i] = "claim"
    BY <1>1, <1>3 DEF Claim
  <2>3. late' <=> late
    BY <1>3 DEF Claim
  <2>. QED  BY <1>1, <2>1, <2>2, <2>3, GivingUpName
<1>. QED  BY <1>2, <1>3

\* A pause or an error in the transfer.
LEMMA InterruptedStep ==
  ASSUME FolderConstants, FolderInv, NEW i \in Items, Interrupted(i)
  PROVE  FolderInv'
<1>1. JobStep(i, "paused", spot[i], tries[i])
  BY DEF Interrupted, To, JobStep, FolderInv, FolderTyped, FolderTypes
<1>. QED  BY <1>1, GivingUpName DEF Interrupted, files

---------------------------------------------------------------------------
(* Putting the file in place.                                              *)

\* From the end of the transfer to the file in its place, the part file still there.
LEMMA PlacingStep ==
  ASSUME FolderConstants, FolderInv, NEW i \in Items, NEW stage \in {"place", "unlink"},
         NEW count \in Nat, JobStep(i, stage, spot[i], count),
         eng[i] \in {"transfer", "place"},
         final' \in [Names -> Owners],
         AllRename \/ NoKillYet => \A n \in Names : final[n] # NoOwner => final'[n] = final[n],
         AllRename /\ (stage = "unlink" \/ count > 0) => final'[spot[i]] # NoOwner,
         stage = "unlink" => Candidate(i)' \in Names,
         stage = "unlink" /\ (AllRename \/ NoKillYet) => final'[Candidate(i)'] = i,
         UNCHANGED <<policy, part, row, saved, deleted, late, kills>>
  PROVE  FolderInv'
<1>0. FolderTypes /\ stage \in Stages /\ spot[i] \in Names /\ eng[i] \in InHand
  BY DEF FolderInv, FolderTyped, FolderTypes, Stages, HasName, Named, InHand
<1>1. /\ eng' \in [Items -> Stages] /\ eng'[i] = stage
      /\ \A j \in Items \ {i} : eng'[j] = eng[j] /\ tries'[j] = tries[j]
      /\ spot' = spot /\ tries'[i] = count
  BY <1>0, JobStepFacts DEF JobStep, FolderTypes
<1>2. FolderTyped'
  BY <1>0, JobStepTyped DEF FolderInv, FolderTypes
<1>3. \A j \in Items : eng'[j] \in InHand <=> eng[j] \in InHand
  BY <1>0, <1>1 DEF InHand
<1>4. ASSUME AllRename' PROVE RenamersApart'
  <2>1. AllRename /\ RenamersApart
    BY <1>4 DEF AllRename, FolderInv
  <2>. USE <2>1 DEF RenamersApart
  <2>2. \A n \in Names : Barred(n) => Barred(n)'
    BY <1>1 DEF Barred
  <2>3. \A j \in Items, n \in Names : Uses(j, n)' => Uses(j, n)
    BY <1>0, <1>1, <1>3 DEF Uses
  <2>4. OwnOrBarred' /\ UsedByOne'
    BY <2>2, <2>3 DEF OwnOrBarred, UsedByOne
  <2>5. PartInHand'
    BY <1>1, <1>3 DEF PartInHand
  <2>6. NameTaken'
    <3>1. \A j \in Items : eng[j] \in {"place", "unlink"} => spot[j] \in Names
      BY DEF FolderInv, FolderTyped, HasName, Named
    <3>. QED  BY <1>1, <3>1 DEF NameTaken
  <2>. QED  BY <2>4, <2>5, <2>6
<1>5. ASSUME NoKillYet' PROVE CarefulApart'
  <2>1. NoKillYet /\ CarefulApart
    BY <1>5 DEF NoKillYet, Careful, FolderInv
  <2>2. PartInHand'
    BY <1>1, <1>3, <2>1 DEF CarefulApart, PartInHand
  <2>3. ResumesOwn'
    BY <1>0, <1>1, <2>1 DEF CarefulApart, ResumesOwn, InHand
  <2>. QED  BY <1>1, <2>1, <2>2, <2>3 DEF CarefulApart
<1>6. ASSUME Undisturbed' PROVE FinishedOwn'
  <2>1. Undisturbed /\ FinishedOwn /\ (AllRename \/ NoKillYet)
    BY <1>6 DEF Undisturbed, Careful, FolderInv, AllRename, NoKillYet
  <2>2. \A j \in Items : row[j].name \in Names /\ saved[j].name \in Names
    BY <1>0 DEF FolderTypes, Rows
  <2>3. \A j \in Items \ {i} : eng[j] \in {"unlink", "placed"} =>
          Candidate(j)' = Candidate(j) /\ Candidate(j) \in Names
    BY <1>1 DEF Candidate, FolderInv, FolderTyped, HasName
  <2>4. ASSUME NEW j \in Items, eng'[j] \in {"unlink", "placed"}
        PROVE  final'[Candidate(j)'] = j
    <3>1. CASE j = i
      BY <1>1, <2>1, <2>4, <3>1
    <3>2. CASE j # i
      <4>1. final[Candidate(j)] = j /\ j # NoOwner
        BY <1>1, <2>1, <2>4, <3>2 DEF FinishedOwn, FolderConstants
      <4>. QED  BY <1>1, <2>1, <2>3, <2>4, <3>2, <4>1
    <3>. QED  BY <3>1, <3>2
  <2>5. \A j \in Items : eng'[j] = "scan" => eng[j] = "scan"
    BY <1>1
  <2>. QED  BY <2>1, <2>2, <2>4, <2>5 DEF FinishedOwn, FolderConstants
<1>. QED  BY <1>2, <1>4, <1>5, <1>6 DEF FolderInv

\* The end of a transfer.
LEMMA TransferredStep ==
  ASSUME FolderConstants, FolderInv, NEW i \in Items, Transferred(i)
  PROVE  FolderInv'
<1>1. JobStep(i, "place", spot[i], 0)
  BY DEF Transferred, To, JobStep, FolderInv, FolderTyped, FolderTypes
<1>2. final' \in [Names -> Owners]
  BY DEF Transferred, files, FolderInv, FolderTyped, FolderTypes
<1>. QED  BY <1>1, <1>2, PlacingStep DEF Transferred, files

\* A step of an overwriting download: only the types are left to it.
LEMMA OverwriterStep ==
  ASSUME FolderInv, NEW i \in Items, policy[i] = "overwrite", UNCHANGED policy, FolderTyped'
  PROVE  FolderInv'
<1>1. ~AllRename' /\ ~NoKillYet' /\ ~Undisturbed'
  BY DEF AllRename, NoKillYet, Undisturbed, Careful
<1>. QED  BY <1>1 DEF FolderInv

\* A try to put the file in place: gone, placed, the next candidate, or failed.
LEMMA PlaceStep ==
  ASSUME FolderConstants, FolderInv, NEW i \in Items, Place(i)
  PROVE  FolderInv'
<1>. DEFINE c == Candidate(i)
<1>0. /\ FolderTypes /\ spot[i] \in Names /\ tries[i] \in Nat /\ eng[i] = "place"
      /\ UNCHANGED <<policy, row, saved, deleted, late, kills>>
  BY DEF Place, FolderInv, FolderTyped, FolderTypes, HasName, Named
<1>1. AllRename \/ NoKillYet => part[spot[i]] = i /\ i # NoOwner /\ policy[i] # "overwrite"
  BY <1>0 DEF FolderInv, RenamersApart, CarefulApart, PartInHand, InHand, FolderConstants,
     AllRename, NoKillYet, Careful
<1>2. CASE part[spot[i]] = NoOwner \/ c \notin Names
  <2>1. JobStep(i, "failed", spot[i], tries[i]) /\ UNCHANGED <<part, final>>
    BY <1>0, <1>2 DEF Place, To, JobStep, files, FolderTypes
  <2>. QED  BY <1>0, <2>1, GivingUpName
<1>3. CASE part[spot[i]] # NoOwner /\ c \in Names /\ Vacant(i)
  <2>1. /\ final' = [final EXCEPT ![c] = part[spot[i]]] /\ tries' = tries /\ spot' = spot
        /\ \/ policy[i] = "overwrite" /\ part' = [part EXCEPT ![spot[i]] = NoOwner] /\ To(i, "placed")
           \/ policy[i] # "overwrite" /\ To(i, "unlink") /\ UNCHANGED part
    BY <1>3 DEF Place
  <2>2. part[spot[i]] \in Owners
    BY <1>0 DEF FolderTypes, Owners
  <2>3. final' \in [Names -> Owners] /\ final'[c] = part[spot[i]]
        /\ \A n \in Names \ {c} : final'[n] = final[n]
    BY <1>0, <1>3, <2>1, <2>2 DEF FolderTypes
  <2>4. Candidate(i)' = c
    BY <1>0, <2>1 DEF Candidate
  <2>5. CASE policy[i] = "overwrite"
    <3>1. JobStep(i, "placed", spot[i], tries[i])
      BY <1>0, <2>1, <2>5 DEF To, JobStep, FolderTypes
    <3>2. part' \in [Names -> Items \cup {NoOwner}]
      BY <1>0, <2>1, <2>5 DEF FolderTypes
    <3>3. FolderTyped'
      BY <1>0, <1>3, <2>3, <2>4, <3>1, <3>2, JobStepTyped DEF FolderInv, Stages
    <3>. QED  BY <1>0, <2>5, <3>3, OverwriterStep
  <2>6. CASE policy[i] # "overwrite"
    <3>1. JobStep(i, "unlink", spot[i], tries[i]) /\ UNCHANGED part
      BY <1>0, <2>1, <2>6 DEF To, JobStep, FolderTypes
    <3>2. final[c] = NoOwner
      BY <1>3, <2>6 DEF Vacant
    <3>3. \A n \in Names : final[n] # NoOwner => final'[n] = final[n]
      BY <2>3, <3>2
    <3>4. AllRename => final'[spot[i]] # NoOwner
      <4>1. CASE tries[i] = 0
        <5>1. c = spot[i]
          BY <4>1, NameFacts DEF Candidate
        <5>. QED  BY <1>1, <2>3, <5>1
      <4>2. CASE tries[i] > 0
        <5>1. AllRename => final[spot[i]] # NoOwner
          BY <1>0, <4>2 DEF FolderInv, RenamersApart, NameTaken
        <5>. QED  BY <1>0, <3>3, <5>1
      <4>. QED  BY <1>0, <4>1, <4>2
    <3>5. Candidate(i)' \in Names /\ (AllRename \/ NoKillYet => final'[Candidate(i)'] = i)
      BY <1>1, <1>3, <2>3, <2>4
    <3>. HIDE DEF c
    <3>. QED  BY <1>0, <2>3, <3>1, <3>3, <3>4, <3>5, PlacingStep
  <2>. QED  BY <2>5, <2>6
<1>4. CASE part[spot[i]] # NoOwner /\ c \in Names /\ ~Vacant(i)
  <2>1. CASE policy[i] = "rename"
    <3>1. tries' = [tries EXCEPT ![i] = @ + 1] /\ UNCHANGED <<files, eng, spot>>
      BY <1>4, <2>1 DEF Place
    <3>2. JobStep(i, "place", spot[i], tries[i] + 1) /\ UNCHANGED <<final, part>>
      BY <1>0, <3>1 DEF JobStep, FolderTypes, files
    <3>3. AllRename => final[spot[i]] # NoOwner
      <4>1. CASE tries[i] = 0
        BY <1>4, <4>1, NameFacts DEF Candidate, Vacant
      <4>2. CASE tries[i] > 0
        BY <1>0, <4>2 DEF FolderInv, RenamersApart, NameTaken
      <4>. QED  BY <1>0, <4>1, <4>2
    <3>4. final' \in [Names -> Owners] /\ tries[i] + 1 \in Nat
      BY <1>0, <3>2 DEF FolderTypes
    <3>. QED  BY <1>0, <3>2, <3>3, <3>4, PlacingStep
  <2>2. CASE policy[i] # "rename"
    <3>1. JobStep(i, "failed", spot[i], tries[i]) /\ UNCHANGED <<part, final>>
      BY <1>0, <1>4, <2>2 DEF Place, To, JobStep, files, FolderTypes
    <3>. QED  BY <1>0, <3>1, GivingUpName
  <2>. QED  BY <2>1, <2>2
<1>. QED  BY <1>2, <1>3, <1>4

\* The part file of what is in place goes: from here on the name is barred.
LEMMA UnlinkStep ==
  ASSUME FolderConstants, FolderInv, NEW i \in Items, Unlink(i)
  PROVE  FolderInv'
<1>. DEFINE n == spot[i]
<1>0. /\ FolderTypes /\ n \in Names /\ tries[i] \in Nat /\ eng[i] = "unlink" /\ "placed" \in Stages
      /\ UNCHANGED <<policy, final, spot, tries, row, saved, deleted, late, kills>>
      /\ eng' = [eng EXCEPT ![i] = "placed"]
  BY DEF Unlink, To, FolderInv, FolderTyped, FolderTypes, HasName, Named, Stages
<1>1. eng'[i] = "placed" /\ \A j \in Items \ {i} : eng'[j] = eng[j]
  BY <1>0 DEF FolderTypes
<1>2. /\ part' \in [Names -> Items \cup {NoOwner}]
      /\ part'[n] = NoOwner /\ \A m \in Names \ {n} : part'[m] = part[m]
  BY <1>0 DEF FolderTypes, Unlink
<1>3. FolderTyped'
  <2>1. JobStep(i, "placed", spot[i], tries[i])
    BY <1>0 DEF JobStep, FolderTypes
  <2>2. Candidate(i)' \in Names
    BY <1>0 DEF Candidate, FolderInv, FolderTyped, HasName
  <2>3. final' \in [Names -> Owners]
    BY <1>0 DEF FolderTypes
  <2>. QED  BY <1>0, <1>2, <2>1, <2>2, <2>3, JobStepTyped DEF FolderInv
<1>. HIDE DEF n
<1>4. ASSUME AllRename' PROVE RenamersApart'
  <2>1. AllRename /\ RenamersApart
    BY <1>0, <1>4 DEF AllRename, FolderInv
  <2>. USE <2>1 DEF RenamersApart
  <2>2. Uses(i, n)
    BY <1>0 DEF Uses, InHand, n
  <2>3. \A j \in Items, m \in Names : Uses(j, m)' => Uses(j, m)
    BY <1>0, <1>1 DEF Uses, InHand
  <2>4. \A j \in Items \ {i} : ~Uses(j, n)
    BY <1>0, <2>2 DEF UsedByOne
  <2>5. \A m \in Names : m = n => Barred(m)'
    BY <1>0, <1>1, <1>2 DEF Barred, NameTaken, n
  <2>6. \A m \in Names \ {n} : Barred(m) => Barred(m)'
    BY <1>0, <1>1, <1>2 DEF Barred
  <2>7. OwnOrBarred' /\ UsedByOne'
    <3>1. UsedByOne'
      BY <2>3 DEF UsedByOne
    <3>2. ASSUME NEW j \in Items, NEW m \in Names, Uses(j, m)', m # n
          PROVE  part'[m] = j \/ Barred(m)'
      BY <1>2, <2>3, <2>6, <3>2 DEF OwnOrBarred
    <3>3. ASSUME NEW j \in Items, NEW m \in Names, Uses(j, m)'
          PROVE  part'[m] = j \/ Barred(m)'
      <4>1. CASE m = n
        BY <2>5, <4>1
      <4>2. CASE m # n
        BY <3>2, <3>3, <4>2
      <4>. QED  BY <4>1, <4>2
    <3>. QED  BY <3>1, <3>3 DEF OwnOrBarred
  <2>8. PartInHand'
    <3>1. \A j \in Items \ {i} : eng[j] \in InHand => spot[j] \in Names \ {n}
      BY <2>4 DEF Uses, FolderInv, FolderTyped, HasName, Named, InHand
    <3>. QED  BY <1>0, <1>1, <1>2, <3>1 DEF PartInHand, InHand
  <2>9. NameTaken'
    BY <1>0, <1>1 DEF NameTaken
  <2>. QED  BY <2>7, <2>8, <2>9
<1>5. ASSUME NoKillYet' PROVE CarefulApart'
  <2>1. NoKillYet /\ CarefulApart
    BY <1>0, <1>5 DEF NoKillYet, Careful, FolderInv
  <2>2. part[n] = i
    BY <1>0, <2>1 DEF CarefulApart, PartInHand, InHand, n
  <2>3. PartInHand'
    <3>1. \A j \in Items \ {i} : eng[j] \in InHand => spot[j] \in Names /\ part[spot[j]] = j
      BY <2>1 DEF CarefulApart, PartInHand, FolderInv, FolderTyped, HasName, Named, InHand
    <3>2. \A j \in Items \ {i} : eng[j] \in InHand => spot[j] \in Names \ {n}
      BY <2>2, <3>1
    <3>. QED  BY <1>0, <1>1, <1>2, <3>1, <3>2 DEF PartInHand, InHand
  <2>4. ResumesOwn'
    BY <1>0, <1>1, <1>2, <2>1, <2>2 DEF CarefulApart, ResumesOwn
  <2>. QED  BY <1>0, <1>1, <2>1, <2>3, <2>4 DEF CarefulApart
<1>6. ASSUME Undisturbed' PROVE FinishedOwn'
  <2>1. Undisturbed /\ FinishedOwn
    BY <1>0, <1>6 DEF Undisturbed, Careful, FolderInv
  <2>2. \A j \in Items : eng'[j] \in {"unlink", "placed"} =>
          eng[j] \in {"unlink", "placed"} /\ Candidate(j)' = Candidate(j)
    BY <1>0, <1>1 DEF Candidate
  <2>3. \A j \in Items : eng'[j] = "scan" => eng[j] = "scan" /\ row'[j].name = row[j].name
    BY <1>0, <1>1
  <2>. QED  BY <1>0, <2>1, <2>2, <2>3, FinishedQuiet DEF FolderInv
<1>. QED  BY <1>3, <1>4, <1>5, <1>6 DEF FolderInv

---------------------------------------------------------------------------
(* The manager's rows, deletions, other programs and kills.                *)

\* A download is started or resumed.
LEMMA StartStep ==
  ASSUME FolderConstants, FolderInv, NEW i \in Items, Start(i)
  PROVE  FolderInv'
<1>. DEFINE stage == IF row[i].resume = NoName THEN "choose" ELSE "resume"
            r == [row[i] EXCEPT !.status = "running"]
<1>0. /\ FolderTypes /\ eng[i] = "none" /\ stage \in {"choose", "resume"}
      /\ eng' = [eng EXCEPT ![i] = stage] /\ row' = [row EXCEPT ![i].status = "running"]
      /\ UNCHANGED <<policy, part, final, spot, tries, saved, deleted, late, kills>>
  BY DEF Start, To, files, FolderInv, FolderTyped
<1>1. /\ r \in Rows /\ r.status = "running" /\ r.name = row[i].name /\ r.resume = row[i].resume
      /\ row' = [row EXCEPT ![i] = r]
      /\ stage = "resume" => row[i].resume \in Names
  BY <1>0 DEF FolderTypes, Rows, Statuses
<1>. HIDE DEF r, stage
<1>2. /\ eng' \in [Items -> Stages] /\ eng'[i] = stage
      /\ row' \in [Items -> Rows] /\ row'[i] = r
      /\ \A j \in Items \ {i} : eng'[j] = eng[j] /\ row'[j] = row[j]
  BY <1>0, <1>1 DEF FolderTypes, Stages
<1>3. \A j \in Items : row'[j].resume = row[j].resume /\ row'[j].name = row[j].name
  BY <1>1, <1>2
<1>4. FolderTyped'
  <2>1. FolderTypes'
    BY <1>0, <1>2 DEF FolderTypes
  <2>2. HasName(i)'
    BY <1>0, <1>1, <1>2 DEF HasName, Named
  <2>3. \A j \in Items \ {i} : HasName(j)'
    BY <1>0, <1>2, SameNameKept DEF FolderInv, FolderTyped, SameName
  <2>. QED  BY <2>1, <2>2, <2>3 DEF FolderTyped
<1>5. \A j \in Items : eng'[j] \in Named \cup {"scan"} => eng'[j] = eng[j]
  BY <1>0, <1>2 DEF Named
<1>6. ASSUME AllRename' PROVE RenamersApart'
  <2>1. AllRename /\ RenamersApart
    BY <1>0, <1>6 DEF AllRename, FolderInv
  <2>2. \A j \in Items, n \in Names : Uses(j, n)' => Uses(j, n)
    BY <1>0, <1>3, <1>5 DEF Uses, InHand, Named
  <2>3. \A j \in Items : eng'[j] \in InHand => part[spot'[j]] = j
    BY <1>0, <1>5, <2>1 DEF RenamersApart, PartInHand, InHand, Named
  <2>4. \A j \in Items : eng'[j] \in {"place", "unlink"} => spot[j] \in Names
    BY <1>5 DEF FolderInv, FolderTyped, HasName, Named
  <2>. QED  BY <1>0, <1>5, <2>1, <2>2, <2>3, <2>4, RenamersQuiet DEF Named
<1>7. ASSUME NoKillYet' PROVE CarefulApart'
  <2>1. NoKillYet /\ CarefulApart
    BY <1>0, <1>7 DEF NoKillYet, Careful, FolderInv
  <2>2. \A j \in Items : eng'[j] \in InHand => part[spot'[j]] = j
    BY <1>0, <1>5, <2>1 DEF CarefulApart, PartInHand, InHand, Named
  <2>3. \A j \in Items, n \in Names : row'[j].resume = n /\ eng'[j] # "placed" => part[n] = j
    BY <1>0, <1>2, <1>3, <2>1 DEF CarefulApart, ResumesOwn
  <2>4. \A j \in Items : eng'[j] # "fixed"
    BY <1>5, <2>1 DEF CarefulApart, Named
  <2>. QED  BY <1>0, <2>2, <2>3, <2>4, CarefulQuiet
<1>8. ASSUME Undisturbed' PROVE FinishedOwn'
  <2>1. Undisturbed /\ FinishedOwn
    BY <1>0, <1>8 DEF Undisturbed, Careful, FolderInv
  <2>2. \A j \in Items : eng'[j] \in {"unlink", "placed"} =>
          eng[j] \in {"unlink", "placed"} /\ Candidate(j)' = Candidate(j)
    BY <1>0, <1>5 DEF Candidate, Named
  <2>3. \A j \in Items : eng'[j] = "scan" => eng[j] = "scan" /\ row'[j].name = row[j].name
    BY <1>3, <1>5
  <2>4. \A j \in Items : row'[j].status = "completed" => row'[j] = row[j]
    BY <1>1, <1>2
  <2>. QED  BY <1>0, <2>1, <2>2, <2>3, <2>4, FinishedQuiet DEF FolderInv
<1>. QED  BY <1>4, <1>6, <1>7, <1>8 DEF FolderInv

\* A step of the manager: no file is touched, no job has a new name; what a row reads back is a
\* part file its item has in hand or is used already, and what it calls completed is finished.
LEMMA RowStep ==
  ASSUME FolderConstants, FolderInv,
         UNCHANGED <<policy, part, final, spot, tries, deleted, late, kills>>,
         eng' \in [Items -> Stages], row' \in [Items -> Rows], saved' \in [Items -> Rows],
         \A j \in Items : eng'[j] \in {eng[j], "none", "scan"},
         \A j \in Items : eng'[j] = "resume" => row'[j].resume = row[j].resume,
         \A j \in Items, r \in Rows : r \in {row'[j], saved'[j]} =>
           \/ r.resume \in {row[j].resume, saved[j].resume, NoName}
           \/ r.resume = spot[j] /\ eng[j] \in InHand,
         deleted = {} => \A j \in Items :
           \/ row'[j].resume = row[j].resume /\ (eng[j] = "placed" => eng'[j] = "placed")
           \/ row'[j].resume = NoName
           \/ row'[j].resume = spot[j] /\ eng[j] \in InHand,
         Undisturbed => \A j \in Items :
           eng'[j] = "scan" /\ eng[j] # "scan" => eng[j] = "placed" /\ row'[j].name = Candidate(j),
         \A j \in Items : eng'[j] = "scan" /\ eng[j] = "scan" => row'[j].name = row[j].name,
         \A j \in Items, r \in Rows : r \in {row'[j], saved'[j]} /\ r.status = "completed" =>
           \/ \E s \in {row[j], saved[j]} : s.status = "completed" /\ r.name = s.name
           \/ eng[j] = "scan" /\ r.name = row[j].name
  PROVE  FolderInv'
<1>1. FolderTyped'
  <2>1. FolderTypes'
    BY DEF FolderInv, FolderTyped, FolderTypes
  <2>2. ASSUME NEW j \in Items PROVE HasName(j)'
    <3>1. HasName(j)
      BY DEF FolderInv, FolderTyped
    <3>2. eng'[j] \in Named \cup {"resume"} => eng'[j] = eng[j]
      BY DEF Named
    <3>. QED  BY <3>1, <3>2 DEF HasName, Candidate, Named
  <2>. QED  BY <2>1, <2>2 DEF FolderTyped
<1>2. \A j \in Items : eng'[j] \in Named => eng'[j] = eng[j]
  BY DEF Named
<1>3. ASSUME AllRename' PROVE RenamersApart'
  <2>1. AllRename /\ RenamersApart
    BY <1>3 DEF AllRename, FolderInv
  <2>2. ASSUME NEW j \in Items, NEW n \in Names, Uses(j, n)' PROVE Uses(j, n)
    <3>1. n # NoName
      BY NameFacts
    <3>2. eng'[j] \in InHand \cup {"fixed"} => eng[j] = eng'[j]
      BY <1>2 DEF InHand, Named
    <3>. QED  BY <2>2, <3>1, <3>2 DEF Uses
  <2>3. \A j \in Items : eng'[j] \in InHand => part[spot'[j]] = j
    BY <1>2, <2>1 DEF RenamersApart, PartInHand, InHand, Named
  <2>4. \A j \in Items : eng'[j] \in {"place", "unlink"} => spot[j] \in Names
    BY <1>2 DEF FolderInv, FolderTyped, HasName, Named
  <2>. QED  BY <1>2, <2>1, <2>2, <2>3, <2>4, RenamersQuiet DEF Named
<1>4. ASSUME NoKillYet' PROVE CarefulApart'
  <2>1. NoKillYet /\ CarefulApart /\ deleted = {}
    BY <1>4 DEF NoKillYet, Careful, FolderInv
  <2>2. \A j \in Items : eng'[j] \in InHand => part[spot'[j]] = j
    BY <1>2, <2>1 DEF CarefulApart, PartInHand, InHand, Named
  <2>3. ASSUME NEW j \in Items, NEW n \in Names, row'[j].resume = n, eng'[j] # "placed"
        PROVE  part[n] = j
    <3>1. CASE row'[j].resume = row[j].resume /\ (eng[j] = "placed" => eng'[j] = "placed")
      BY <2>1, <2>3, <3>1 DEF CarefulApart, ResumesOwn
    <3>2. CASE row'[j].resume = NoName
      BY <2>3, <3>2, NameFacts
    <3>3. CASE row'[j].resume = spot[j] /\ eng[j] \in InHand
      BY <2>1, <2>3, <3>3 DEF CarefulApart, PartInHand
    <3>. QED  BY <2>1, <3>1, <3>2, <3>3
  <2>4. \A j \in Items : eng'[j] # "fixed"
    BY <1>2, <2>1 DEF CarefulApart, Named
  <2>. QED  BY <2>2, <2>3, <2>4, CarefulQuiet
<1>5. ASSUME Undisturbed' PROVE FinishedOwn'
  <2>1. Undisturbed /\ FinishedOwn
    BY <1>5 DEF Undisturbed, Careful, FolderInv
  <2>2. ASSUME NEW j \in Items, NEW r \in Rows, r \in {row'[j], saved'[j]}, r.status = "completed"
        PROVE  final'[r.name] = j
    BY <2>1, <2>2 DEF FinishedOwn
  <2>3. ASSUME NEW j \in Items, eng'[j] = "scan" PROVE final'[row'[j].name] = j
    <3>1. CASE eng[j] = "scan"
      BY <2>1, <2>3, <3>1 DEF FinishedOwn
    <3>2. CASE eng[j] # "scan"
      BY <2>1, <2>3, <3>2 DEF FinishedOwn
    <3>. QED  BY <3>1, <3>2
  <2>4. ASSUME NEW j \in Items, eng'[j] \in {"unlink", "placed"} PROVE final'[Candidate(j)'] = j
    <3>1. Candidate(j)' = Candidate(j) /\ eng'[j] = eng[j]
      BY <1>2, <2>4 DEF Candidate, Named
    <3>. QED  BY <2>1, <2>4, <3>1 DEF FinishedOwn
  <2>. QED  BY <2>2, <2>3, <2>4 DEF FinishedOwn
<1>. QED  BY <1>1, <1>3, <1>4, <1>5 DEF FolderInv

\* The scan is over: the row says completed.
LEMMA ScannedStep ==
  ASSUME FolderConstants, FolderInv, NEW i \in Items, Scanned(i)
  PROVE  FolderInv'
<1>. DEFINE r == [row[i] EXCEPT !.status = "completed"]
<1>0. /\ FolderTypes /\ eng[i] = "scan" /\ eng' = [eng EXCEPT ![i] = "none"]
      /\ row' = IF i \in deleted THEN row ELSE [row EXCEPT ![i] = r]
      /\ saved' = [saved EXCEPT ![i] = row'[i]]
      /\ UNCHANGED <<policy, part, final, spot, tries, deleted, late, kills>>
  BY DEF Scanned, To, files, FolderInv, FolderTyped
<1>1. r \in Rows /\ r.name = row[i].name /\ r.resume = row[i].resume
  BY <1>0 DEF FolderTypes, Rows, Statuses
<1>. HIDE DEF r
<1>2. /\ eng' \in [Items -> Stages] /\ eng'[i] = "none"
      /\ row' \in [Items -> Rows] /\ row'[i] \in {row[i], r}
      /\ saved' \in [Items -> Rows] /\ saved'[i] = row'[i]
      /\ \A j \in Items \ {i} : eng'[j] = eng[j] /\ row'[j] = row[j] /\ saved'[j] = saved[j]
  <2>1. row' \in [Items -> Rows] /\ row'[i] \in {row[i], r}
        /\ \A j \in Items \ {i} : row'[j] = row[j]
    BY <1>0, <1>1 DEF FolderTypes
  <2>. QED  BY <1>0, <2>1 DEF FolderTypes, Stages
<1>3. \A j \in Items, s \in Rows : s \in {row'[j], saved'[j]} =>
        /\ s.resume \in {row[j].resume, saved[j].resume}
        /\ s.status = "completed" => \/ s \in {row[j], saved[j]}
                                     \/ eng[j] = "scan" /\ s.name = row[j].name
  BY <1>0, <1>1, <1>2
<1>4. \A j \in Items : row'[j].resume = row[j].resume /\ row'[j].name = row[j].name
  BY <1>1, <1>2
<1>5. \A j \in Items : eng'[j] = eng[j] \/ (eng[j] = "scan" /\ eng'[j] = "none")
  BY <1>0, <1>2
<1>. QED  BY <1>0, <1>2, <1>3, <1>4, <1>5, RowStep

\* The resume state goes into the row.
LEMMA CheckpointStep ==
  ASSUME FolderConstants, FolderInv, NEW i \in Items, Checkpoint(i)
  PROVE  FolderInv'
<1>. DEFINE r == [row[i] EXCEPT !.resume = spot[i]]
<1>0. /\ FolderTypes
      /\ row' = IF eng[i] = "transfer" THEN [row EXCEPT ![i] = r] ELSE row
      /\ saved' = [saved EXCEPT ![i] = row'[i]]
      /\ UNCHANGED <<policy, part, final, eng, spot, tries, deleted, late, kills>>
  BY DEF Checkpoint, files, jobs, FolderInv, FolderTyped
<1>1. r \in Rows /\ r.name = row[i].name /\ r.resume = spot[i] /\ r.status = row[i].status
  BY <1>0 DEF FolderTypes, Rows
<1>. HIDE DEF r
<1>2. /\ row' \in [Items -> Rows] /\ row'[i] = IF eng[i] = "transfer" THEN r ELSE row[i]
      /\ \A j \in Items \ {i} : row'[j] = row[j]
  BY <1>0, <1>1 DEF FolderTypes
<1>3. /\ saved' \in [Items -> Rows] /\ saved'[i] = row'[i]
      /\ \A j \in Items \ {i} : saved'[j] = saved[j]
  BY <1>0, <1>2 DEF FolderTypes
<1>4. \A j \in Items, s \in Rows : s \in {row'[j], saved'[j]} =>
        /\ \/ s.resume \in {row[j].resume, saved[j].resume}
           \/ s.resume = spot[j] /\ eng[j] = "transfer"
        /\ \E t \in {row[j], saved[j]} : s.status = t.status /\ s.name = t.name
  BY <1>1, <1>2, <1>3
<1>5. \A j \in Items : /\ row'[j].resume = row[j].resume \/ (row'[j].resume = spot[j] /\ eng[j] = "transfer")
                       /\ eng[j] # "transfer" => row'[j].resume = row[j].resume
                       /\ row'[j].name = row[j].name
  BY <1>1, <1>2
<1>6. "transfer" \in InHand /\ eng' \in [Items -> Stages]
  BY <1>0 DEF InHand, FolderTypes
<1>. QED  BY <1>0, <1>2, <1>3, <1>4, <1>5, <1>6, RowStep

\* The row an outcome leaves: what was placed has its name, what paused its part file.
LEMMA OutcomeRow ==
  ASSUME FolderTyped, NEW i \in Items, Outcome(i), i \notin deleted
  PROVE  \E r \in Rows :
           /\ row' = [row EXCEPT ![i] = r] /\ r.status # "completed"
           /\ eng[i] = "placed" => r.name = Candidate(i) /\ r.resume = NoName
           /\ eng[i] = "paused" => r.resume = spot[i]
           /\ eng[i] = "failed" => r.resume = row[i].resume
<1>0. /\ FolderTypes /\ row[i] \in Rows /\ spot[i] \in Names \cup {NoName}
      /\ eng[i] = "placed" => Candidate(i) \in Names
      /\ eng[i] = "paused" => spot[i] \in Names
  BY DEF FolderTyped, FolderTypes, HasName, Named
<1>1. CASE eng[i] = "placed"
  <2>. DEFINE r == [status |-> "processing", name |-> Candidate(i), resume |-> NoName]
  <2>1. row' = [row EXCEPT ![i] = r]
    BY <1>1 DEF Outcome, NameOf
  <2>2. r \in Rows
    BY <1>0, <1>1 DEF Rows, Statuses
  <2>. QED  BY <1>1, <2>1, <2>2
<1>2. CASE eng[i] = "paused"
  <2>. DEFINE r == [status |-> "paused", name |-> spot[i], resume |-> spot[i]]
  <2>1. row' = [row EXCEPT ![i] = r]
    BY <1>2 DEF Outcome
  <2>2. r \in Rows
    BY <1>0, <1>2 DEF Rows, Statuses
  <2>. QED  BY <1>2, <2>1, <2>2
<1>3. CASE eng[i] = "failed"
  <2>. DEFINE r == [row[i] EXCEPT !.status = "failed"]
  <2>1. row' = [row EXCEPT ![i] = r]
    BY <1>0, <1>3 DEF Outcome, FolderTypes
  <2>2. r \in Rows /\ r.status = "failed" /\ r.resume = row[i].resume
    BY <1>0 DEF Rows, Statuses
  <2>. HIDE DEF r
  <2>. QED  BY <1>3, <2>1, <2>2
<1>. QED  BY <1>1, <1>2, <1>3 DEF Outcome

\* The outcome of a job goes into its row.
LEMMA OutcomeStep ==
  ASSUME FolderConstants, FolderInv, NEW i \in Items, Outcome(i)
  PROVE  FolderInv'
<1>0. /\ FolderTypes /\ eng[i] \in {"placed", "paused", "failed"}
      /\ eng' = [eng EXCEPT ![i] = IF eng[i] = "placed" THEN "scan" ELSE "none"]
      /\ saved' \in {saved, row'}
      /\ UNCHANGED <<policy, part, final, spot, tries, deleted, late, kills>>
  BY DEF Outcome, To, files, FolderInv, FolderTyped
<1>1. /\ eng' \in [Items -> Stages] /\ eng'[i] = IF eng[i] = "placed" THEN "scan" ELSE "none"
      /\ \A j \in Items \ {i} : eng'[j] = eng[j]
  BY <1>0 DEF FolderTypes, Stages
<1>2. CASE i \in deleted
  <2>1. row' = row
    BY <1>2 DEF Outcome
  <2>2. deleted # {} /\ ~Undisturbed
    BY <1>2 DEF Undisturbed
  <2>3. \A j \in Items, s \in Rows : s \in {row'[j], saved'[j]} => s \in {row[j], saved[j]}
    BY <1>0, <2>1
  <2>4. row' \in [Items -> Rows] /\ saved' \in [Items -> Rows]
    BY <1>0, <2>1 DEF FolderTypes
  <2>5. \A j \in Items : /\ eng'[j] \in {eng[j], "none", "scan"}
                         /\ eng'[j] = "resume" => row'[j].resume = row[j].resume
                         /\ row'[j].name = row[j].name
    BY <1>0, <1>1, <2>1
  <2>. QED  BY <1>0, <1>1, <2>2, <2>3, <2>4, <2>5, RowStep
<1>3. CASE i \notin deleted
  <2>1. PICK r \in Rows :
          /\ row' = [row EXCEPT ![i] = r] /\ r.status # "completed"
          /\ eng[i] = "placed" => r.name = Candidate(i) /\ r.resume = NoName
          /\ eng[i] = "paused" => r.resume = spot[i]
          /\ eng[i] = "failed" => r.resume = row[i].resume
    BY <1>3, OutcomeRow DEF FolderInv
  <2>2. row' \in [Items -> Rows] /\ row'[i] = r /\ \A j \in Items \ {i} : row'[j] = row[j]
    BY <1>0, <2>1 DEF FolderTypes
  <2>3. saved' \in [Items -> Rows] /\ \A j \in Items : saved'[j] \in {saved[j], row'[j]}
    BY <1>0, <2>2 DEF FolderTypes
  <2>4. \A j \in Items, s \in Rows : s \in {row'[j], saved'[j]} =>
          s \in {row[j], saved[j]} \/ (j = i /\ s = r)
    BY <2>2, <2>3
  <2>5. /\ r.resume = NoName \/ (r.resume = spot[i] /\ eng[i] \in InHand) \/ r.resume = row[i].resume
        /\ eng[i] # "placed" /\ ~(r.resume = spot[i] /\ eng[i] \in InHand) => r.resume = row[i].resume
        /\ eng[i] = "placed" => r.resume = NoName
    BY <1>0, <2>1 DEF InHand
  <2>6. \A j \in Items : eng'[j] \in {eng[j], "none", "scan"} /\ (eng'[j] = "resume" => j # i)
    BY <1>1
  <2>7. \A j \in Items, s \in Rows : s \in {row'[j], saved'[j]} =>
          \/ s.resume \in {row[j].resume, saved[j].resume, NoName}
          \/ s.resume = spot[j] /\ eng[j] \in InHand
    BY <2>4, <2>5
  <2>8. \A j \in Items, s \in Rows : s \in {row'[j], saved'[j]} /\ s.status = "completed" =>
          s \in {row[j], saved[j]}
    BY <2>1, <2>4
  <2>9. \A j \in Items : \/ row'[j].resume = row[j].resume /\ (eng[j] = "placed" => eng'[j] = "placed")
                         \/ row'[j].resume = NoName
                         \/ row'[j].resume = spot[j] /\ eng[j] \in InHand
    BY <1>1, <2>2, <2>5
  <2>10. \A j \in Items : eng'[j] = "scan" => IF eng[j] = "scan"
           THEN row'[j].name = row[j].name ELSE eng[j] = "placed" /\ row'[j].name = Candidate(j)
    BY <1>0, <1>1, <2>1, <2>2
  <2>. QED  BY <1>0, <1>1, <2>2, <2>3, <2>6, <2>7, <2>8, <2>9, <2>10, RowStep
<1>. QED  BY <1>2, <1>3

\* A kill: the rows are what was saved.
LEMMA KillStep ==
  ASSUME FolderConstants, FolderInv, Kill
  PROVE  FolderInv'
<1>0. /\ FolderTypes /\ eng' = [j \in Items |-> "none"] /\ kills' = kills + 1
      /\ UNCHANGED <<policy, part, final, spot, tries, saved, deleted, late>>
      /\ row' = [j \in Items |-> IF saved[j].status \in {"running", "processing"}
                                  THEN [saved[j] EXCEPT !.status = "paused"] ELSE saved[j]]
  BY DEF Kill, files, FolderInv, FolderTyped
<1>1. \A s \in Rows : LET r == [s EXCEPT !.status = "paused"] IN
        r \in Rows /\ r.status = "paused" /\ r.name = s.name /\ r.resume = s.resume
  BY DEF Rows, Statuses
<1>2. \A j \in Items : saved[j] \in Rows
  BY <1>0 DEF FolderTypes
<1>3. /\ row' \in [Items -> Rows]
      /\ \A j \in Items : /\ row'[j].resume = saved[j].resume /\ row'[j].name = saved[j].name
                          /\ row'[j].status = "completed" => saved[j].status = "completed"
  BY <1>0, <1>1, <1>2
<1>4. eng' \in [Items -> Stages] /\ kills' \in Nat /\ kills' # 0
  BY <1>0 DEF FolderTypes, Stages
<1>5. FolderTyped'
  BY <1>0, <1>3, <1>4 DEF FolderTyped, FolderTypes, HasName, Named
<1>6. ASSUME AllRename' PROVE RenamersApart'
  <2>1. AllRename /\ RenamersApart
    BY <1>0, <1>6 DEF AllRename, FolderInv
  <2>2. \A j \in Items, n \in Names : Uses(j, n)' => Uses(j, n)
    BY <1>0, <1>3 DEF Uses, InHand
  <2>. QED  BY <1>0, <2>1, <2>2, RenamersQuiet DEF InHand
<1>7. ~NoKillYet'
  BY <1>4 DEF NoKillYet
<1>8. ASSUME Undisturbed' PROVE FinishedOwn'
  <2>1. Undisturbed /\ FinishedOwn
    BY <1>0, <1>4, <1>8 DEF Undisturbed, Careful, FolderInv
  <2>. QED  BY <1>0, <1>3, <2>1, FinishedQuiet DEF FolderInv
<1>. QED  BY <1>5, <1>6, <1>7, <1>8 DEF FolderInv

\* After a deletion the types are all that is promised.
LEMMA CancelledOrDeleteStep ==
  ASSUME FolderConstants, FolderInv, NEW i \in Items, Cancelled(i) \/ Delete(i)
  PROVE  FolderInv'
<1>0. FolderTypes /\ \A j \in Items : HasName(j)
  BY DEF FolderInv, FolderTyped
<1>1. deleted' # {}
  BY DEF Cancelled, Delete
<1>2. FolderTyped'
  <2>1. CASE Cancelled(i)
    <3>1. /\ JobStep(i, "none", spot[i], tries[i])
          /\ part' \in [Names -> Items \cup {NoOwner}]
          /\ UNCHANGED <<policy, final, row, saved, deleted, late, kills>>
      BY <1>0, <2>1 DEF Cancelled, To, JobStep, FolderTypes
    <3>. QED  BY <1>0, <3>1, JobStepTyped DEF FolderInv, FolderTypes, Stages, Named
  <2>2. CASE Delete(i)
    <3>1. /\ final' \in [Names -> Owners] /\ deleted' \in SUBSET Items
          /\ part' \in [Names -> Items \cup {NoOwner}]
          /\ UNCHANGED <<policy, eng, spot, tries, row, saved, late, kills>>
      BY <1>0, <2>2 DEF Delete, jobs, FolderTypes, Owners
    <3>2. FolderTypes'
      BY <1>0, <3>1 DEF FolderTypes
    <3>. QED  BY <1>0, <3>1, <3>2, SameNameKept DEF FolderTyped, SameName
  <2>. QED  BY <2>1, <2>2
<1>. QED  BY <1>1, <1>2 DEF FolderInv, AllRename, NoKillYet, Undisturbed

\* Another program makes a file.
LEMMA ForeignFileStep ==
  ASSUME FolderConstants, FolderInv, ForeignFile
  PROVE  FolderInv'
<1>0. FolderTypes /\ UNCHANGED <<policy, part, eng, spot, tries, row, saved, deleted, late, kills>>
  BY DEF ForeignFile, jobs, FolderInv, FolderTyped
<1>1. PICK taken : final[taken] = NoOwner /\ final' = [final EXCEPT ![taken] = Somebody]
  BY DEF ForeignFile
<1>2. /\ final' \in [Names -> Owners]
      /\ \A m \in Names : final[m] # NoOwner => final'[m] = final[m]
  BY <1>0, <1>1 DEF FolderTypes, Owners
<1>3. FolderTyped'
  BY <1>0, <1>2, SameNameKept DEF FolderInv, FolderTyped, FolderTypes, SameName
<1>4. ASSUME AllRename' PROVE RenamersApart'
  <2>1. AllRename /\ RenamersApart
    BY <1>0, <1>4 DEF AllRename, FolderInv
  <2>2. \A j \in Items, n \in Names : Uses(j, n)' => Uses(j, n)
    BY <1>0 DEF Uses
  <2>3. \A j \in Items : eng'[j] \in {"place", "unlink"} => spot[j] \in Names
    BY <1>0 DEF FolderInv, FolderTyped, HasName, Named
  <2>. QED  BY <1>0, <1>2, <2>1, <2>2, <2>3, RenamersQuiet DEF RenamersApart, PartInHand
<1>5. ASSUME NoKillYet' PROVE CarefulApart'
  <2>1. NoKillYet /\ CarefulApart
    BY <1>0, <1>5 DEF NoKillYet, Careful, FolderInv
  <2>. QED  BY <1>0, <2>1, CarefulQuiet DEF CarefulApart, PartInHand, ResumesOwn
<1>6. ASSUME Undisturbed' PROVE FinishedOwn'
  <2>1. Undisturbed /\ FinishedOwn
    BY <1>0, <1>6 DEF Undisturbed, Careful, FolderInv
  <2>2. \A j \in Items : Candidate(j)' = Candidate(j)
    BY <1>0 DEF Candidate
  <2>. QED  BY <1>0, <1>2, <2>1, <2>2, FinishedQuiet DEF FolderInv
<1>. QED  BY <1>3, <1>4, <1>5, <1>6 DEF FolderInv

---------------------------------------------------------------------------
(* The invariant holds.                                                    *)

\* The invariant holds at first.
LEMMA FolderInit ==
  ASSUME FolderConstants, Init
  PROVE  FolderInv
<1>1. Fresh \in Rows /\ Fresh.resume = NoName /\ Fresh.status = "idle"
  BY NameFacts DEF Fresh, Rows, Statuses
<1>2. FolderTyped
  BY <1>1 DEF Init, FolderTyped, FolderTypes, HasName, Named, Stages, Owners
<1>3. \A j \in Items, n \in Names : ~Uses(j, n)
  BY <1>1, NameFacts DEF Init, Uses, InHand
<1>4. RenamersApart
  BY <1>3 DEF Init, RenamersApart, OwnOrBarred, UsedByOne, PartInHand, NameTaken, InHand
<1>5. CarefulApart
  BY <1>1, NameFacts DEF Init, CarefulApart, PartInHand, ResumesOwn, InHand
<1>6. FinishedOwn
  BY <1>1 DEF Init, FinishedOwn
<1>. QED  BY <1>2, <1>4, <1>5, <1>6 DEF FolderInv

\* Every step keeps the invariant.
LEMMA FolderNext ==
  ASSUME FolderConstants, FolderInv, [Next]_vars
  PROVE  FolderInv'
<1>1. CASE UNCHANGED vars
  <2>. USE <1>1 DEF vars, files, jobs
  <2>1. FolderTyped'
    BY DEF FolderInv, FolderTyped, FolderTypes, HasName, Candidate
  <2>2. AllRename' => RenamersApart'
    BY DEF FolderInv, AllRename, RenamersApart, OwnOrBarred, UsedByOne, PartInHand, NameTaken,
       Uses, Barred
  <2>3. NoKillYet' => CarefulApart'
    BY DEF FolderInv, NoKillYet, Careful, CarefulApart, PartInHand, ResumesOwn
  <2>4. Undisturbed' => FinishedOwn'
    BY DEF FolderInv, Undisturbed, Careful, FinishedOwn, Candidate
  <2>. QED  BY <2>1, <2>2, <2>3, <2>4 DEF FolderInv
<1>2. ASSUME NEW i \in Items, Job(i) PROVE FolderInv'
  BY <1>2, StartStep, ResumeStep, ChooseStep, ClaimStep, TransferredStep, InterruptedStep,
     PlaceStep, UnlinkStep, CancelledOrDeleteStep DEF Job
<1>3. ASSUME NEW i \in Items, Outcome(i) \/ Scanned(i) \/ Checkpoint(i) \/ Delete(i)
      PROVE  FolderInv'
  BY <1>3, OutcomeStep, ScannedStep, CheckpointStep, CancelledOrDeleteStep
<1>4. CASE ForeignFile \/ Kill
  BY <1>4, ForeignFileStep, KillStep
<1>. QED  BY <1>1, <1>2, <1>3, <1>4 DEF Next

\* The invariant holds in every state.
LEMMA FolderInvariant ==
  ASSUME FolderConstants
  PROVE  Spec => []FolderInv
<1>1. Init => FolderInv
  BY FolderInit
<1>2. FolderInv /\ [Next]_vars => FolderInv'
  BY FolderNext
<1>. QED  BY <1>1, <1>2, PTL DEF Spec

\* The types (transfer.rs, storage.rs, manager/mod.rs): every file, name and row the code can
\* reach is well formed, a job at work has a name, and a row names a file.
THEOREM FolderTypeCorrect ==
  ASSUME FolderConstants
  PROVE  Spec => []TypeOK
<1>1. FolderInv => TypeOK
  BY DEF FolderInv, FolderTyped, FolderTypes, Rows, TypeOK
<1>. QED  BY <1>1, FolderInvariant, PTL

\* Choosing and claiming a name (storage.rs, create_part_file; transfer.rs): two downloads that
\* overwrite nothing never write the same part file, however old the look at the folder by which
\* each chose its name, as long as the program is not killed.  After kills the same holds of
\* downloads that rename, for any number of downloads, starts, kills and foreign files, if no
\* name was ever claimed whose finished file had appeared since the look (~late): the code does
\* not exclude such a claim, and with it and a kill two downloads can share a part file.
THEOREM PartsApart ==
  ASSUME FolderConstants
  PROVE  Spec => []PartsNotShared
<1>1. ASSUME FolderInv PROVE PartsNotShared
  <2>1. Undisturbed => AllRename \/ NoKillYet
    BY DEF Undisturbed, AllRename, NoKillYet
  <2>2. Undisturbed => PartInHand
    BY <1>1, <2>1 DEF FolderInv, RenamersApart, CarefulApart
  <2>. QED  BY <2>2 DEF PartsNotShared, PartInHand, AtWork, InHand
<1>. QED  BY <1>1, FolderInvariant, PTL

\* The row that follows the file (manager/mod.rs): a row that says completed names a file with
\* the item's own data, in memory and in the database.  Also when it is found after a kill, of
\* downloads that rename, under the assumption of PartsApart on late claims.
THEOREM CompletedRowsTrue ==
  ASSUME FolderConstants
  PROVE  Spec => []CompletedHasFile
<1>1. FolderInv => CompletedHasFile
  BY DEF FolderInv, FinishedOwn, CompletedHasFile
<1>. QED  BY <1>1, FolderInvariant, PTL

\* Placing a file (storage.rs, rename_no_replace): no step of any download, restart or other
\* program replaces a file in place, but a deletion and a download that was told to overwrite.
THEOREM FinishedFilesKept ==
  ASSUME FolderConstants
  PROVE  Spec => FinishedKept
<1>1. ASSUME FolderInv, [Next]_vars PROVE FinishedStep
  <2>. USE DEF FinishedStep
  <2>0. FolderTypes
    BY <1>1 DEF FolderInv, FolderTyped
  <2>1. ASSUME NEW i \in Items, Place(i) PROVE FinishedStep
    <3>1. CASE policy[i] = "overwrite"
      <4>1. eng[i] = "place" /\ i \in Items \ Careful
        BY <2>1, <3>1 DEF Place, Careful
      <4>2. final' # final => eng'[i] = "placed"
        BY <2>0, <2>1, <3>1 DEF Place, To, files, FolderTypes
      <4>. QED  BY <4>1, <4>2
    <3>2. CASE policy[i] # "overwrite"
      <4>1. final' = final \/ (final[Candidate(i)] = NoOwner
                               /\ final' = [final EXCEPT ![Candidate(i)] = part[spot[i]]])
        BY <2>1, <3>2 DEF Place, Vacant, files
      <4>. QED  BY <2>0, <4>1 DEF FolderTypes
    <3>. QED  BY <3>1, <3>2
  <2>2. ASSUME NEW i \in Items, Job(i), ~Place(i) PROVE final' = final
    BY <2>2 DEF Job, Start, Resume, Choose, Claim, Transferred, Interrupted, Unlink, Cancelled, files
  <2>3. ASSUME NEW i \in Items, Outcome(i) \/ Scanned(i) \/ Checkpoint(i) PROVE final' = final
    BY <2>3 DEF Outcome, Scanned, Checkpoint, files
  <2>4. ASSUME NEW i \in Items, Delete(i) PROVE deleted' # deleted
    BY <2>4 DEF Delete
  <2>5. ASSUME ForeignFile PROVE FinishedStep
    <3>1. PICK n : final[n] = NoOwner /\ final' = [final EXCEPT ![n] = Somebody]
      BY <2>5 DEF ForeignFile
    <3>. QED  BY <2>0, <3>1 DEF FolderTypes
  <2>6. Kill \/ UNCHANGED vars => final' = final
    BY DEF Kill, vars, files
  <2>. QED  BY <1>1, <2>1, <2>2, <2>3, <2>4, <2>5, <2>6 DEF Next
<1>2. FolderInv /\ [Next]_vars => [FinishedStep]_vars
  BY <1>1
<1>. QED  BY <1>2, FolderInvariant, PTL DEF Spec, FinishedKept
=============================================================================
