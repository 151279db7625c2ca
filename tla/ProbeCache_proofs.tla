--------------------------- MODULE ProbeCache_proofs ---------------------------
(***************************************************************************)
(* However requests for video pages overlap, answer, fail, expire and are  *)
(* dropped, no page is probed twice at once, nor one that has a recent     *)
(* answer.                                                                 *)
(*                                                                         *)
(* That holding a page's lock excludes the others needs that all of them   *)
(* wait on the same lock: the lock of a page must not leave the map and be *)
(* made anew while one still waits for the old one.  So the invariant says *)
(* that whoever waits for a lock or holds it has the one the map names for *)
(* its page.  A lock may stay behind in the map; that does no harm here.   *)
(***************************************************************************)
EXTENDS ProbeCache, FiniteSetTheorems, TLAPS

\* Callers are finitely many, there is a page to ask for, and the bounds are numbers.
ProbeConstants ==
  /\ IsFiniteSet(Callers) /\ Pages # {}
  /\ MaxAsks \in Nat /\ MaxLocks \in Nat /\ MaxExpiries \in Nat

\* A caller that has a lock it has yet to look after, and one that holds it.
HasLock(c) == caller[c].at \in {"wait", "held", "running", "leave"}
HoldsLock(c) == caller[c].at \in {"held", "running"}

CallerStates == [at : Places, page : Pages, lock : 0 .. MaxLocks]

ProbeTypes ==
  /\ caller \in [Callers -> CallerStates]
  /\ asks \in [Callers -> 0 .. MaxAsks]
  /\ probes \in SUBSET Pages
  /\ locks \in [Pages -> 0 .. MaxLocks]
  /\ held \in SUBSET (1 .. MaxLocks)
  /\ made \in 0 .. MaxLocks
  /\ expired \in 0 .. MaxExpiries

\* Whoever has a lock to wait for, to hold or to look after has the one of its page.
LockOfPage == \A c \in Callers : HasLock(c) => caller[c].lock = locks[caller[c].page]
\* A lock in the map was made, for one page.
LocksInUse ==
  /\ \A c \in Callers : HasLock(c) => caller[c].lock # 0
  /\ \A p \in Pages : locks[p] <= made
  /\ \A p, q \in Pages : locks[p] = locks[q] /\ locks[p] # 0 => p = q
\* A held lock is held by one caller.
HeldByOne ==
  /\ \A c \in Callers : HoldsLock(c) => caller[c].lock \in held
  /\ \A c, d \in Callers : HoldsLock(c) /\ HoldsLock(d) /\ caller[c].lock = caller[d].lock => c = d

\* What is being probed has no recent answer.
NoneRecent == \A c \in Callers : caller[c].at = "running" => caller[c].page \notin probes

ProbeInv == ProbeTypes /\ LockOfPage /\ LocksInUse /\ HeldByOne /\ NoneRecent

---------------------------------------------------------------------------
\* When at most one has a lock and c has it, no one else does.
LEMMA LastUserAlone ==
  ASSUME IsFiniteSet(Callers), NEW c \in Callers, NEW l, caller[c].lock = l, LastUser(l),
         NEW d \in Callers, caller[d].lock = l
  PROVE  d = c
<1>1. SUFFICES ASSUME d # c PROVE FALSE
  OBVIOUS
<1>2. IsFiniteSet(Users(l)) /\ {c, d} \in SUBSET Users(l)
  BY FS_Subset DEF Users
<1>3. Cardinality({c, d}) <= Cardinality(Users(l))
  BY <1>2, FS_Subset
<1>4. Cardinality({c}) = 1 /\ IsFiniteSet({c})
  BY FS_Singleton
<1>5. Cardinality({c} \cup {d}) = 2
  <2>. DEFINE S == {c}
  <2>1. d \notin S /\ IsFiniteSet(S) /\ Cardinality(S) = 1
    BY <1>1, <1>4
  <2>. HIDE DEF S
  <2>2. Cardinality(S \cup {d}) = Cardinality(S) + 1
    BY <2>1, FS_AddElement
  <2>3. Cardinality(S \cup {d}) = 2
    BY <2>1, <2>2
  <2>. QED  BY <2>3 DEF S
<1>6. {c} \cup {d} = {c, d}
  OBVIOUS
<1>7. Cardinality(Users(l)) \in Nat /\ Cardinality(Users(l)) <= 1
  BY <1>2, FS_CardinalityType DEF LastUser
<1>. QED  BY <1>3, <1>5, <1>6, <1>7

\* A step of one caller that takes no lock, though it may give one up.
Walks(c) ==
  /\ caller' \in [Callers -> CallerStates]
  /\ \A d \in Callers \ {c} : caller'[d] = caller[d]
  /\ HasLock(c)' => /\ HasLock(c) /\ caller'[c].lock = caller[c].lock
                    /\ caller'[c].page = caller[c].page
  /\ UNCHANGED <<locks, made>>

\* A step that takes no lock keeps what is known of locks.
LEMMA WalkKeepsLocks ==
  ASSUME ProbeInv, NEW c \in Callers, Walks(c)
  PROVE  LockOfPage' /\ LocksInUse'
<1>1. \A d \in Callers :
        HasLock(d)' => /\ HasLock(d) /\ caller'[d].lock = caller[d].lock
                       /\ caller'[d].page = caller[d].page
  BY DEF Walks, HasLock
<1>2. LockOfPage'
  BY <1>1 DEF ProbeInv, LockOfPage, Walks
<1>3. LocksInUse'
  BY <1>1 DEF ProbeInv, LocksInUse, Walks
<1>. QED  BY <1>2, <1>3

\* Such a step, when it neither takes nor frees a held lock.
LEMMA WalkWithoutHold ==
  ASSUME ProbeInv, NEW c \in Callers, Walks(c), ~HoldsLock(c), ~HoldsLock(c)',
         held' = held, probes' = probes
  PROVE  HeldByOne' /\ NoneRecent'
BY DEF ProbeInv, HeldByOne, NoneRecent, HoldsLock, Walks

\* A request comes in.
LEMMA AskStep ==
  ASSUME ProbeConstants, ProbeInv, NEW c \in Callers, Ask(c)
  PROVE  ProbeInv'
<1>. USE DEF ProbeInv
<1>1. PICK p \in Pages : caller' = [caller EXCEPT ![c].at = "look", ![c].page = p]
  BY DEF Ask
<1>2. /\ caller' \in [Callers -> CallerStates]
      /\ \A d \in Callers \ {c} : caller'[d] = caller[d]
      /\ caller'[c].at = "look" /\ caller'[c].lock = caller[c].lock
  BY <1>1 DEF ProbeTypes, CallerStates, Places
<1>3. Walks(c) /\ ~HoldsLock(c) /\ ~HoldsLock(c)'
  BY <1>2 DEF Ask, Walks, HasLock, HoldsLock
<1>4. asks' \in [Callers -> 0 .. MaxAsks]
  BY DEF Ask, ProbeTypes, ProbeConstants
<1>5. ProbeTypes'
  BY <1>2, <1>4 DEF Ask, ProbeTypes
<1>. QED  BY <1>3, <1>5, WalkKeepsLocks, WalkWithoutHold DEF Ask

\* A request looks for a recent answer.
LEMMA LookStep ==
  ASSUME ProbeInv, NEW c \in Callers, Look(c)
  PROVE  ProbeInv'
<1>. USE DEF ProbeInv
<1>. DEFINE a == IF caller[c].page \in probes THEN "idle" ELSE "lock"
<1>1. caller' = [caller EXCEPT ![c].at = a] /\ a \in {"idle", "lock"}
  BY DEF Look
<1>. HIDE DEF a
<1>2. /\ caller' \in [Callers -> CallerStates]
      /\ \A d \in Callers \ {c} : caller'[d] = caller[d]
      /\ caller'[c].at = a /\ caller'[c].lock = caller[c].lock
  BY <1>1 DEF ProbeTypes, CallerStates, Places
<1>3. Walks(c) /\ ~HoldsLock(c) /\ ~HoldsLock(c)'
  BY <1>1, <1>2 DEF Look, Walks, HasLock, HoldsLock
<1>4. ProbeTypes'
  BY <1>2 DEF Look, ProbeTypes
<1>. QED  BY <1>3, <1>4, WalkKeepsLocks, WalkWithoutHold DEF Look

\* A request takes the lock of its page, or makes one.
LEMMA TakeLockStep ==
  ASSUME ProbeConstants, ProbeInv, NEW c \in Callers, TakeLock(c)
  PROVE  ProbeInv'
<1>. USE DEF ProbeInv
<1>. DEFINE p == caller[c].page
            l == IF locks[p] = 0 THEN made + 1 ELSE locks[p]
<1>1. /\ caller[c].at = "lock" /\ (locks[p] = 0 => made < MaxLocks)
      /\ made' = IF locks[p] = 0 THEN made + 1 ELSE made
      /\ locks' = [locks EXCEPT ![p] = l]
      /\ caller' = [caller EXCEPT ![c].at = "wait", ![c].lock = l]
      /\ UNCHANGED <<asks, probes, held, expired>>
  BY DEF TakeLock
<1>2. p \in Pages /\ locks[p] \in 0 .. MaxLocks /\ made \in 0 .. MaxLocks /\ MaxLocks \in Nat
  BY DEF ProbeTypes, CallerStates, ProbeConstants
<1>3. /\ l \in 1 .. MaxLocks /\ made' \in 0 .. MaxLocks /\ made <= made' /\ l <= made'
      /\ locks[p] = 0 => l = made + 1
      /\ locks[p] # 0 => l = locks[p]
  BY <1>1, <1>2 DEF LocksInUse
<1>. HIDE DEF l
<1>5. /\ caller' \in [Callers -> CallerStates]
      /\ \A d \in Callers \ {c} : caller'[d] = caller[d]
      /\ caller'[c].at = "wait" /\ caller'[c].lock = l /\ caller'[c].page = p
  BY <1>1, <1>3 DEF ProbeTypes, CallerStates, Places
<1>6. /\ locks' \in [Pages -> 0 .. MaxLocks] /\ locks'[p] = l
      /\ \A q \in Pages \ {p} : locks'[q] = locks[q]
  BY <1>1, <1>2, <1>3 DEF ProbeTypes
<1>. HIDE DEF p
<1>7. ProbeTypes'
  BY <1>1, <1>3, <1>5, <1>6 DEF ProbeTypes
<1>8. \A d \in Callers \ {c} : HasLock(d)' <=> HasLock(d)
  BY <1>5 DEF HasLock
<1>9. LockOfPage'
  <2>. SUFFICES ASSUME NEW d \in Callers, HasLock(d)'
                PROVE  caller'[d].lock = locks'[caller'[d].page]
    BY DEF LockOfPage, HasLock
  <2>1. CASE d = c
    BY <1>5, <1>6, <2>1
  <2>2. CASE d # c
    <3>1. caller[d].lock = locks[caller[d].page] /\ caller[d].lock # 0
      BY <1>8, <2>2 DEF LockOfPage, LocksInUse
    <3>2. caller[d].page \in Pages
      BY DEF ProbeTypes, CallerStates
    <3>3. locks'[caller[d].page] = locks[caller[d].page]
      BY <1>3, <1>6, <3>1, <3>2
    <3>. QED  BY <1>5, <2>2, <3>1, <3>3
  <2>. QED  BY <2>1, <2>2
<1>10. LocksInUse'
  <2>1. \A d \in Callers : HasLock(d)' => caller'[d].lock # 0
    BY <1>3, <1>5, <1>8 DEF LocksInUse
  <2>2. \A q \in Pages : locks'[q] <= made'
    <3>1. \A q \in Pages : locks[q] <= made /\ locks[q] \in Int
      BY DEF LocksInUse, ProbeTypes
    <3>. QED  BY <1>2, <1>3, <1>6, <3>1
  <2>3. ASSUME NEW q1 \in Pages, NEW q2 \in Pages, locks'[q1] = locks'[q2], locks'[q1] # 0
        PROVE  q1 = q2
    <3>1. \A q \in Pages : locks[q] <= made /\ locks[q] \in Int
      BY DEF LocksInUse, ProbeTypes
    <3>2. \A q \in Pages \ {p} : locks[q] # l \/ locks[q] = 0
      <4>1. CASE locks[p] = 0
        BY <1>2, <1>3, <3>1, <4>1
      <4>2. CASE locks[p] # 0
        BY <1>2, <1>3, <4>2 DEF LocksInUse, p
      <4>. QED  BY <4>1, <4>2
    <3>3. l # 0
      BY <1>3
    <3>. QED  BY <1>2, <1>6, <2>3, <3>2, <3>3 DEF LocksInUse
  <2>. QED  BY <2>1, <2>2, <2>3 DEF LocksInUse, HasLock
<1>11. HeldByOne' /\ NoneRecent'
  BY <1>1, <1>5 DEF HeldByOne, NoneRecent, HoldsLock
<1>. QED  BY <1>7, <1>9, <1>10, <1>11

\* Taking a lock that is free: whoever holds one holds another.
LEMMA AcquireStep ==
  ASSUME ProbeInv, NEW c \in Callers, Acquire(c)
  PROVE  ProbeInv'
<1>. USE DEF ProbeInv
<1>1. /\ caller' \in [Callers -> CallerStates]
      /\ \A d \in Callers \ {c} : caller'[d] = caller[d]
      /\ caller'[c].at = "held" /\ caller'[c].lock = caller[c].lock
      /\ caller'[c].page = caller[c].page
  BY DEF Acquire, ProbeTypes, CallerStates, Places
<1>2. caller[c].at = "wait" /\ caller[c].lock \notin held /\ held' = held \cup {caller[c].lock}
  BY DEF Acquire
<1>3. caller[c].lock \in 1 .. MaxLocks
  BY <1>2 DEF LocksInUse, HasLock, ProbeTypes, CallerStates
<1>4. Walks(c)
  BY <1>1, <1>2 DEF Acquire, Walks, HasLock
<1>5. HeldByOne' /\ NoneRecent'
  BY <1>1, <1>2 DEF Acquire, HeldByOne, NoneRecent, HoldsLock
<1>6. ProbeTypes'
  BY <1>1, <1>2, <1>3 DEF Acquire, ProbeTypes
<1>. QED  BY <1>4, <1>5, <1>6, WalkKeepsLocks

\* Of those who hold the lock of a page there is one.
LEMMA HolderAlone ==
  ASSUME ProbeInv, NEW c \in Callers, NEW d \in Callers, HoldsLock(c), HoldsLock(d),
         caller[c].page = caller[d].page
  PROVE  c = d
BY DEF ProbeInv, LockOfPage, HeldByOne, HasLock, HoldsLock

\* The holder of a lock frees it.
LEMMA HolderFrees ==
  ASSUME ProbeInv, NEW c \in Callers, Walks(c), HoldsLock(c), ~HoldsLock(c)',
         held' = held \ {caller[c].lock}
  PROVE  HeldByOne' /\ held' \in SUBSET (1 .. MaxLocks)
<1>1. \A d \in Callers \ {c} : HoldsLock(d) => caller[d].lock \in held \ {caller[c].lock}
  BY DEF ProbeInv, HeldByOne
<1>2. HeldByOne'
  BY <1>1 DEF ProbeInv, HeldByOne, HoldsLock, Walks
<1>. QED  BY <1>2 DEF ProbeInv, ProbeTypes

\* With the lock in hand a caller finds an answer, or goes on to probe.
LEMMA RunStep ==
  ASSUME ProbeInv, NEW c \in Callers, Run(c)
  PROVE  ProbeInv'
<1>. USE DEF ProbeInv
<1>1. PICK a \in {"running", "leave"} :
        /\ caller' = [caller EXCEPT ![c].at = a]
        /\ held' = IF a = "running" THEN held ELSE held \ {caller[c].lock}
        /\ a = "running" => caller[c].page \notin probes
  BY DEF Run
<1>2. /\ caller' \in [Callers -> CallerStates]
      /\ \A d \in Callers \ {c} : caller'[d] = caller[d]
      /\ caller'[c].at = a /\ caller'[c].lock = caller[c].lock
      /\ caller'[c].page = caller[c].page
  BY <1>1 DEF ProbeTypes, CallerStates, Places
<1>3. HoldsLock(c) /\ UNCHANGED <<asks, probes, locks, made, expired>>
  BY DEF Run, HoldsLock
<1>4. Walks(c)
  BY <1>2, <1>3 DEF Walks, HasLock, HoldsLock
<1>5. NoneRecent'
  BY <1>1, <1>2, <1>3 DEF NoneRecent
<1>6. HeldByOne' /\ held' \in SUBSET (1 .. MaxLocks)
  <2>1. CASE a = "running"
    BY <1>1, <1>2, <1>3, <2>1 DEF HeldByOne, HoldsLock, ProbeTypes
  <2>2. CASE a = "leave"
    BY <1>1, <1>2, <1>3, <1>4, <2>2, HolderFrees DEF HoldsLock
  <2>. QED  BY <2>1, <2>2
<1>7. ProbeTypes'
  BY <1>2, <1>3, <1>6 DEF ProbeTypes
<1>. QED  BY <1>4, <1>5, <1>6, <1>7, WalkKeepsLocks

\* The probe ends, and an answer is kept: nobody else is at the page.
LEMMA AnswerStep ==
  ASSUME ProbeInv, NEW c \in Callers, Answer(c)
  PROVE  ProbeInv'
<1>. USE DEF ProbeInv
<1>1. /\ caller' \in [Callers -> CallerStates]
      /\ \A d \in Callers \ {c} : caller'[d] = caller[d]
      /\ caller'[c].at = "leave" /\ caller'[c].lock = caller[c].lock
      /\ caller'[c].page = caller[c].page
  BY DEF Answer, ProbeTypes, CallerStates, Places
<1>2. HoldsLock(c) /\ held' = held \ {caller[c].lock} /\ UNCHANGED <<asks, locks, made, expired>>
  BY DEF Answer, HoldsLock
<1>3. probes' \in SUBSET Pages /\ probes' \subseteq probes \cup {caller[c].page}
  BY DEF Answer, ProbeTypes, CallerStates
<1>4. Walks(c) /\ ~HoldsLock(c)'
  BY <1>1, <1>2 DEF Walks, HasLock, HoldsLock
<1>5. HeldByOne' /\ held' \in SUBSET (1 .. MaxLocks)
  BY <1>2, <1>4, HolderFrees
<1>6. ASSUME NEW d \in Callers, caller'[d].at = "running" PROVE caller'[d].page \notin probes'
  <2>1. d # c /\ caller[d].at = "running" /\ caller'[d] = caller[d]
    BY <1>1, <1>6
  <2>2. caller[d].page # caller[c].page
    BY <1>2, <2>1, HolderAlone DEF HoldsLock
  <2>. QED  BY <1>3, <2>1, <2>2 DEF NoneRecent
<1>7. ProbeTypes'
  BY <1>1, <1>2, <1>3, <1>5 DEF ProbeTypes
<1>. QED  BY <1>4, <1>5, <1>6, <1>7, WalkKeepsLocks DEF NoneRecent

\* Whoever leaves with nobody else at the lock takes it out of the map.
LEMMA CheckLockStep ==
  ASSUME ProbeConstants, ProbeInv, NEW c \in Callers, CheckLock(c)
  PROVE  ProbeInv'
<1>. USE DEF ProbeInv
<1>. DEFINE p == caller[c].page
<1>1. /\ caller[c].at = "leave" /\ caller' = [caller EXCEPT ![c].at = "drop"]
      /\ locks' = IF locks[p] # 0 /\ LastUser(locks[p]) THEN [locks EXCEPT ![p] = 0] ELSE locks
      /\ UNCHANGED <<asks, probes, held, made, expired>>
  BY DEF CheckLock
<1>2. p \in Pages /\ locks[p] = caller[c].lock /\ locks[p] # 0
  BY <1>1 DEF ProbeTypes, CallerStates, LockOfPage, LocksInUse, HasLock
<1>. HIDE DEF p
<1>3. /\ caller' \in [Callers -> CallerStates] /\ caller'[c].at = "drop"
      /\ \A d \in Callers \ {c} : caller'[d] = caller[d]
  BY <1>1 DEF ProbeTypes, CallerStates, Places
<1>4. HeldByOne' /\ NoneRecent'
  BY <1>1, <1>3 DEF HeldByOne, NoneRecent, HoldsLock
<1>5. \A d \in Callers : HasLock(d)' => d # c /\ HasLock(d)
  BY <1>3 DEF HasLock
<1>6. CASE LastUser(locks[p])
  <2>1. \A d \in Callers \ {c} : caller[d].lock # locks[p]
    BY <1>2, <1>6, LastUserAlone DEF ProbeConstants
  <2>2. /\ locks' \in [Pages -> 0 .. MaxLocks] /\ locks'[p] = 0
        /\ \A q \in Pages \ {p} : locks'[q] = locks[q]
    BY <1>1, <1>2, <1>6 DEF ProbeTypes, ProbeConstants
  <2>3. \A d \in Callers \ {c} : HasLock(d) => caller[d].page \in Pages \ {p}
    BY <2>1 DEF LockOfPage, ProbeTypes, CallerStates
  <2>4. LockOfPage'
    <3>. SUFFICES ASSUME NEW d \in Callers, HasLock(d)'
                  PROVE  caller'[d].lock = locks'[caller'[d].page]
      BY DEF LockOfPage, HasLock
    <3>. QED  BY <1>3, <1>5, <2>2, <2>3 DEF LockOfPage
  <2>5. \A q \in Pages : locks'[q] # 0 => q # p /\ locks'[q] = locks[q]
    BY <2>2
  <2>6. \A q \in Pages : locks'[q] <= made
    BY <1>2, <2>2 DEF LocksInUse, ProbeTypes
  <2>7. LocksInUse'
    BY <1>1, <1>3, <1>5, <2>5, <2>6 DEF LocksInUse, HasLock
  <2>. QED  BY <1>1, <1>3, <1>4, <2>2, <2>4, <2>7 DEF ProbeTypes
<1>7. CASE ~LastUser(locks[p])
  <2>1. locks' = locks
    BY <1>1, <1>7
  <2>2. Walks(c)
    BY <1>1, <1>3, <1>5, <2>1 DEF Walks
  <2>. QED  BY <1>1, <1>3, <1>4, <2>1, <2>2, WalkKeepsLocks DEF ProbeTypes
<1>. QED  BY <1>6, <1>7

\* Idle callers are callers.
LEMMA IdleType ==
  ASSUME ProbeConstants
  PROVE  Idle \in CallerStates /\ Idle.at = "idle"
<1>1. (CHOOSE q \in Pages : TRUE) \in Pages
  BY DEF ProbeConstants
<1>. QED  BY <1>1 DEF Idle, CallerStates, Places, ProbeConstants

\* A caller is done with its lock, or its request is dropped.
LEMMA DropStep ==
  ASSUME ProbeConstants, ProbeInv, NEW c \in Callers, DropLock(c) \/ Dropped(c)
  PROVE  ProbeInv'
<1>. USE DEF ProbeInv
<1>1. /\ caller' = [caller EXCEPT ![c] = Idle]
      /\ UNCHANGED <<asks, probes, locks, made, expired>>
      /\ held' = IF HoldsLock(c) THEN held \ {caller[c].lock} ELSE held
  BY DEF DropLock, Dropped, HoldsLock
<1>2. /\ caller' \in [Callers -> CallerStates] /\ caller'[c].at = "idle"
      /\ \A d \in Callers \ {c} : caller'[d] = caller[d]
  BY <1>1, IdleType DEF ProbeTypes
<1>3. Walks(c) /\ ~HoldsLock(c)'
  BY <1>1, <1>2 DEF Walks, HasLock, HoldsLock
<1>4. NoneRecent'
  BY <1>1, <1>2 DEF NoneRecent
<1>5. HeldByOne' /\ held' \in SUBSET (1 .. MaxLocks)
  <2>1. CASE HoldsLock(c)
    BY <1>1, <1>3, <2>1, HolderFrees
  <2>2. CASE ~HoldsLock(c)
    BY <1>1, <1>3, <2>2, WalkWithoutHold DEF ProbeTypes
  <2>. QED  BY <2>1, <2>2
<1>6. ProbeTypes'
  BY <1>1, <1>2, <1>5 DEF ProbeTypes
<1>. QED  BY <1>3, <1>4, <1>5, <1>6, WalkKeepsLocks

---------------------------------------------------------------------------
\* The invariant holds at first.
LEMMA ProbeInit ==
  ASSUME ProbeConstants, Init
  PROVE  ProbeInv
<1>1. Idle \in CallerStates /\ Idle.at = "idle"
  BY IdleType
<1>2. \A c \in Callers : caller[c] = Idle
  BY DEF Init
<1>3. ProbeTypes
  BY <1>1 DEF Init, ProbeTypes, ProbeConstants
<1>4. LockOfPage /\ LocksInUse /\ HeldByOne /\ NoneRecent
  BY <1>1, <1>2 DEF Init, LockOfPage, LocksInUse, HeldByOne, NoneRecent, HasLock, HoldsLock
<1>. QED  BY <1>3, <1>4 DEF ProbeInv

\* Every step keeps the invariant.
LEMMA ProbeNext ==
  ASSUME ProbeConstants, ProbeInv, [Next]_vars
  PROVE  ProbeInv'
<1>1. CASE UNCHANGED vars
  BY <1>1 DEF vars, ProbeInv, ProbeTypes, LockOfPage, LocksInUse, HeldByOne, NoneRecent,
    HasLock, HoldsLock
<1>2. ASSUME NEW c \in Callers, Ask(c) \/ Look(c) \/ TakeLock(c) PROVE ProbeInv'
  BY <1>2, AskStep, LookStep, TakeLockStep
<1>3. ASSUME NEW c \in Callers, Acquire(c) \/ Run(c) \/ Answer(c) PROVE ProbeInv'
  BY <1>3, AcquireStep, RunStep, AnswerStep
<1>4. ASSUME NEW c \in Callers, CheckLock(c) \/ DropLock(c) \/ Dropped(c) PROVE ProbeInv'
  BY <1>4, CheckLockStep, DropStep
<1>5. ASSUME NEW p \in Pages, Expire(p) PROVE ProbeInv'
  <2>1. /\ UNCHANGED <<caller, asks, locks, held, made>> /\ probes' \in SUBSET Pages
        /\ expired' \in 0 .. MaxExpiries
    BY <1>5 DEF Expire, ProbeInv, ProbeTypes, ProbeConstants
  <2>2. probes' \subseteq probes
    BY <1>5 DEF Expire
  <2>. QED  BY <2>1, <2>2 DEF ProbeInv, ProbeTypes, LockOfPage, LocksInUse, HeldByOne, NoneRecent,
                 HasLock, HoldsLock
<1>. QED  BY <1>1, <1>2, <1>3, <1>4, <1>5 DEF Next

\* The invariant holds in every state.
LEMMA ProbeInvariant ==
  ASSUME ProbeConstants
  PROVE  Spec => []ProbeInv
<1>1. Init => ProbeInv
  BY ProbeInit
<1>2. ProbeInv /\ [Next]_vars => ProbeInv'
  BY ProbeNext
<1>. QED  BY <1>1, <1>2, PTL DEF Spec

\* Probing pages (jobs.rs, probe_video): two requests never probe one page at the same time,
\* and none probes a page that has a recent answer, however locks come and go while callers
\* wait, requests are dropped and locks are left behind.
THEOREM PageProbedOnce ==
  ASSUME ProbeConstants
  PROVE  Spec => []ProbedOnce
<1>1. ASSUME ProbeInv PROVE ProbedOnce
  <2>1. ASSUME NEW c \in Callers, NEW d \in Callers, caller[c].at = "running",
               caller[d].at = "running", caller[c].page = caller[d].page
        PROVE  c = d
    BY <1>1, <2>1, HolderAlone DEF HoldsLock
  <2>. QED  BY <1>1, <2>1 DEF ProbedOnce, ProbeInv, NoneRecent
<1>. QED  BY <1>1, ProbeInvariant, PTL
=============================================================================
