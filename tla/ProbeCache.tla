----------------------------- MODULE ProbeCache -----------------------------
(***************************************************************************)
(* Probing video pages for the quality picker (prism-core, jobs.rs,        *)
(* probe_video): a recent answer is reused, requests for one page wait for *)
(* the probe that is running, and the lock they wait on leaves the map     *)
(* when its last user goes, unless two go together or the last one's       *)
(* request is dropped: then it stays until somebody asks again.  Requests  *)
(* are threads; a page is a page address together with the request's       *)
(* context (the cache key).                                                *)
(***************************************************************************)
EXTENDS Integers, FiniteSets

CONSTANTS
  Callers,    \* Requests of the picker, each made at most MaxAsks times.
  Pages,
  MaxAsks,    \* Bound: requests of one caller.
  MaxLocks,   \* Bound: locks ever made.
  MaxExpiries \* Bound: answers that grow old.

VARIABLES
  caller,   \* Where each caller is, for which page and with which lock.
  asks,     \* How often each has asked.
  probes,   \* video_probes: pages with a recent answer.
  locks,    \* probe_locks: the lock of a page, 0 for none.
  held,     \* Locks that are held.
  made,     \* Locks made so far.
  expired

vars == << caller, asks, probes, locks, held, made, expired >>

Idle == [at |-> "idle", page |-> CHOOSE p \in Pages : TRUE, lock |-> 0]
Places == {"idle", "look", "lock", "wait", "held", "running", "leave", "drop"}

TypeOK ==
  /\ \A c \in Callers : /\ caller[c].at \in Places /\ caller[c].page \in Pages
                        /\ caller[c].lock \in 0 .. MaxLocks
  /\ asks \in [Callers -> 0 .. MaxAsks]
  /\ probes \subseteq Pages /\ locks \in [Pages -> 0 .. MaxLocks]
  /\ held \subseteq 1 .. MaxLocks
  /\ made \in 0 .. MaxLocks /\ expired \in 0 .. MaxExpiries

Init ==
  /\ caller = [c \in Callers |-> Idle] /\ asks = [c \in Callers |-> 0]
  /\ probes = {} /\ locks = [p \in Pages |-> 0] /\ held = {} /\ made = 0 /\ expired = 0

Ask(c) ==
  /\ caller[c].at = "idle" /\ asks[c] < MaxAsks
  /\ asks' = [asks EXCEPT ![c] = @ + 1]
  /\ \E p \in Pages : caller' = [caller EXCEPT ![c].at = "look", ![c].page = p]
  /\ UNCHANGED << probes, locks, held, made, expired >>

\* recent_probe answers at once.
Look(c) ==
  /\ caller[c].at = "look"
  /\ caller' = [caller EXCEPT ![c].at = IF caller[c].page \in probes THEN "idle" ELSE "lock"]
  /\ UNCHANGED << asks, probes, locks, held, made, expired >>

TakeLock(c) ==
  /\ caller[c].at = "lock"
  /\ LET p == caller[c].page
         new == locks[p] = 0
         l == IF new THEN made + 1 ELSE locks[p]
     IN /\ new => made < MaxLocks
        /\ made' = IF new THEN made + 1 ELSE made
        /\ locks' = [locks EXCEPT ![p] = l]
        /\ caller' = [caller EXCEPT ![c].at = "wait", ![c].lock = l]
  /\ UNCHANGED << asks, probes, held, expired >>

Acquire(c) ==
  /\ caller[c].at = "wait" /\ caller[c].lock \notin held
  /\ held' = held \cup {caller[c].lock}
  /\ caller' = [caller EXCEPT ![c].at = "held"]
  /\ UNCHANGED << asks, probes, locks, made, expired >>

\* With the lock: an answer may have come meanwhile.
Run(c) ==
  /\ caller[c].at = "held"
  /\ IF caller[c].page \in probes
     THEN /\ caller' = [caller EXCEPT ![c].at = "leave"]
          /\ held' = held \ {caller[c].lock}
     ELSE /\ caller' = [caller EXCEPT ![c].at = "running"]
          /\ held' = held
  /\ UNCHANGED << asks, probes, locks, made, expired >>

\* run_probe_video: only an answer is kept.
Answer(c) ==
  /\ caller[c].at = "running"
  /\ \E ok \in BOOLEAN : probes' = IF ok THEN probes \cup {caller[c].page} ELSE probes
  /\ held' = held \ {caller[c].lock}
  /\ caller' = [caller EXCEPT ![c].at = "leave"]
  /\ UNCHANGED << asks, locks, made, expired >>

\* Arc::strong_count: the map and every caller that still has the lock.
Users(l) == {d \in Callers : caller[d].lock = l}
\* Mutant: one waiting caller does not keep the lock.
LastUser_OneMore(l) == Cardinality(Users(l)) <= 2
LastUser(l) == Cardinality(Users(l)) <= 1

\* With the map's mutex: the lock leaves the map if nobody else has it.
CheckLock(c) ==
  /\ caller[c].at = "leave"
  /\ LET p == caller[c].page IN
       locks' = IF locks[p] # 0 /\ LastUser(locks[p])
                THEN [locks EXCEPT ![p] = 0] ELSE locks
  /\ caller' = [caller EXCEPT ![c].at = "drop"]
  /\ UNCHANGED << asks, probes, held, made, expired >>

\* The caller's own reference goes after the map's mutex.
DropLock(c) ==
  /\ caller[c].at = "drop"
  /\ caller' = [caller EXCEPT ![c] = Idle]
  /\ UNCHANGED << asks, probes, locks, held, made, expired >>

\* The request is dropped while it waits for the lock or for the answer: what it holds is
\* released, and nothing else is done.
Dropped(c) ==
  /\ caller[c].at \in {"wait", "running"}
  /\ held' = IF caller[c].at = "running" THEN held \ {caller[c].lock} ELSE held
  /\ caller' = [caller EXCEPT ![c] = Idle]
  /\ UNCHANGED << asks, probes, locks, made, expired >>

\* PROBE_REUSE is over.
Expire(p) ==
  /\ p \in probes /\ expired < MaxExpiries
  /\ probes' = probes \ {p} /\ expired' = expired + 1
  /\ UNCHANGED << caller, asks, locks, held, made >>

Next ==
  \/ \E c \in Callers : Ask(c) \/ Look(c) \/ TakeLock(c) \/ Acquire(c) \/ Run(c) \/ Answer(c)
                        \/ CheckLock(c) \/ DropLock(c) \/ Dropped(c)
  \/ \E p \in Pages : Expire(p)

Spec == Init /\ [][Next]_vars

-----------------------------------------------------------------------------
\* Two requests never probe one page at the same time, and none probes a page that has a
\* recent answer, though locks come and go, and some are left behind, while callers wait.
ProbedOnce ==
  /\ \A c, d \in Callers :
       caller[c].at = "running" /\ caller[d].at = "running" /\ c # d =>
         caller[c].page # caller[d].page
  /\ \A c \in Callers : caller[c].at = "running" => caller[c].page \notin probes
=============================================================================
