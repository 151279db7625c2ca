--------------------------- MODULE HostConnections ---------------------------
(***************************************************************************)
(* The connections of several downloads to one host (prism-engine,         *)
(* hostlimits.rs and segmented/supervisor.rs): each download's supervisor  *)
(* ramps up, limits and replaces its workers, each worker waits for one of *)
(* the host's slots and holds it, and the server refuses connections       *)
(* beyond a number that the engine learns.                                 *)
(*                                                                         *)
(* Workers of a download are interchangeable: `at` counts them by what     *)
(* they are doing.  A unit of work is what a worker takes from the segment *)
(* table; a delay may be over whenever it is looked at.                    *)
(***************************************************************************)
EXTENDS Naturals, Functions

CONSTANTS
  Downloads,
  Work,            \* units of work of each download, a function
  Requested,       \* connections each download asks for at first, at most ConnectionsCap
  Initial,         \* ... and opens at once
  ConnectionsCap,  \* Params::cap
  ServerSlots,     \* connections the server accepts
  NoLimit,         \* usize::MAX, a number no count reaches
  MaxUnjoined,     \* bound: ended workers a tick may find before they are joined
  MaxEvents        \* bound: commands, policy changes, expiries, failures and probes

Waiting == {"arming", "checked", "asleep"}
Counted == {"between", "reopening", "pumping"}      \* Worker::connected
WithUnit == {"opening", "reopening", "pumping"}
Exits == {"Idle", "Retired", "Stopped", "Refused", "GaveUp", "Fatal"}
States == Waiting \cup Counted \cup WithUnit \cup {"ready"}

VARIABLES
  at,          \* per download, the number of running workers in each state
  exits,       \* ended workers that are not joined yet
  active,      \* SegCtx::active_workers
  requested, learned, ramp, target,   \* the supervisor's; NoLimit for None
  hold,        \* hold_until is in the future
  left,        \* units of work nobody has taken
  stop,        \* SegCtx::stop and why: "no", "done", "user", "fatal"
  pass,        \* the supervisor has handled something and is at the top of its loop
  outcome,     \* "none" until supervise returns
  slots,       \* Entry::active of the host
  limit,       \* Entry::learned of the host, NoLimit for None or expired
  hostCap,     \* HostLimits::cap
  events

supervisor == <<requested, learned, ramp, hold, pass, outcome>>
host == <<slots, limit, hostCap>>
vars == <<at, exits, active, supervisor, target, left, stop, host, events>>

Least(a, b) == IF a <= b THEN a ELSE b
Most(a, b) == IF a >= b THEN a ELSE b
CountOf(f, S) == FoldFunctionOnSet(+, 0, f, S)
WorkersOf(d) == CountOf(at[d], States) + CountOf(exits[d], Exits)
Connected(d) == CountOf(at[d], Counted)
HostConnected == FoldFunction(+, 0, [d \in Downloads |-> Connected(d)])
Streaming == FoldFunction(+, 0, [d \in Downloads |-> at[d]["pumping"]])
AllDone(d) == left[d] = 0 /\ CountOf(at[d], WithUnit) = 0
LimitOf == Least(limit, hostCap)

Moved(f, d, from, to) == [f EXCEPT ![d][from] = @ - 1, ![d][to] = @ + 1]
Spend == events < MaxEvents /\ events' = events + 1

(* Notify::notify_waiters reaches everyone who registered with enable(),   *)
(* which acquire does before it looks at the slots.                        *)
\* Mutant: acquire registers only when it awaits, after it looked.
Woken_NotEnabled(f) ==
  [d \in Downloads |-> [f[d] EXCEPT !["asleep"] = 0, !["arming"] = @ + f[d]["asleep"]]]
Woken(f) ==
  [d \in Downloads |-> [f[d] EXCEPT !["checked"] = 0, !["asleep"] = 0,
                                    !["arming"] = @ + f[d]["checked"] + f[d]["asleep"]]]

Init ==
  /\ at = [d \in Downloads |-> [s \in States |-> 0]]
  /\ exits = [d \in Downloads |-> [k \in Exits |-> 0]]
  /\ active = [d \in Downloads |-> 0]
  /\ requested = [d \in Downloads |-> Requested[d]]
  /\ learned = [d \in Downloads |-> NoLimit]
  /\ ramp = [d \in Downloads |-> Least(Initial, Requested[d])]
  /\ target = [d \in Downloads |-> 0]
  /\ hold = [d \in Downloads |-> FALSE]
  /\ left = Work
  /\ stop = [d \in Downloads |-> "no"]
  /\ pass = [d \in Downloads |-> FALSE]
  /\ outcome = [d \in Downloads |-> "unstarted"]
  /\ slots = 0 /\ limit = NoLimit /\ hostCap = NoLimit
  /\ events = 0

---------------------------------------------------------------------------
(* HostLimits.                                                             *)

CheckSlot(d) ==
  /\ at[d]["arming"] > 0
  /\ IF slots < LimitOf
     THEN at' = Moved(at, d, "arming", "ready") /\ slots' = slots + 1
     ELSE at' = Moved(at, d, "arming", "checked") /\ UNCHANGED slots
  /\ UNCHANGED <<exits, active, supervisor, target, left, stop, limit, hostCap, events>>

AwaitSlot(d) ==
  /\ at[d]["checked"] > 0
  /\ at' = Moved(at, d, "checked", "asleep")
  /\ UNCHANGED <<exits, active, supervisor, target, left, stop, host, events>>

Record(n) == limit' = Most(n, 1) /\ at' = Woken(at)

(* The application sets or forgets a learned limit, or changes the policy. *)
Override ==
  /\ Spend
  /\ \/ (\E n \in {1, NoLimit} : Record(n)) /\ UNCHANGED hostCap
     \/ hostCap' \in {1, NoLimit} \ {hostCap} /\ at' = Woken(at) /\ UNCHANGED limit
  /\ UNCHANGED <<exits, active, supervisor, target, left, stop, slots>>

(* The learned limit's lifetime is over; nobody is told.                   *)
LearnedExpires ==
  /\ limit # NoLimit /\ Spend
  /\ limit' = NoLimit
  /\ UNCHANGED <<at, exits, active, supervisor, target, left, stop, slots, hostCap>>

---------------------------------------------------------------------------
(* The worker (worker.rs).                                                 *)

(* A worker waiting for a slot when the job stops.                         *)
StopWaiting(d, from) ==
  /\ from \in Waiting /\ at[d][from] > 0 /\ stop[d] # "no"
  /\ at' = [at EXCEPT ![d][from] = @ - 1]
  /\ exits' = [exits EXCEPT ![d]["Stopped"] = @ + 1]
  /\ active' = [active EXCEPT ![d] = @ - 1]
  /\ UNCHANGED <<supervisor, target, left, stop, host, events>>

(* The end of run_worker: the unit it has goes back to the table, the slot *)
(* is given back, which wakes the waiting workers, and a worker is taken   *)
(* off active_workers unless try_retire has done it.                       *)
\* Mutant: every worker is taken off the count, a retired one twice.
OffTheCount_Twice(d, kind) ==
  active' = [active EXCEPT ![d] = @ - (IF kind = "Retired" THEN 2 ELSE 1)]
OffTheCount(d, kind) ==
  active' = [active EXCEPT ![d] = @ - 1]

End(d, from, kind) ==
  /\ OffTheCount(d, kind)
  /\ left' = IF from \in WithUnit THEN [left EXCEPT ![d] = @ + 1] ELSE left
  /\ at' = Woken([at EXCEPT ![d][from] = @ - 1])
  /\ exits' = [exits EXCEPT ![d][kind] = @ + 1]
  /\ slots' = slots - 1
  /\ UNCHANGED <<supervisor, target, stop, limit, hostCap>>

StopWorking(d, from) ==
  /\ from \in Counted \cup WithUnit \cup {"ready"} /\ at[d][from] > 0 /\ stop[d] # "no"
  /\ End(d, from, "Stopped")
  /\ UNCHANGED events

(* try_retire decides and takes the worker off the count in one exchange.  *)
MustRetire(d) == active[d] > Most(target[d], 1)

(* Before a new unit, and (a.race = FALSE) between two requests of one.    *)
Retire(d, from) ==
  /\ from \in {"ready", "between", "pumping"} /\ at[d][from] > 0
  /\ from # "pumping" => stop[d] = "no"
  /\ MustRetire(d)
  /\ End(d, from, "Retired")
  /\ UNCHANGED events

TakeUnit(d, from) ==
  /\ from \in {"ready", "between"} /\ at[d][from] > 0
  /\ stop[d] = "no" /\ ~MustRetire(d)
  /\ \/ /\ left[d] > 0
        /\ left' = [left EXCEPT ![d] = @ - 1]
        /\ at' = Moved(at, d, from, IF from = "ready" THEN "opening" ELSE "reopening")
        /\ UNCHANGED <<exits, active, supervisor, target, stop, host>>
     \/ left[d] = 0 /\ End(d, from, "Idle")
  /\ UNCHANGED events

Open(d, from) ==
  /\ from \in {"opening", "reopening"} /\ at[d][from] > 0
  /\ Streaming < ServerSlots
  /\ at' = Moved(at, d, from, "pumping")
  /\ UNCHANGED <<exits, active, supervisor, target, left, stop, host, events>>

FinishUnit(d) ==
  /\ at[d]["pumping"] > 0
  /\ at' = Moved(at, d, "pumping", "between")
  /\ UNCHANGED <<exits, active, supervisor, target, left, stop, host, events>>

(* on_failure: a retry with the unit kept, or, after max_retries of them   *)
(* or for an error that no retry helps, the end.                           *)
RetryOrEnd(d, from) ==
  \/ /\ at' = Moved(at, d, from, "opening")
     /\ UNCHANGED <<exits, active, supervisor, target, left, stop, host>>
  \/ \E k \in {"GaveUp", "Fatal"} : End(d, from, k)

(* ... for a refusal: with other connections of the download at work it is *)
(* the server's limit, without any it is a failure like others.            *)
Refuse(d, from) ==
  /\ from \in {"opening", "reopening"} /\ at[d][from] > 0
  /\ Streaming >= ServerSlots
  /\ IF Connected(d) - (IF from \in Counted THEN 1 ELSE 0) > 0
     THEN End(d, from, "Refused") /\ UNCHANGED events
     ELSE RetryOrEnd(d, from) /\ Spend

(* Any other failure of a request or of a stream.                          *)
Fail(d, from) ==
  /\ from \in WithUnit /\ at[d][from] > 0 /\ Spend
  /\ RetryOrEnd(d, from)

---------------------------------------------------------------------------
(* The supervisor (supervisor.rs, supervise).                              *)

(* The first worker takes over the probe's stream and its permit.          *)
Begin(d) ==
  /\ outcome[d] = "unstarted"
  /\ slots < LimitOf /\ Streaming < ServerSlots
  /\ slots' = slots + 1
  /\ at' = [at EXCEPT ![d]["pumping"] = 1]
  /\ active' = [active EXCEPT ![d] = 1]
  /\ left' = [left EXCEPT ![d] = @ - 1]
  /\ learned' = [learned EXCEPT ![d] = LimitOf]
  /\ pass' = [pass EXCEPT ![d] = TRUE]
  /\ outcome' = [outcome EXCEPT ![d] = "none"]
  /\ UNCHANGED <<exits, requested, ramp, hold, target, stop, limit, hostCap, events>>

Cap(d) == Most(Least(requested[d], learned[d]), 1)

(* The first connections start at once, the others when they all deliver.  *)
Ramp(d) ==
  IF ramp[d] < Cap(d) /\ Connected(d) >= Most(Least(ramp[d], active[d]), 1)
  THEN Cap(d) ELSE ramp[d]

(* Workers of one pass: as many as are wanted while there is work.         *)
ToSpawn(d, why) ==
  IF why # "no" \/ hold[d] \/ left[d] = 0 THEN 0
  ELSE LET wanted == Least(Ramp(d), Cap(d)) IN IF active[d] < wanted THEN wanted - active[d] ELSE 0

Ending(d, why) ==
  CASE why = "fatal" -> "failed"
    [] why = "done"  -> "completed"
    [] why = "user"  -> "stopped"
    [] why = "no" /\ ~hold[d] -> "failed"
    [] OTHER -> "none"

(* At the top of the loop: after an arm of the select that changed        *)
(* something (pass), or any time a tick or connected_notify comes.         *)
LoopTop(d) ==
  /\ outcome[d] = "none" /\ (pass[d] \/ CountOf(exits[d], Exits) <= MaxUnjoined)
  /\ LET why == IF stop[d] \in {"no", "user"} /\ AllDone(d) THEN "done" ELSE stop[d]
         n == ToSpawn(d, why)
     IN /\ stop' = [stop EXCEPT ![d] = why]
        /\ at' = [at EXCEPT ![d]["arming"] = @ + n]
        /\ active' = [active EXCEPT ![d] = @ + n]
        /\ outcome' = [outcome EXCEPT ![d] = IF WorkersOf(d) + n = 0 THEN Ending(d, why) ELSE @]
  /\ target' = [target EXCEPT ![d] = Cap(d)]
  /\ ramp' = [ramp EXCEPT ![d] = Ramp(d)]
  /\ pass' = [pass EXCEPT ![d] = FALSE]
  /\ UNCHANGED <<exits, requested, learned, hold, left, host, events>>

(* An arm of the select; the loop is at its top again.                     *)
Arrives(d) ==
  /\ outcome[d] = "none" /\ ~pass[d]
  /\ pass' = [pass EXCEPT ![d] = TRUE]

\* Mutant: the last connection's giving up fails the download whatever it has.
JoinGaveUp_Fails(d) ==
  /\ hold' = [hold EXCEPT ![d] = TRUE]
  /\ outcome' = IF WorkersOf(d) = 1 THEN [outcome EXCEPT ![d] = "failed"] ELSE outcome
  /\ UNCHANGED <<learned, limit, at, stop>>
JoinGaveUp(d) ==
  /\ hold' = [hold EXCEPT ![d] = TRUE]
  /\ outcome' = IF WorkersOf(d) = 1 /\ ~AllDone(d)
                THEN [outcome EXCEPT ![d] = "failed"] ELSE outcome
  /\ UNCHANGED <<learned, limit, at, stop>>

JoinRefused(d) ==
  LET working == Most(Connected(d), 1) IN
  /\ IF working < target[d]
     THEN learned' = [learned EXCEPT ![d] = working] /\ Record(working)
     ELSE UNCHANGED <<learned, limit, at>>
  /\ UNCHANGED <<hold, outcome, stop>>

Join(d, k) ==
  /\ exits[d][k] > 0 /\ Arrives(d)
  /\ exits' = [exits EXCEPT ![d][k] = @ - 1]
  /\ CASE k = "GaveUp" -> JoinGaveUp(d)
       [] k = "Refused" -> JoinRefused(d)
       [] k = "Fatal" -> stop' = [stop EXCEPT ![d] = "fatal"]
                         /\ UNCHANGED <<hold, outcome, learned, limit, at>>
       [] OTHER -> UNCHANGED <<hold, outcome, learned, limit, at, stop>>
  /\ UNCHANGED <<active, requested, ramp, target, left, slots, hostCap, events>>

(* A tick: it may be time to try one connection more than the limit.       *)
ProbeUp(d) ==
  /\ learned[d] # NoLimit /\ learned[d] < requested[d] /\ Spend
  /\ Arrives(d)
  /\ learned' = [learned EXCEPT ![d] = @ + 1]
  /\ Record(learned[d] + 1)
  /\ UNCHANGED <<exits, active, requested, ramp, hold, outcome, target, left, stop, slots, hostCap>>

(* A tick on which the turbo booster asks for more connections.            *)
Turbo(d) ==
  /\ requested[d] < ConnectionsCap /\ learned[d] = NoLimit /\ ~hold[d]
  /\ Connected(d) >= active[d] /\ active[d] >= requested[d]
  /\ Arrives(d)
  /\ requested' = [requested EXCEPT ![d] = Least(@ + 4, ConnectionsCap)]
  /\ ramp' = requested'
  /\ UNCHANGED <<at, exits, active, learned, hold, outcome, target, left, stop, host, events>>

HoldOver(d) ==
  /\ hold[d]
  /\ hold' = [hold EXCEPT ![d] = FALSE]
  /\ UNCHANGED <<at, exits, active, requested, learned, ramp, pass, outcome, target, left, stop, host, events>>

SetConnections(d, n) ==
  /\ Spend /\ Arrives(d)
  /\ requested' = [requested EXCEPT ![d] = Least(Most(n, 1), ConnectionsCap)]
  /\ ramp' = [ramp EXCEPT ![d] = Most(@, requested'[d])]
  /\ UNCHANGED <<at, exits, active, learned, hold, outcome, target, left, stop, host>>

(* The job's token is cancelled.                                           *)
StopDownload(d) ==
  /\ outcome[d] = "none" /\ stop[d] = "no" /\ Spend
  /\ stop' = [stop EXCEPT ![d] = "user"]
  /\ UNCHANGED <<at, exits, active, supervisor, target, left, host>>

---------------------------------------------------------------------------
WorkerStep(d) ==
  \/ CheckSlot(d) \/ AwaitSlot(d) \/ FinishUnit(d)
  \/ \E s \in States : \/ StopWaiting(d, s) \/ StopWorking(d, s)
                       \/ Retire(d, s) \/ TakeUnit(d, s) \/ Open(d, s) \/ Refuse(d, s)
SupervisorStep(d) ==
  \/ Begin(d) \/ LoopTop(d) \/ Turbo(d) \/ HoldOver(d)
  \/ \E k \in Exits : Join(d, k)
Disturbance(d) ==
  \/ \E s \in States : Fail(d, s)
  \/ ProbeUp(d) \/ StopDownload(d)
  \/ \E n \in 1 .. ConnectionsCap : SetConnections(d, n)

Next == \/ \E d \in Downloads : WorkerStep(d) \/ SupervisorStep(d) \/ Disturbance(d)
        \/ Override \/ LearnedExpires
Spec == Init /\ [][Next]_vars

(* Tasks that can run are scheduled, the tick comes again and again, a     *)
(* hold runs out, and the server serves a connection it accepted.          *)
Fairness ==
  \A d \in Downloads :
    /\ SF_vars(Begin(d))
    /\ WF_vars(LoopTop(d)) /\ WF_vars(HoldOver(d))
    /\ WF_vars(\E k \in Exits : Join(d, k))
    /\ WF_vars(CheckSlot(d)) /\ WF_vars(AwaitSlot(d)) /\ WF_vars(FinishUnit(d))
    /\ WF_vars(\E s \in States : StopWaiting(d, s) \/ StopWorking(d, s))
    /\ \A s \in {"ready", "between"} : WF_vars(TakeUnit(d, s) \/ Retire(d, s))
    /\ \A s \in {"opening", "reopening"} : WF_vars(Open(d, s) \/ Refuse(d, s))
FairSpec == Spec /\ Fairness

---------------------------------------------------------------------------
TypeOK ==
  /\ \A d \in Downloads :
       /\ at[d] \in [States -> Nat] /\ exits[d] \in [Exits -> Nat]
       /\ {active[d], requested[d], learned[d], ramp[d], target[d], left[d]} \subseteq 0 .. NoLimit
       /\ {hold[d], pass[d]} \subseteq BOOLEAN
       /\ stop[d] \in {"no", "done", "user", "fatal"}
       /\ outcome[d] \in {"unstarted", "none", "completed", "stopped", "failed"}
  /\ {slots, limit, hostCap} \subseteq 0 .. NoLimit

(* active_workers is the number of workers that have not decided to end,   *)
(* and the slots in use those of workers that have one: the retirement     *)
(* decision, made by several workers at once on that counter, never leaves *)
(* a download with too few workers or the host with a slot lost.           *)
CountersAreExact ==
  /\ \A d \in Downloads :
       active[d] = CountOf(at[d], States)
  /\ slots = FoldFunction(+, 0, [d \in Downloads |-> CountOf(at[d], States \ Waiting)])

(* A worker asleep in HostLimits::acquire has someone to wake it: a slot   *)
(* is in use, and giving it back notifies everyone registered.             *)
NoWaiterForgotten ==
  (\E d \in Downloads : at[d]["asleep"] > 0) => slots > 0

(* A download fails only with work missing, or for a fatal error: losing   *)
(* its last connection after the last byte is no failure.                  *)
FailsOnlyWithWorkLeft ==
  \A d \in Downloads : outcome[d] = "failed" => left[d] > 0 \/ stop[d] = "fatal"

(* What a supervisor records for a host is not less than the connections   *)
(* working at that moment (hostlimits.rs: "Records that `host` accepts at  *)
(* most `connections` simultaneous connections").                          *)
LearnedLimitHolds ==
  [][\A d \in Downloads :
       outcome[d] = "none" /\ learned'[d] # learned[d] => HostConnected <= limit']_vars

(* With a server that serves, every download ends: no worker is left       *)
(* waiting for a slot, and no supervisor for a worker.                     *)
AllEnded == \A d \in Downloads : outcome[d] \in {"completed", "stopped", "failed"}
EveryDownloadEnds == <>AllEnded
=============================================================================
