---------------------------- MODULE RateLimiter ----------------------------
(***************************************************************************)
(* A live-adjustable rate limiter (prism-engine, limiter.rs).  Its callers *)
(* share one timeline: each reserves the time its bytes take after the     *)
(* reservations before, under a lock, and sleeps until then outside it.    *)
(*                                                                         *)
(* A rate is the time one byte takes, 0 when there is no limit; times and  *)
(* bytes are counted in units that keep them small.                        *)
(***************************************************************************)
EXTENDS Naturals, FiniteSets

CONSTANTS
  Tasks,        \* callers of acquire
  Sizes,        \* the numbers of bytes they ask for
  Rates,        \* the rates the user sets
  MaxAcquire,   \* MAX_ACQUIRE, and the least burst, BURST_MIN
  Quarter,      \* 250 ms
  MaxTime,      \* bound: the clock
  MaxChanges    \* bound: changes of the rate

VARIABLES
  rate,      \* RateLimiter::rate
  tat,       \* RateLimiter::tat: the end of the reservations, 0 when there is none
  setting,   \* set_rate: "none", "stored", "cleared" (before it notifies)
  tasks,     \* each caller: where it is, what it read
  now,       \* the clock
  changes,   \* changes of the rate so far
  since,     \* history: when the timeline was last cleared
  spent,     \* history: the time of the bytes let through on this timeline
  made       \* history: the rates of the reservations of this timeline

vars == <<rate, tat, setting, tasks, now, changes, since, spent, made>>

Larger(a, b) == IF a >= b THEN a ELSE b
Smaller(a, b) == IF a <= b THEN a ELSE b
Idle == [at |-> "idle", left |-> 0, read |-> 0, wake |-> 0, woken |-> FALSE, old |-> FALSE]

Init ==
  /\ rate \in Rates /\ tat = 0 /\ setting = "none" /\ now = 0 /\ changes = 0
  /\ tasks = [t \in Tasks |-> Idle]
  /\ since = 0 /\ spent = 0 /\ made = {}

------------------------------------------------------------------------------
(* Callers.                                                                 *)

Tolerance(r) == Larger(Quarter, MaxAcquire * r)

\* acquire: nothing to wait for when there is no limit.
Acquire(t) ==
  /\ tasks[t].at = "idle"
  /\ \E n \in Sizes : tasks' = [tasks EXCEPT ![t] = [Idle EXCEPT !.at = "piece", !.left = n]]
  /\ UNCHANGED <<rate, tat, setting, now, changes, since, spent, made>>

Piece(task) == Smaller(task.left, MaxAcquire)
After(task) == IF task.left <= MaxAcquire THEN Idle
               ELSE [Idle EXCEPT !.at = "piece", !.left = @ + task.left - MaxAcquire]

\* The head of acquire's loop and of acquire_piece's: the rate is read, after the task has
\* entered itself for notifications and before it takes the lock.
ReadRate(t) ==
  /\ tasks[t].at = "piece"
  /\ tasks' = [tasks EXCEPT ![t] = IF rate = 0 THEN Idle
                                   ELSE [@ EXCEPT !.at = "read", !.read = rate, !.woken = FALSE]]
  /\ UNCHANGED <<rate, tat, setting, now, changes, since, spent, made>>

\* Mutant: a reservation starts now, and not after those before it.
Base_Now == now
Base == IF tat > now THEN tat ELSE now

\* The time of the piece is reserved; within the tolerance there is nothing to wait for.
Reserve(t) ==
  LET task == tasks[t]
      cost == Piece(task) * task.read
      end == Base + cost
      waits == end > now + Tolerance(task.read)
  IN /\ task.at = "read"
     /\ tat' = end
     /\ made' = made \cup {task.read}
     /\ tasks' = [tasks EXCEPT ![t] =
          IF ~waits THEN After(task)
          ELSE [task EXCEPT !.at = "wait", !.wake = end - Tolerance(task.read)]]
     /\ spent' = IF waits THEN spent ELSE spent + cost
     /\ UNCHANGED <<rate, setting, now, changes, since>>

\* sleep_until(wake_at); a timer may be late.
Wake(t) ==
  /\ tasks[t].at = "wait" /\ now >= tasks[t].wake
  /\ tasks' = [tasks EXCEPT ![t] = After(tasks[t])]
  /\ spent' = IF tasks[t].old THEN spent ELSE spent + Piece(tasks[t]) * tasks[t].read
  /\ UNCHANGED <<rate, tat, setting, now, changes, since, made>>

\* The rate changed: a new reservation.
Again(t) ==
  /\ tasks[t].at = "wait" /\ tasks[t].woken
  /\ tasks' = [tasks EXCEPT ![t] = [Idle EXCEPT !.at = "piece", !.left = tasks[t].left]]
  /\ UNCHANGED <<rate, tat, setting, now, changes, since, spent, made>>

------------------------------------------------------------------------------
(* set_rate: the rate is stored, the timeline discarded, the waiters woken. *)

Store ==
  /\ setting = "none" /\ changes < MaxChanges
  /\ \E r \in Rates \ {rate} : rate' = r
  /\ setting' = "stored"
  /\ UNCHANGED <<tat, tasks, now, changes, since, spent, made>>

Clear ==
  /\ setting = "stored" /\ setting' = "cleared" /\ tat' = 0
  /\ changes' = changes + 1 /\ since' = now /\ spent' = 0 /\ made' = {}
  /\ tasks' = [t \in Tasks |-> [tasks[t] EXCEPT !.old = tasks[t].at = "wait"]]
  /\ UNCHANGED <<rate, now>>

\* notify_waiters reaches those that have entered themselves.
NotifyWaiters ==
  /\ setting = "cleared" /\ setting' = "none"
  /\ tasks' = [t \in Tasks |-> [tasks[t] EXCEPT !.woken = @ \/ tasks[t].at \in {"read", "wait"}]]
  /\ UNCHANGED <<rate, tat, now, changes, since, spent, made>>

Tick == now < MaxTime /\ now' = now + 1
        /\ UNCHANGED <<rate, tat, setting, tasks, changes, since, spent, made>>

Next == \/ \E t \in Tasks : Acquire(t) \/ ReadRate(t) \/ Reserve(t) \/ Wake(t) \/ Again(t)
        \/ Store \/ Clear \/ NotifyWaiters \/ Tick
Spec == Init /\ [][Next]_vars

------------------------------------------------------------------------------
TypeOK ==
  /\ rate \in Rates /\ tat \in Nat /\ setting \in {"none", "stored", "cleared"}
  /\ now \in 0 .. MaxTime /\ changes \in 0 .. MaxChanges
  /\ \A t \in Tasks : tasks[t].at \in {"idle", "piece", "read", "wait"}

\* Over any stretch between two changes of the limit the bytes let through are those the limit
\* allows in that time, and one burst, however many callers share the limiter.
LargestRate == CHOOSE r \in Rates : \A s \in Rates : s <= r
WithinRate == spent <= (now - since) + Tolerance(LargestRate)

\* Once a new limit is set, the reservations made at the old one are gone: nobody waits for
\* bytes counted at a rate that no longer holds.
OldRateForgotten == setting = "none" => made \subseteq {rate}
=============================================================================
