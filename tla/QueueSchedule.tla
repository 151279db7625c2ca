--------------------------- MODULE QueueSchedule ---------------------------
(***************************************************************************)
(* Scheduled queues (prism-core, scheduler.rs and manager/queues.rs): the  *)
(* one-second tick that starts and stops queues when the clock crossed a   *)
(* moment of their schedule, the end of a queue, and what the computer     *)
(* does then.                                                              *)
(*                                                                         *)
(* The clock is the computer's local time: it may jump ahead (the computer *)
(* slept) and back (the end of summer time).  Times count from a midnight; *)
(* a day and a week are shorter than real ones.  What a queue admits is    *)
(* DownloadManager; here a queue has downloads to do or none.              *)
(***************************************************************************)
EXTENDS Integers, FiniteSets, FiniteSetsExt

CONSTANTS
  Queues,
  Schedule,   \* Per queue: start, stop (a time of the day or Nil), days, once (a day or Nil), power.
  DayLength,
  WeekLength,
  CatchUp,    \* Missed moments older than this are skipped.
  Nil,
  Horizon,    \* Bound: the last time of the clock.
  Leaps,      \* How far the clock may move between two ticks, negative ones included.
  MaxBack,    \* Bound: moves of the clock backwards.
  MaxWork,    \* Bound: times a queue gets something to do.
  MaxPower    \* Bound: power actions begun.

VARIABLES
  clock,
  seen,      \* last_schedule_tick.
  enabled,   \* Queues whose schedule is enabled.
  running,   \* Queues that run.
  busy,      \* queue_was_busy.
  work,      \* Queues with a download that waits or is at work.
  pending,   \* Power actions in their grace period; their tokens.
  slot,      \* post_action_cancel: the token a cancellation reaches, 0 for none.
  refused,   \* History: actions that were pending when the user cancelled.
  done,      \* Actions that were carried out.
  fired,     \* History: how often each start moment was fired.
  used

vars == << clock, seen, enabled, running, busy, work, pending, slot, refused, done, fired, used >>

Days == 0 .. Horizon \div DayLength
Tokens == 1 .. MaxPower

\* runs_on: a single date, else the days of the week, all of them when none is chosen.
RunsOn(s, day) ==
  IF s.once # Nil THEN day = s.once
  ELSE s.days = {} \/ (day % WeekLength) \in s.days

Moment(day, time) == day * DayLength + time

\* Mutant: the window's lower end counts too.
After_OrAt(m, t) == m >= t
After(m, t) == m > t

\* due: whether a moment of this time of day lies in (prev, now].
Crossed(q, time, prev, now) ==
  /\ q \in enabled /\ prev < now /\ time # Nil
  /\ LET from == IF prev > now - CatchUp THEN prev ELSE now - CatchUp
     IN \E day \in Days :
          /\ from \div DayLength <= day /\ day <= now \div DayLength
          /\ After(Moment(day, time), from) /\ Moment(day, time) <= now
          /\ RunsOn(Schedule[q], day)

\* next_start, for wake timers (the horizon stands for its two weeks).
NextStart(q, now) ==
  LET moments == {Moment(day, Schedule[q].start) : day \in
                    {d \in Days : d >= now \div DayLength /\ RunsOn(Schedule[q], d)}}
      ahead == {m \in moments : m > now}
  IN IF q \notin enabled \/ Schedule[q].start = Nil \/ ahead = {} THEN Nil ELSE Min(ahead)

\* Every start moment a queue has, by definition of its schedule.
StartMoments(q) ==
  {m \in 0 .. Horizon + DayLength : /\ Schedule[q].start # Nil /\ m % DayLength = Schedule[q].start
                        /\ RunsOn(Schedule[q], m \div DayLength)}

TypeOK ==
  /\ clock \in 0 .. Horizon /\ seen \in 0 .. Horizon
  /\ enabled \subseteq Queues /\ running \subseteq Queues /\ busy \subseteq Queues
  /\ work \subseteq Queues
  /\ pending \subseteq Tokens /\ slot \in 0 .. MaxPower
  /\ refused \subseteq Tokens /\ done \subseteq Tokens
  /\ fired \in [Queues -> [0 .. Horizon -> 0 .. 3]]

Init ==
  /\ clock = 0 /\ seen = 0
  /\ enabled = Queues /\ running = {} /\ busy = {} /\ work = {}
  /\ pending = {} /\ slot = 0 /\ refused = {} /\ done = {}
  /\ fired = [q \in Queues |-> [m \in 0 .. Horizon |-> 0]]
  /\ used = [back |-> 0, work |-> 0, power |-> 0]

-----------------------------------------------------------------------------
\* The clock moves between two ticks.
Pass ==
  /\ clock = seen
  /\ \E d \in Leaps :
       /\ d # 0 /\ clock + d \in 0 .. Horizon
       /\ d < 0 => used.back < MaxBack
       /\ clock' = clock + d
       /\ used' = [used EXCEPT !.back = @ + (IF d < 0 THEN 1 ELSE 0)]
  /\ UNCHANGED << seen, enabled, running, busy, work, pending, slot, refused, done, fired >>

\* queue_tick, first half: schedules.  A queue that starts may have something to do.
Tick ==
  /\ clock # seen
  /\ LET due(q, time) == Crossed(q, time, seen, clock)
         starts == {q \in Queues \ running : due(q, Schedule[q].start)}
         stops == {q \in running : due(q, Schedule[q].stop)}
     IN /\ running' = (running \cup starts) \ stops
        /\ busy' = (busy \cup starts) \ stops
        /\ fired' = [q \in Queues |-> [m \in 0 .. Horizon |->
             fired[q][m] +
               (IF /\ due(q, Schedule[q].start) /\ m \in StartMoments(q) /\ seen < m
                   /\ m <= clock /\ m > clock - CatchUp
                THEN 1 ELSE 0)]]
  /\ seen' = clock
  /\ UNCHANGED << clock, enabled, work, pending, slot, refused, done, used >>

StartQueue(q) ==
  /\ q \notin running
  /\ running' = running \cup {q} /\ busy' = busy \cup {q}
  /\ UNCHANGED << clock, seen, enabled, work, pending, slot, refused, done, fired, used >>

GetsWork(q) ==
  /\ q \in running \ work /\ used.work < MaxWork
  /\ work' = work \cup {q}
  /\ used' = [used EXCEPT !.work = @ + 1]
  /\ UNCHANGED << clock, seen, enabled, running, busy, pending, slot, refused, done, fired >>

WorkEnds(q) ==
  /\ q \in work
  /\ work' = work \ {q}
  /\ UNCHANGED << clock, seen, enabled, running, busy, pending, slot, refused, done, fired, used >>

\* detect_finished_queues: a busy queue with nothing left ends, with its power action; a
\* queue with a single date is disabled.
Finish(q) ==
  /\ q \in busy \ work
  /\ busy' = busy \ {q} /\ running' = running \ {q}
  /\ enabled' = IF Schedule[q].once # Nil THEN enabled \ {q} ELSE enabled
  /\ IF Schedule[q].power
     THEN /\ used.power < MaxPower
          /\ used' = [used EXCEPT !.power = @ + 1]
          /\ pending' = pending \cup {used.power + 1}
          /\ slot' = used.power + 1
     ELSE UNCHANGED << used, pending, slot >>
  /\ UNCHANGED << clock, seen, work, refused, done, fired >>

\* The grace period is over.
CarryOut(t) ==
  /\ t \in pending
  /\ pending' = pending \ {t} /\ done' = done \cup {t}
  /\ UNCHANGED << clock, seen, enabled, running, busy, work, slot, refused, fired, used >>

\* cancel_post_action.
Cancel ==
  /\ slot # 0
  /\ pending' = pending \ {slot}
  /\ refused' = refused \cup pending
  /\ slot' = 0
  /\ UNCHANGED << clock, seen, enabled, running, busy, work, done, fired, used >>

Next ==
  \/ Pass \/ Tick \/ Cancel
  \/ \E q \in Queues : StartQueue(q) \/ GetsWork(q) \/ WorkEnds(q) \/ Finish(q)
  \/ \E t \in Tokens : CarryOut(t)

Spec == Init /\ [][Next]_vars

-----------------------------------------------------------------------------
\* Irregular ticks, sleep and midnight lose no start moment younger than CATCH_UP and invent
\* none: a queue that does not run is started by a tick exactly when such a moment lies
\* between the ticks, and the next start shown is the first moment ahead (scheduler.rs, due
\* and next_start).
MomentsStep ==
  seen' # seen =>
    /\ \A q \in Queues \ running :
         q \in running' <=>
           /\ q \in enabled
           /\ \E m \in StartMoments(q) : seen < m /\ m <= clock /\ clock - m < CatchUp
    /\ \A q \in enabled : NextStart(q, clock) # Nil =>
         /\ NextStart(q, clock) \in StartMoments(q)
         /\ \A m \in StartMoments(q) : m > clock => NextStart(q, clock) <= m
MomentsFire == [][MomentsStep]_vars

\* Stated by scheduler.rs, and not kept when the clock is set back: no moment fires twice.
FiredOnce == \A q \in Queues : \A m \in 0 .. Horizon : fired[q][m] <= 1

\* Stated by run_post_action, and not kept with two actions in their grace period: what the
\* user cancels is not carried out.
CancelledIsNotDone == refused \cap done = {}
=============================================================================
