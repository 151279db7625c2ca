----------------------------- MODULE WriteBudget -----------------------------
(***************************************************************************)
(* The memory budget that the writer threads of all downloads share        *)
(* (prism-engine, segmented/writer.rs and Engine::update_config).  One     *)
(* worker per download stands for all of its workers: what it reserves     *)
(* goes through its channel into its buffer and is returned by the write.  *)
(***************************************************************************)
EXTENDS Naturals, Sequences, SequencesExt, Functions

CONSTANTS
  Downloads,
  Budgets,       \* values of EngineConfig::memory_budget; the first one is FirstBudget
  FirstBudget,
  Sizes,         \* sizes of a chunk, none above any budget (config.rs clamps it to 4 MiB)
  WriteBuffer,
  MaxChannel,    \* bound: chunks of a download the writer has not taken yet
  MaxUpdates     \* bound: configuration changes

VARIABLES
  free,      \* Semaphore::available_permits
  queue,     \* downloads whose reservation waits, in order
  wanted,    \* size of the chunk the worker reserves for or holds, 0 for none
  got,       \* permits it has of them
  channel,   \* chunks handed over
  buffer,    \* Pending, its bytes and so its permits
  phase,     \* "new", "run", "failed" (WriterThread::failed), "over"
  total,     \* WriterThread::budget_total, the budget when the writer was spawned
  budget,    \* EngineInner::budget_total
  updates

permits == <<free, queue, got>>
vars == <<permits, wanted, channel, buffer, phase, total, budget, updates>>

Least(a, b) == IF a <= b THEN a ELSE b
HeldBy(d) == got[d] + FoldLeft(+, 0, channel[d]) + buffer[d]
Waiting(d) == got[d] < wanted[d]

(* The semaphore is fair: permits that are returned go to the reservation  *)
(* at the head of the queue, in part if they are too few.                  *)
Served(acc, d) ==
  LET k == Least(acc.free, wanted[d] - acc.got[d])
      g == [acc.got EXCEPT ![d] = @ + k]
  IN [free |-> acc.free - k, got |-> g,
      queue |-> IF g[d] < wanted[d] THEN Append(acc.queue, d) ELSE acc.queue]
Give(n, g, q) == FoldLeft(Served, [free |-> free + n, got |-> g, queue |-> <<>>], q)
Put(r) == free' = r.free /\ got' = r.got /\ queue' = r.queue

Init ==
  /\ free = FirstBudget /\ budget = FirstBudget /\ queue = <<>>
  /\ wanted = [d \in Downloads |-> 0] /\ got = [d \in Downloads |-> 0]
  /\ channel = [d \in Downloads |-> <<>>] /\ buffer = [d \in Downloads |-> 0]
  /\ phase = [d \in Downloads |-> "new"] /\ total = [d \in Downloads |-> 0]
  /\ updates = 0

Spawn(d) ==
  /\ phase[d] = "new"
  /\ phase' = [phase EXCEPT ![d] = "run"]
  /\ total' = [total EXCEPT ![d] = budget]
  /\ UNCHANGED <<permits, wanted, channel, buffer, budget, updates>>

Reserve(d, size) ==
  LET n == Least(size, total[d])
      k == Least(free, n)
  IN /\ phase[d] \in {"run", "failed"} /\ wanted[d] = 0 /\ Len(channel[d]) < MaxChannel
     /\ wanted' = [wanted EXCEPT ![d] = n]
     /\ got' = [got EXCEPT ![d] = k]
     /\ free' = free - k
     /\ queue' = IF k < n THEN Append(queue, d) ELSE queue
     /\ UNCHANGED <<channel, buffer, phase, total, budget, updates>>

(* submit: a writer that failed refuses the chunk, whose permit is dropped *)
(* and whose worker ends.                                                  *)
Submit(d) ==
  /\ wanted[d] > 0 /\ ~Waiting(d)
  /\ wanted' = [wanted EXCEPT ![d] = 0]
  /\ IF phase[d] = "failed"
     THEN /\ Put(Give(got[d], [got EXCEPT ![d] = 0], queue))
          /\ phase' = [phase EXCEPT ![d] = "over"]
          /\ UNCHANGED channel
     ELSE /\ channel' = [channel EXCEPT ![d] = Append(@, got[d])]
          /\ got' = [got EXCEPT ![d] = 0]
          /\ UNCHANGED <<free, queue, phase>>
  /\ UNCHANGED <<buffer, total, budget, updates>>

(* The select around reserve drops it, with the permits it has.            *)
Stop(d) ==
  /\ phase[d] \in {"run", "failed"}
  /\ phase' = [phase EXCEPT ![d] = "over"]
  /\ wanted' = [wanted EXCEPT ![d] = 0]
  /\ Put(Give(got[d], [got EXCEPT ![d] = 0], SelectSeq(queue, LAMBDA e : e /= d)))
  /\ UNCHANGED <<channel, buffer, total, budget, updates>>

Failed(d) == phase' = [phase EXCEPT ![d] = IF @ = "run" THEN "failed" ELSE @]

(* add: what is written and what stays in the buffer.                      *)
Added(d, n, contiguous) ==
  CASE ~contiguous -> [written |-> buffer[d], kept |-> n]
    [] contiguous /\ buffer[d] > 0 /\ buffer[d] + n >= WriteBuffer ->
         [written |-> buffer[d] + n, kept |-> 0]
    [] OTHER -> [written |-> 0, kept |-> buffer[d] + n]
UnderPressure(d, left) == left < total[d] \div 4

(* The writer takes a chunk: it coalesces it, writes what is full or not   *)
(* contiguous and, when the whole engine is short of memory, everything.   *)
(* After a failure a chunk is dropped with its permit.                     *)
TakeChunk(d) ==
  /\ channel[d] /= <<>>
  /\ channel' = [channel EXCEPT ![d] = Tail(@)]
  /\ \/ /\ phase[d] = "failed"
        /\ Put(Give(Head(channel[d]), got, queue))
        /\ UNCHANGED <<buffer, phase>>
     \/ /\ phase[d] /= "failed"
        /\ \E contiguous, fails \in BOOLEAN :
             LET a == Added(d, Head(channel[d]), contiguous)
                 r == Give(a.written, got, queue)
                 all == UnderPressure(d, r.free)
             IN /\ IF all THEN Put(Give(a.written + a.kept, got, queue)) ELSE Put(r)
                /\ buffer' = [buffer EXCEPT ![d] = IF all THEN 0 ELSE a.kept]
                /\ IF fails /\ (a.written > 0 \/ all) THEN Failed(d) ELSE UNCHANGED phase
  /\ UNCHANGED <<wanted, total, budget, updates>>

\* Mutant: a writer whose own worker waits for memory does not flush.
IdleDue_WhileReserving(d) == channel[d] = <<>> /\ buffer[d] > 0 /\ wanted[d] = 0
IdleDue(d) == channel[d] = <<>> /\ buffer[d] > 0
(* IDLE_FLUSH, a flush, a checkpoint or the closing of the writer.         *)
FlushAll(d) ==
  /\ IdleDue(d)
  /\ buffer' = [buffer EXCEPT ![d] = 0]
  /\ Put(Give(buffer[d], got, queue))
  /\ Failed(d) \/ UNCHANGED phase
  /\ UNCHANGED <<wanted, channel, total, budget, updates>>

\* Mutant: the new budget counts whether or not its permits could be taken back.
Shrunk_AtOnce(new) == [free |-> IF free > budget - new THEN free - (budget - new) ELSE 0, budget |-> new]
Shrunk(new) ==
  LET k == Least(free, budget - new) IN [free |-> free - k, budget |-> budget - k]

UpdateConfig(new) ==
  /\ updates < MaxUpdates
  /\ updates' = updates + 1
  /\ \/ new > budget /\ Put(Give(new - budget, got, queue)) /\ budget' = new
     \/ /\ new < budget
        /\ free' = Shrunk(new).free /\ budget' = Shrunk(new).budget
        /\ UNCHANGED <<got, queue>>
  /\ UNCHANGED <<wanted, channel, buffer, phase, total>>

Next ==
  \/ \E d \in Downloads :
       Spawn(d) \/ (\E n \in Sizes : Reserve(d, n)) \/ Submit(d) \/ Stop(d)
       \/ TakeChunk(d) \/ FlushAll(d)
  \/ \E b \in Budgets : UpdateConfig(b)

Spec == Init /\ [][Next]_vars

(* A worker submits what it reserved, and the writer threads run.          *)
Fairness ==
  \A d \in Downloads : WF_vars(Submit(d)) /\ WF_vars(TakeChunk(d)) /\ WF_vars(FlushAll(d))
FairSpec == Spec /\ Fairness
-----------------------------------------------------------------------------
(* No permit is lost or invented: what the downloads hold and what is free *)
(* is the budget the next writer is spawned with, across write errors,     *)
(* stops, reservations served in part and changes of the budget.           *)
BudgetConserved ==
  free + FoldFunction(+, 0, [d \in Downloads |-> HeldBy(d)]) = budget

(* A worker that waits for memory gets it or is stopped, although the      *)
(* memory is in the buffers of downloads that receive nothing.             *)
MemoryComes == \A d \in Downloads : Waiting(d) ~> ~Waiting(d)
==============================================================================
