----------------------------- MODULE QueueOrder -----------------------------
(***************************************************************************)
(* The order of a queue (prism-core, manager/queues.rs): items are put at  *)
(* the end of a queue, moved up and down in it, trashed and restored, and  *)
(* leave it when the queue is deleted.  Positions are numbers in the rows; *)
(* equal ones may come about and then any order of theirs is used.         *)
(***************************************************************************)
EXTENDS Integers, Sequences, FiniteSets, SequencesExt, FiniteSetsExt

CONSTANTS
  Items,
  Queues,
  Nil,
  Deltas,   \* Steps of a move; large ones go to an edge.
  MaxSteps  \* Bound: commands.

VARIABLES
  queue,    \* The queue of an item, or Nil.
  position,
  trashed,
  exists,   \* Queues that exist.
  moved,    \* History: the last move, its list before and after.
  steps

vars == << queue, position, trashed, exists, moved, steps >>

NoMove == [ids |-> {}, delta |-> 0, before |-> << >>, after |-> << >>]

TypeOK ==
  /\ queue \in [Items -> Queues \cup {Nil}]
  /\ \A i \in Items : position[i] \in Nat
  /\ trashed \subseteq Items /\ exists \subseteq Queues
  /\ \A i \in Items : queue[i] # Nil => queue[i] \in exists
  /\ steps \in 0 .. MaxSteps

Init ==
  /\ queue = [i \in Items |-> Nil]
  /\ position = [i \in Items |-> 0]
  /\ trashed = {} /\ exists = Queues /\ moved = NoMove /\ steps = 0

Step == steps < MaxSteps /\ steps' = steps + 1

\* next_position: after everything in the queue, the trashed included.
NextPosition(q) == Max({position[i] : i \in {j \in Items : queue[j] = q}} \cup {0}) + 1

\* assign_to_queue, appended in the given order.
Assign(ids, q) ==
  /\ Step
  /\ LET first == NextPosition(q)
         at(i) == CHOOSE k \in DOMAIN ids : ids[k] = i
     IN /\ position' = [i \in Items |-> IF i \in Range(ids) THEN first + at(i) - 1
                                        ELSE position[i]]
        /\ queue' = [i \in Items |-> IF i \in Range(ids) THEN q ELSE queue[i]]
  /\ moved' = NoMove
  /\ UNCHANGED << trashed, exists >>

\* The items of a queue by position; those with equal positions in any order.
Sorted(q) ==
  {list \in SetToSeqs({i \in Items : queue[i] = q /\ i \notin trashed}) :
     \A k, l \in DOMAIN list : k < l => position[list[k]] <= position[list[l]]}

Clamp(n, low, high) == IF n < low THEN low ELSE IF n > high THEN high ELSE n

\* Mutant: the place is counted from the last moved item.
MovePlace_Last(list, rest, ids, delta) ==
  Clamp(SelectLastInSeq(list, LAMBDA i : i \in ids) - 1 + delta, 0, Len(rest))
MovePlace(list, rest, ids, delta) ==
  Clamp(SelectInSeq(list, LAMBDA i : i \in ids) - 1 + delta, 0, Len(rest))

\* move_in_queue: the moved items stay together, in the order they had.
Reordered(list, ids, delta) ==
  LET rest == SelectSeq(list, LAMBDA i : i \notin ids)
      moving == SelectSeq(list, LAMBDA i : i \in ids)
      at == MovePlace(list, rest, ids, delta)
  IN SubSeq(rest, 1, at) \o moving \o SubSeq(rest, at + 1, Len(rest))

Move(ids, delta) ==
  /\ Step
  /\ \E i \in ids : \E list \in Sorted(queue[i]) :
       LET new == Reordered(list, ids, delta) IN
         /\ ids \cap Range(list) # {}
         /\ position' = [j \in Items |->
              IF j \in Range(list) THEN SelectInSeq(new, LAMBDA x : x = j)
              ELSE position[j]]
         /\ moved' = [ids |-> ids, delta |-> delta, before |-> list, after |-> new]
  /\ UNCHANGED << queue, trashed, exists >>

Trash(i) ==
  /\ Step
  /\ trashed' = IF i \in trashed THEN trashed \ {i} ELSE trashed \cup {i}
  /\ moved' = NoMove
  /\ UNCHANGED << queue, position, exists >>

\* delete_queue: its items belong to no queue; the main queue stays.
DeleteQueue(q) ==
  /\ Step /\ q \in exists
  /\ exists' = exists \ {q}
  /\ queue' = [i \in Items |-> IF queue[i] = q THEN Nil ELSE queue[i]]
  /\ moved' = NoMove
  /\ UNCHANGED << position, trashed >>

Next ==
  \/ \E ids \in UNION {SetToSeqs(S) : S \in SUBSET Items \ {{}}}, q \in exists : Assign(ids, q)
  \/ \E ids \in SUBSET Items \ {{}}, delta \in Deltas : Move(ids, delta)
  \/ \E i \in Items : Trash(i)
  \/ \E q \in Queues : DeleteQueue(q)

Spec == Init /\ [][Next]_vars

-----------------------------------------------------------------------------
\* A move loses no item and changes the order only between what it moves and the rest: the
\* others keep theirs, the moved ones theirs, side by side; the first of them goes as far as
\* asked or to the edge.  Whatever positions trash, restore and assignments left behind.
MoveKeepsOrder ==
  LET others == SelectSeq(moved.before, LAMBDA i : i \notin moved.ids)
      mine == SelectSeq(moved.before, LAMBDA i : i \in moved.ids)
      was == SelectInSeq(moved.before, LAMBDA i : i \in moved.ids)
      is == SelectInSeq(moved.after, LAMBDA i : i \in moved.ids)
  IN moved # NoMove =>
       /\ SelectSeq(moved.after, LAMBDA i : i \notin moved.ids) = others
       /\ SubSeq(moved.after, is, is + Len(mine) - 1) = mine
       /\ moved.after \in Sorted(queue[Head(moved.after)])
       /\ \/ is = was + moved.delta
          \/ moved.delta < 0 /\ is = 1
          \/ moved.delta > 0 /\ is = Len(others) + 1
=============================================================================
