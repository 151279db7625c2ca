---------------------------- MODULE SegmentTable ----------------------------
(***************************************************************************)
(* The operators of the engine's segment table (prism-engine,              *)
(* segmented/table.rs): how the file [0, Total) is cut into segments, who  *)
(* receives which segment, and how the receive frontier `pos` and the      *)
(* flushed frontier `written` of a segment move.                           *)
(*                                                                         *)
(* A table is a sequence of segments; an index is stable for the lifetime  *)
(* of the table, as in the code.  Every operator is one method of          *)
(* SegmentTable, whose single mutex makes it atomic.  Speed meters and the *)
(* display flags (retrying, failed) are left out: the meters only decide   *)
(* which segment is raced, and that choice is left open (Raceable).        *)
(***************************************************************************)
EXTENDS Integers, Sequences

CONSTANTS
  Workers,     \* Identifiers of the connection workers of one run.
  NoWorker,    \* The `None` of an owner or racer field.
  Total,       \* Size of the file.
  SplitAlign,  \* SPLIT_ALIGN: split points are multiples of it.
  MinSplit     \* min_split, at least SplitAlign (SegmentTable::new).

ASSUME WorkersAssumption == NoWorker \notin Workers
ASSUME SizesAssumption ==
  /\ Total \in Nat \ {0}
  /\ SplitAlign \in Nat \ {0}
  /\ MinSplit \in Nat
  /\ MinSplit >= SplitAlign

Bytes == 0 .. Total - 1
Offsets == 0 .. Total
Holders == Workers \cup {NoWorker}

\* The `extra` field: a flushed range beyond `written`, or none.
Ranges == [from : Offsets, to : Offsets]
NoRange == [from |-> 0, to |-> 0]

Segments == [start : Offsets, pos : Offsets, end : Offsets, reqEnd : Offsets,
             written : Offsets, extra : Ranges, owner : Holders, racer : Holders]

\* What a resume state records of a segment (SegmentState).
SegmentStates == [start : Offsets, pos : Offsets, end : Offsets]

Larger(a, b) == IF a >= b THEN a ELSE b
Smaller(a, b) == IF a <= b THEN a ELSE b

AlignDown(v) == (v \div SplitAlign) * SplitAlign
AlignUp(v) == AlignDown(v + SplitAlign - 1)

NewSegment(start, pos, end) ==
  [start |-> start, pos |-> pos, end |-> end, reqEnd |-> 0, written |-> pos,
   extra |-> NoRange, owner |-> NoWorker, racer |-> NoWorker]

Remaining(s) == s.end - s.pos
Done(s) == s.pos >= s.end
Holds(s, w) == s.owner = w \/ s.racer = w

FreshTable == << NewSegment(0, 0, Total) >>

FromStates(states) ==
  [i \in DOMAIN states |-> NewSegment(states[i].start, states[i].pos, states[i].end)]

AllDone(table) == \A i \in DOMAIN table : Done(table[i])

-----------------------------------------------------------------------------
(***************************************************************************)
(* acquire: an idle worker takes the largest unowned remainder, else       *)
(* splits the largest owned one, else races a slow tail.                   *)
(***************************************************************************)
Unowned(table) ==
  {i \in DOMAIN table : table[i].owner = NoWorker /\ ~Done(table[i])}

Splittable(table) ==
  {i \in DOMAIN table : /\ table[i].owner # NoWorker
                        /\ table[i].racer = NoWorker
                        /\ Remaining(table[i]) >= 2 * MinSplit}

\* The rates decide which of these, if any, is a slow tail.
Raceable(table) ==
  {i \in DOMAIN table : /\ table[i].owner # NoWorker
                        /\ table[i].racer = NoWorker
                        /\ ~Done(table[i])}

LargestOf(table, candidates) ==
  {i \in candidates : \A j \in candidates : Remaining(table[j]) <= Remaining(table[i])}

\* The unfinished segment with the lowest offset (first request of a resume).
FirstPending(table) ==
  {i \in DOMAIN table :
     /\ ~Done(table[i])
     /\ \A j \in DOMAIN table : ~Done(table[j]) => table[i].start <= table[j].start}

\* Behind the victim's request in flight if enough is left there, else the midpoint.
SplitPoint(s) ==
  LET mid == AlignDown(s.pos + (s.end - s.pos) \div 2)
      hint == AlignUp(s.reqEnd)
  IN  IF hint > mid /\ hint < s.end /\ s.end - hint >= MinSplit THEN hint ELSE mid

TakeOwner(table, i, w) == [table EXCEPT ![i].owner = w, ![i].reqEnd = 0]

TakeRacer(table, i, w) == [table EXCEPT ![i].racer = w]

\* Mutant: the victim keeps the end it had.
Split_KeepsEnd(table, i, w) ==
  LET at == SplitPoint(table[i])
  IN  Append(table, [NewSegment(at, at, table[i].end) EXCEPT !.owner = w])

Split(table, i, w) ==
  LET at == SplitPoint(table[i])
  IN  Append([table EXCEPT ![i].end = at],
             [NewSegment(at, at, table[i].end) EXCEPT !.owner = w])

-----------------------------------------------------------------------------
SetRequestEnd(table, i, w, reqEnd) ==
  IF table[i].owner = w THEN [table EXCEPT ![i].reqEnd = reqEnd] ELSE table

\* How many of the n bytes received by w at cursor belong to segment i.
Accepted(table, i, w, cursor, n) ==
  LET s == table[i]
  IN  IF ~Holds(s, w) \/ Done(s) \/ cursor >= s.end THEN 0
      ELSE Smaller(n, s.end - cursor)

\* Mutant: a finished segment keeps its racer.
Advance_KeepsRacer(table, i, to) ==
  LET pos == Larger(table[i].pos, to)
  IN  [table EXCEPT ![i].pos = pos, ![i].owner = IF pos >= table[i].end THEN NoWorker ELSE @]

\* Mutant: a racer that is behind takes the frontier back.
Advance_FromRacer(table, i, to) ==
  LET s == table[i]
  IN  [table EXCEPT ![i] =
         IF to >= s.end THEN [s EXCEPT !.pos = to, !.owner = NoWorker, !.racer = NoWorker]
         ELSE [s EXCEPT !.pos = to]]

\* advance, for accepted > 0: the frontier moves up to `to`; a finished segment has no holder.
Advance(table, i, to) ==
  LET s == table[i]
      pos == Larger(s.pos, to)
  IN  [table EXCEPT ![i] =
         IF pos >= s.end
         THEN [s EXCEPT !.pos = pos, !.owner = NoWorker, !.racer = NoWorker]
         ELSE [s EXCEPT !.pos = pos]]

\* release: a racer is promoted to owner.
Release(table, i, w) ==
  LET s == table[i]
  IN  [table EXCEPT ![i] =
         IF s.owner = w
         THEN [s EXCEPT !.owner = s.racer, !.racer = NoWorker, !.reqEnd = 0]
         ELSE IF s.racer = w THEN [s EXCEPT !.racer = NoWorker]
         ELSE s]

-----------------------------------------------------------------------------
(***************************************************************************)
(* on_flushed: [from, to) of the segment has reached the operating system. *)
(***************************************************************************)
Overlaps(r, from, to) == from <= r.to /\ to >= r.from

ExtraAfter(s, from, to) ==
  IF s.extra = NoRange THEN [from |-> from, to |-> to]
  ELSE IF Overlaps(s.extra, from, to)
       THEN [from |-> Smaller(s.extra.from, from), to |-> Larger(s.extra.to, to)]
  ELSE IF s.extra.from < from THEN s.extra
  ELSE [from |-> from, to |-> to]

\* `extra` joins the flushed prefix once contiguous with it.
MergeExtra(s) ==
  IF s.extra # NoRange /\ s.extra.from <= s.written
  THEN [s EXCEPT !.written = Larger(s.written, s.extra.to), !.extra = NoRange]
  ELSE s

ClampWritten(s) == [s EXCEPT !.written = Smaller(s.written, Larger(s.end, s.start))]

\* Mutant: flushed bytes ahead of a gap count as written.
FlushedSegment_OverGap(s, from, to) == ClampWritten([s EXCEPT !.written = Larger(@, to)])

FlushedSegment(s, from, to) ==
  ClampWritten(MergeExtra(
    IF from <= s.written
    THEN [s EXCEPT !.written = Larger(s.written, to)]
    ELSE [s EXCEPT !.extra = ExtraAfter(s, from, to)]))

OnFlushed(table, i, from, to) == [table EXCEPT ![i] = FlushedSegment(table[i], from, to)]

\* Mutant: the receive frontier is reported instead of the written one.
DurableState_Received(s) == [start |-> s.start, pos |-> s.pos, end |-> s.end]

DurableState(s) ==
  [start |-> s.start, pos |-> Larger(Smaller(s.written, s.end), s.start), end |-> s.end]

DurableStates(table) == [i \in DOMAIN table |-> DurableState(table[i])]

\* The bytes a resume state claims to be on disk.
Claimed(states) ==
  UNION {states[i].start .. states[i].pos - 1 : i \in DOMAIN states}

\* ResumeState::validate: the segments partition the file, each with its frontier inside.
ValidStates(states) ==
  /\ \A i \in DOMAIN states :
       states[i].start <= states[i].pos /\ states[i].pos <= states[i].end
  /\ \A b \in Bytes : \E i \in DOMAIN states : states[i].start <= b /\ b < states[i].end
  /\ \A i, j \in DOMAIN states :
       i # j => states[i].end <= states[j].start \/ states[j].end <= states[i].start
=============================================================================
