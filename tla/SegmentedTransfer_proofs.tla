---------------------- MODULE SegmentedTransfer_proofs ----------------------
(***************************************************************************)
(* What holds of a segmented download for every size of file, number of    *)
(* workers and bound, also when writes fail or the part file vanishes:     *)
(* every variable keeps its type and a worker's assignment is a segment of *)
(* the table; the segments of a run and every state that is or may be      *)
(* saved partition the file, and no progress is taken back; a segment is   *)
(* held by workers at work only.  What the operators of the segment table  *)
(* guarantee comes first.  Durability_proofs goes on from here to what is  *)
(* on disk.                                                                *)
(***************************************************************************)
EXTENDS SegmentedTransfer, TLAPS

-----------------------------------------------------------------------------
(***************************************************************************)
(* Where a segment is split.                                               *)
(***************************************************************************)
\* Rounding down to the alignment loses less than one unit (align_down).
LEMMA AlignDownBounds ==
  ASSUME NEW v \in Nat
  PROVE  /\ AlignDown(v) \in Nat
         /\ AlignDown(v) <= v
         /\ v < AlignDown(v) + SplitAlign
BY SizesAssumption, SMTT(30) DEF AlignDown

\* Rounding up never goes below the value (align_up).
LEMMA AlignUpBounds ==
  ASSUME NEW v \in Nat
  PROVE  AlignUp(v) \in Nat /\ v <= AlignUp(v)
<1>1. v + SplitAlign - 1 \in Nat
  BY SizesAssumption
<1>2. QED
  BY <1>1, AlignDownBounds, SizesAssumption DEF AlignUp

\* acquire: a segment chosen for a split is cut strictly inside its unfetched part, and the
\* new piece is never smaller than min_split; the code's `at > pos && at < end` cannot fail.
THEOREM SplitPointInside ==
  ASSUME NEW s \in Segments, Remaining(s) >= 2 * MinSplit
  PROVE  /\ SplitPoint(s) \in Offsets
         /\ s.pos < SplitPoint(s)
         /\ SplitPoint(s) < s.end
         /\ s.end - SplitPoint(s) >= MinSplit
<1> DEFINE half == (s.end - s.pos) \div 2
           mid == AlignDown(s.pos + half)
           hint == AlignUp(s.reqEnd)
<1>1. s.pos \in Nat /\ s.end \in Nat /\ s.reqEnd \in Nat /\ s.end <= Total
  BY SizesAssumption DEF Segments, Offsets
<1>2. s.end - s.pos >= 2 * MinSplit
  BY DEF Remaining
<1>3. /\ half \in Nat
      /\ half >= MinSplit
      /\ s.end - s.pos - half >= MinSplit
  BY <1>1, <1>2, SizesAssumption
<1> HIDE DEF half
<1>4. s.pos + half \in Nat
  BY <1>1, <1>3
<1>5. mid \in Nat /\ mid <= s.pos + half /\ s.pos + half < mid + SplitAlign
  BY <1>4, AlignDownBounds
<1>6. hint \in Nat
  BY <1>1, AlignUpBounds
<1>7. SplitPoint(s) = IF hint > mid /\ hint < s.end /\ s.end - hint >= MinSplit THEN hint ELSE mid
  BY DEF SplitPoint, half
<1> HIDE DEF mid, hint
<1>8. s.pos < mid /\ mid < s.end /\ s.end - mid >= MinSplit
  BY <1>1, <1>3, <1>5, SizesAssumption
<1>9. QED
  BY <1>1, <1>5, <1>6, <1>7, <1>8, SizesAssumption DEF Offsets

-----------------------------------------------------------------------------
(***************************************************************************)
(* Every operation returns a table of segments.                            *)
(***************************************************************************)
\* Changing one element of a sequence.
LEMMA ReplaceOne ==
  ASSUME NEW S, NEW q \in Seq(S), NEW i, NEW x, i \in DOMAIN q => x \in S
  PROVE  /\ [q EXCEPT ![i] = x] \in Seq(S)
         /\ DOMAIN [q EXCEPT ![i] = x] = DOMAIN q
         /\ Len([q EXCEPT ![i] = x]) = Len(q)
         /\ \A j \in DOMAIN q : [q EXCEPT ![i] = x][j] = IF j = i THEN x ELSE q[j]
<1>1. /\ q \in [1 .. Len(q) -> S] /\ Len(q) \in Nat /\ DOMAIN q = 1 .. Len(q)
  OBVIOUS
<1> DEFINE r == [q EXCEPT ![i] = x]
<1>2. r \in [1 .. Len(q) -> S]
  BY <1>1
<1>3. r \in Seq(S) /\ Len(r) = Len(q)
  BY <1>1, <1>2
<1>4. QED
  BY <1>1, <1>2, <1>3

\* A segment stays one when a field gets another value of the field's type.
LEMMA ChangeSegment ==
  ASSUME NEW s \in Segments
  PROVE  /\ \A v \in Holders : /\ [s EXCEPT !.owner = v] \in Segments
                               /\ [s EXCEPT !.racer = v] \in Segments
         /\ \A v \in Offsets : /\ [s EXCEPT !.pos = v] \in Segments
                               /\ [s EXCEPT !.end = v] \in Segments
                               /\ [s EXCEPT !.reqEnd = v] \in Segments
                               /\ [s EXCEPT !.written = v] \in Segments
         /\ \A v \in Ranges : [s EXCEPT !.extra = v] \in Segments
BY DEF Segments

\* A new piece is a segment.
LEMMA NewSegmentType ==
  ASSUME NEW start \in Offsets, NEW pos \in Offsets, NEW end \in Offsets
  PROVE  NewSegment(start, pos, end) \in Segments
BY SizesAssumption DEF NewSegment, Segments, Offsets, Ranges, NoRange, Holders

\* SegmentTable::new returns a table.
LEMMA FreshTableType == FreshTable \in Seq(Segments)
<1>1. 0 \in Offsets /\ Total \in Offsets
  BY SizesAssumption DEF Offsets
<1>2. QED
  BY <1>1, NewSegmentType DEF FreshTable

\* from_states returns a table with the states' indexes.
LEMMA FromStatesType ==
  ASSUME NEW states \in Seq(SegmentStates)
  PROVE  /\ FromStates(states) \in Seq(Segments)
         /\ DOMAIN FromStates(states) = DOMAIN states
<1>1. /\ states \in [1 .. Len(states) -> SegmentStates]
      /\ Len(states) \in Nat /\ DOMAIN states = 1 .. Len(states)
  OBVIOUS
<1>2. ASSUME NEW i \in DOMAIN states
      PROVE  NewSegment(states[i].start, states[i].pos, states[i].end) \in Segments
  BY <1>1, <1>2, NewSegmentType DEF SegmentStates
<1>3. FromStates(states) \in [1 .. Len(states) -> Segments]
  BY <1>1, <1>2 DEF FromStates
<1>4. QED
  BY <1>1, <1>3

\* Taking an unowned segment returns a table.
LEMMA TakeOwnerType ==
  ASSUME NEW table \in Seq(Segments), NEW i \in DOMAIN table, NEW w \in Workers
  PROVE  TakeOwner(table, i, w) \in Seq(Segments) /\ DOMAIN TakeOwner(table, i, w) = DOMAIN table
<1> DEFINE x == [table[i] EXCEPT !.owner = w, !.reqEnd = 0]
<1>1. table[i] \in Segments
  OBVIOUS
<1>2. x \in Segments
  <2>1. w \in Holders /\ 0 \in Offsets
    BY SizesAssumption DEF Holders, Offsets
  <2>2. [table[i] EXCEPT !.owner = w] \in Segments
    BY <1>1, <2>1, ChangeSegment
  <2>3. QED
    BY <2>1, <2>2, ChangeSegment
<1>3. TakeOwner(table, i, w) = [table EXCEPT ![i] = x]
  BY DEF TakeOwner
<1> HIDE DEF x
<1>4. QED
  BY <1>2, <1>3, ReplaceOne

\* Racing a segment returns a table.
LEMMA TakeRacerType ==
  ASSUME NEW table \in Seq(Segments), NEW i \in DOMAIN table, NEW w \in Workers
  PROVE  TakeRacer(table, i, w) \in Seq(Segments) /\ DOMAIN TakeRacer(table, i, w) = DOMAIN table
<1> DEFINE x == [table[i] EXCEPT !.racer = w]
<1>1. table[i] \in Segments
  OBVIOUS
<1>2. x \in Segments
  BY <1>1, ChangeSegment DEF Holders
<1>3. TakeRacer(table, i, w) = [table EXCEPT ![i] = x]
  BY DEF TakeRacer
<1> HIDE DEF x
<1>4. QED
  BY <1>2, <1>3, ReplaceOne

\* A split appends one piece and shrinks the victim; no index moves.
LEMMA SplitType ==
  ASSUME NEW table \in Seq(Segments), NEW i \in Splittable(table), NEW w \in Workers
  PROVE  /\ Split(table, i, w) \in Seq(Segments)
         /\ Len(Split(table, i, w)) = Len(table) + 1
         /\ DOMAIN Split(table, i, w) = 1 .. Len(table) + 1
         /\ Split(table, i, w)[Len(table) + 1]
              = [NewSegment(SplitPoint(table[i]), SplitPoint(table[i]), table[i].end)
                   EXCEPT !.owner = w]
         /\ \A j \in DOMAIN table :
              Split(table, i, w)[j] = IF j = i THEN [table[i] EXCEPT !.end = SplitPoint(table[i])]
                                      ELSE table[j]
<1> DEFINE at == SplitPoint(table[i])
           x == [table[i] EXCEPT !.end = at]
           piece == [NewSegment(at, at, table[i].end) EXCEPT !.owner = w]
           shrunk == [table EXCEPT ![i] = x]
<1>1. i \in DOMAIN table /\ table[i] \in Segments /\ Remaining(table[i]) >= 2 * MinSplit
  BY DEF Splittable
<1>2. at \in Offsets
  BY <1>1, SplitPointInside
<1> HIDE DEF at
<1>3. x \in Segments
  BY <1>1, <1>2, ChangeSegment
<1>4. NewSegment(at, at, table[i].end) \in Segments
  BY <1>1, <1>2, NewSegmentType DEF Segments
<1>5. piece \in Segments
  BY <1>4, ChangeSegment DEF Holders
<1>6. Split(table, i, w) = Append(shrunk, piece)
  BY DEF Split, at
<1>7. /\ shrunk \in Seq(Segments) /\ Len(shrunk) = Len(table)
      /\ \A j \in DOMAIN table : shrunk[j] = IF j = i THEN x ELSE table[j]
  <2> HIDE DEF x
  <2>1. QED
    BY <1>3, ReplaceOne
<1> HIDE DEF piece, shrunk
<1>8. /\ Append(shrunk, piece) \in Seq(Segments)
      /\ Len(Append(shrunk, piece)) = Len(table) + 1
      /\ Append(shrunk, piece)[Len(table) + 1] = piece
      /\ \A j \in 1 .. Len(table) : Append(shrunk, piece)[j] = shrunk[j]
  BY <1>5, <1>7
<1>9. QED
  BY <1>6, <1>7, <1>8 DEF piece, at

\* set_request_end returns a table.
LEMMA SetRequestEndType ==
  ASSUME NEW table \in Seq(Segments), NEW i, NEW w \in Workers, NEW reqEnd \in Offsets
  PROVE  /\ SetRequestEnd(table, i, w, reqEnd) \in Seq(Segments)
         /\ DOMAIN SetRequestEnd(table, i, w, reqEnd) = DOMAIN table
<1> DEFINE x == [table[i] EXCEPT !.reqEnd = reqEnd]
<1>1. i \in DOMAIN table => table[i] \in Segments
  OBVIOUS
<1>2. i \in DOMAIN table => x \in Segments
  BY <1>1, ChangeSegment
<1>3. SetRequestEnd(table, i, w, reqEnd) \in {table, [table EXCEPT ![i] = x]}
  BY DEF SetRequestEnd
<1> HIDE DEF x
<1>4. QED
  BY <1>2, <1>3, ReplaceOne

\* What advance accepts ends inside the segment.
LEMMA AcceptedBounds ==
  ASSUME NEW table \in Seq(Segments), NEW i \in DOMAIN table, NEW w \in Workers,
         NEW cursor \in Offsets, NEW n \in Nat
  PROVE  /\ Accepted(table, i, w, cursor, n) \in Nat
         /\ cursor + Accepted(table, i, w, cursor, n) \in Offsets
<1>1. table[i] \in Segments
  OBVIOUS
<1>2. table[i].end \in Offsets
  BY <1>1 DEF Segments
<1>3. QED
  BY <1>2, SizesAssumption DEF Accepted, Smaller, Offsets

\* advance returns a table.
LEMMA AdvanceType ==
  ASSUME NEW table \in Seq(Segments), NEW i \in DOMAIN table, NEW to \in Offsets
  PROVE  Advance(table, i, to) \in Seq(Segments) /\ DOMAIN Advance(table, i, to) = DOMAIN table
<1> DEFINE s == table[i]
           pos == Larger(s.pos, to)
           x == IF pos >= s.end
                THEN [s EXCEPT !.pos = pos, !.owner = NoWorker, !.racer = NoWorker]
                ELSE [s EXCEPT !.pos = pos]
<1>1. s \in Segments
  OBVIOUS
<1>2. pos \in Offsets
  BY <1>1 DEF Segments, Larger
<1> HIDE DEF pos
<1>3. x \in Segments
  <2> HIDE DEF s
  <2>1. NoWorker \in Holders
    BY DEF Holders
  <2>2. [s EXCEPT !.pos = pos] \in Segments
    BY <1>1, <1>2, ChangeSegment
  <2>3. [s EXCEPT !.pos = pos, !.owner = NoWorker] \in Segments
    BY <2>1, <2>2, ChangeSegment
  <2>4. [s EXCEPT !.pos = pos, !.owner = NoWorker, !.racer = NoWorker] \in Segments
    BY <2>1, <2>3, ChangeSegment
  <2>5. QED
    BY <2>2, <2>4
<1>4. Advance(table, i, to) = [table EXCEPT ![i] = x]
  BY DEF Advance, pos
<1> HIDE DEF x
<1>5. QED
  BY <1>3, <1>4, ReplaceOne

\* release returns a table.
LEMMA ReleaseType ==
  ASSUME NEW table \in Seq(Segments), NEW i, NEW w
  PROVE  Release(table, i, w) \in Seq(Segments) /\ DOMAIN Release(table, i, w) = DOMAIN table
<1> DEFINE s == table[i]
           x == IF s.owner = w
                THEN [s EXCEPT !.owner = s.racer, !.racer = NoWorker, !.reqEnd = 0]
                ELSE IF s.racer = w THEN [s EXCEPT !.racer = NoWorker]
                ELSE s
<1>1. i \in DOMAIN table => s \in Segments
  OBVIOUS
<1>2. ASSUME s \in Segments
      PROVE  x \in Segments
  <2> HIDE DEF s
  <2>1. s.racer \in Holders /\ NoWorker \in Holders /\ 0 \in Offsets
    BY <1>2, SizesAssumption DEF Segments, Holders, Offsets
  <2>2. [s EXCEPT !.owner = s.racer, !.racer = NoWorker, !.reqEnd = 0] \in Segments
    <3>1. [s EXCEPT !.owner = s.racer] \in Segments
      BY <1>2, <2>1, ChangeSegment
    <3>2. [s EXCEPT !.owner = s.racer, !.racer = NoWorker] \in Segments
      BY <2>1, <3>1, ChangeSegment
    <3>3. QED
      BY <2>1, <3>2, ChangeSegment
  <2>3. [s EXCEPT !.racer = NoWorker] \in Segments
    BY <1>2, <2>1, ChangeSegment
  <2>4. QED
    BY <1>2, <2>2, <2>3
<1>3. Release(table, i, w) = [table EXCEPT ![i] = x]
  BY DEF Release
<1> HIDE DEF x
<1>4. QED
  BY <1>1, <1>2, <1>3, ReplaceOne

-----------------------------------------------------------------------------
(***************************************************************************)
(* The flushed frontier.  A segment whose flushed prefix and flushed extra *)
(* range lie in a set d of bytes keeps that property when one more range   *)
(* of d is flushed, in whatever order race participants flush.             *)
(***************************************************************************)
FlushedIn(s, d) == /\ s.start .. s.written - 1 \subseteq d
                   /\ s.extra.from .. s.extra.to - 1 \subseteq d

\* Two ranges that touch or overlap leave no gap between them.
LEMMA JoinedRange ==
  ASSUME NEW a \in Nat, NEW b \in Nat, NEW from \in Nat, NEW to \in Nat, NEW d,
         a .. b - 1 \subseteq d, from .. to - 1 \subseteq d, from <= b, to >= a
  PROVE  Smaller(a, from) .. Larger(b, to) - 1 \subseteq d
<1> SUFFICES ASSUME NEW x \in Smaller(a, from) .. Larger(b, to) - 1
             PROVE  x \in d
  OBVIOUS
<1>1. x \in Int /\ (x >= a \/ x >= from) /\ (x < b \/ x < to)
  BY DEF Smaller, Larger
<1>2. x \in a .. b - 1 \/ x \in from .. to - 1
  BY <1>1
<1>3. QED
  BY <1>2

\* A flushed range that reaches the prefix extends it without a gap.
LEMMA ExtendedPrefix ==
  ASSUME NEW start \in Nat, NEW written \in Nat, NEW from \in Nat, NEW to \in Nat, NEW d,
         start .. written - 1 \subseteq d, from .. to - 1 \subseteq d, from <= written
  PROVE  start .. Larger(written, to) - 1 \subseteq d
<1> SUFFICES ASSUME NEW x \in start .. Larger(written, to) - 1
             PROVE  x \in d
  OBVIOUS
<1>1. x \in Int /\ x >= start /\ (x < written \/ x < to)
  BY DEF Larger
<1>2. x \in start .. written - 1 \/ x \in from .. to - 1
  BY <1>1
<1>3. QED
  BY <1>2

\* Joining the extra range to the prefix leaves no gap.
LEMMA MergeExtraFlushed ==
  ASSUME NEW s \in Segments, NEW d, FlushedIn(s, d)
  PROVE  MergeExtra(s) \in Segments /\ FlushedIn(MergeExtra(s), d)
<1>1. CASE s.extra # NoRange /\ s.extra.from <= s.written
  <2> DEFINE w == Larger(s.written, s.extra.to)
  <2>1. /\ s.start \in Nat /\ s.written \in Offsets /\ s.extra \in Ranges
        /\ s.written \in Nat /\ s.extra.from \in Nat /\ s.extra.to \in Nat
        /\ s.extra.to \in Offsets
    BY SizesAssumption DEF Segments, Ranges, Offsets
  <2>2. s.start .. w - 1 \subseteq d
    BY <1>1, <2>1, ExtendedPrefix DEF FlushedIn
  <2>3. w \in Offsets /\ NoRange \in Ranges
    BY <2>1, SizesAssumption DEF Larger, NoRange, Ranges, Offsets
  <2> DEFINE r == [s EXCEPT !.written = w]
             t == [r EXCEPT !.extra = NoRange]
  <2> HIDE DEF w
  <2>4. r \in Segments /\ r.written = w /\ r.start = s.start
    BY <2>3, ChangeSegment DEF Segments
  <2>5. t = [s EXCEPT !.written = w, !.extra = NoRange]
    OBVIOUS
  <2> HIDE DEF r
  <2>6. t \in Segments /\ t.written = w /\ t.start = s.start /\ t.extra = NoRange
    BY <2>3, <2>4, ChangeSegment DEF Segments
  <2> HIDE DEF t
  <2>7. MergeExtra(s) = t
    BY <1>1, <2>5 DEF MergeExtra, w
  <2>8. FlushedIn(t, d)
    BY <2>2, <2>6 DEF FlushedIn, NoRange
  <2>9. QED
    BY <2>6, <2>7, <2>8
<1>2. CASE ~(s.extra # NoRange /\ s.extra.from <= s.written)
  <2>1. MergeExtra(s) = s
    BY <1>2 DEF MergeExtra
  <2>2. QED
    BY <2>1
<1>3. QED
  BY <1>1, <1>2

\* Clamping the prefix to the end of a shrunk segment claims nothing new.
LEMMA ClampWrittenFlushed ==
  ASSUME NEW s \in Segments, NEW d, FlushedIn(s, d)
  PROVE  ClampWritten(s) \in Segments /\ FlushedIn(ClampWritten(s), d)
<1> DEFINE w == Smaller(s.written, Larger(s.end, s.start))
           t == [s EXCEPT !.written = w]
<1>1. /\ s.start \in Offsets /\ s.written \in Offsets /\ s.end \in Offsets
      /\ s.start \in Nat /\ s.written \in Nat /\ s.end \in Nat
  BY SizesAssumption DEF Segments, Offsets
<1>2. w \in Offsets /\ w <= s.written
  BY <1>1, SizesAssumption DEF Smaller, Larger, Offsets
<1>3. ClampWritten(s) = t
  BY DEF ClampWritten
<1>4. w \in Int
  BY <1>2, SizesAssumption DEF Offsets
<1> HIDE DEF w
<1>5. t \in Segments /\ t.written = w /\ t.start = s.start /\ t.extra = s.extra
  BY <1>2, ChangeSegment DEF Segments
<1> HIDE DEF t
<1>6. s.start .. w - 1 \subseteq s.start .. s.written - 1
  BY <1>1, <1>2, <1>4
<1>7. QED
  BY <1>3, <1>5, <1>6 DEF FlushedIn

\* What is kept as the extra range was flushed.
LEMMA ExtraAfterFlushed ==
  ASSUME NEW s \in Segments, NEW from \in Offsets, NEW to \in Offsets, NEW d,
         FlushedIn(s, d), from .. to - 1 \subseteq d
  PROVE  /\ ExtraAfter(s, from, to) \in Ranges
         /\ ExtraAfter(s, from, to).from .. ExtraAfter(s, from, to).to - 1 \subseteq d
<1> DEFINE a == s.extra.from
           b == s.extra.to
           new == [from |-> from, to |-> to]
           joined == [from |-> Smaller(a, from), to |-> Larger(b, to)]
<1>1. /\ s.extra \in Ranges /\ a \in Offsets /\ b \in Offsets
      /\ a \in Nat /\ b \in Nat /\ from \in Nat /\ to \in Nat
  BY SizesAssumption DEF Segments, Ranges, Offsets
<1>2. new \in Ranges /\ joined \in Ranges
  BY <1>1 DEF Ranges, Smaller, Larger
<1>3. CASE s.extra # NoRange /\ Overlaps(s.extra, from, to)
  <2>1. from <= b /\ to >= a
    BY <1>3 DEF Overlaps
  <2>2. a .. b - 1 \subseteq d
    BY DEF FlushedIn
  <2>3. Smaller(a, from) .. Larger(b, to) - 1 \subseteq d
    BY <1>1, <2>1, <2>2, JoinedRange
  <2>4. ExtraAfter(s, from, to) = joined
    BY <1>3 DEF ExtraAfter
  <2>5. QED
    BY <1>2, <2>3, <2>4
<1>4. CASE ~(s.extra # NoRange /\ Overlaps(s.extra, from, to))
  <2>1. ExtraAfter(s, from, to) \in {new, s.extra}
    BY <1>4 DEF ExtraAfter
  <2>2. QED
    BY <1>1, <1>2, <2>1 DEF FlushedIn
<1>5. QED
  BY <1>3, <1>4

\* on_flushed: what a segment counts as written or keeps as its extra range has been given
\* to the operating system, in whatever order two racing workers' buffers are flushed.
THEOREM FlushedSegmentFlushed ==
  ASSUME NEW s \in Segments, NEW from \in Offsets, NEW to \in Offsets, NEW d,
         FlushedIn(s, d), from .. to - 1 \subseteq d
  PROVE  FlushedSegment(s, from, to) \in Segments /\ FlushedIn(FlushedSegment(s, from, to), d)
<1> DEFINE grown == [s EXCEPT !.written = Larger(s.written, to)]
           kept == [s EXCEPT !.extra = ExtraAfter(s, from, to)]
           flushed == IF from <= s.written THEN grown ELSE kept
<1>1. /\ s.start \in Nat /\ s.written \in Nat /\ s.written \in Offsets
      /\ from \in Nat /\ to \in Nat
  BY SizesAssumption DEF Segments, Offsets
<1>2. ASSUME from <= s.written
      PROVE  flushed \in Segments /\ FlushedIn(flushed, d)
  <2> DEFINE w == Larger(s.written, to)
  <2>1. w \in Offsets
    BY <1>1 DEF Larger
  <2>2. s.start .. w - 1 \subseteq d
    BY <1>1, <1>2, ExtendedPrefix DEF FlushedIn
  <2> HIDE DEF w
  <2>3. /\ [s EXCEPT !.written = w] \in Segments
        /\ FlushedIn([s EXCEPT !.written = w], d)
    BY <2>1, <2>2, ChangeSegment DEF FlushedIn, Segments
  <2>4. QED
    BY <1>2, <2>3 DEF w
<1>3. ASSUME ~(from <= s.written)
      PROVE  flushed \in Segments /\ FlushedIn(flushed, d)
  <2> DEFINE e == ExtraAfter(s, from, to)
  <2>1. e \in Ranges /\ e.from .. e.to - 1 \subseteq d
    BY ExtraAfterFlushed
  <2> HIDE DEF e
  <2>2. /\ [s EXCEPT !.extra = e] \in Segments
        /\ FlushedIn([s EXCEPT !.extra = e], d)
    BY <2>1, ChangeSegment DEF FlushedIn, Segments
  <2>3. QED
    BY <1>3, <2>2 DEF e
<1>4. flushed \in Segments /\ FlushedIn(flushed, d)
  BY <1>2, <1>3
<1>5. FlushedSegment(s, from, to) = ClampWritten(MergeExtra(flushed))
  BY DEF FlushedSegment
<1> HIDE DEF flushed
<1>6. QED
  BY <1>4, <1>5, MergeExtraFlushed, ClampWrittenFlushed

-----------------------------------------------------------------------------
(***************************************************************************)
(* The same for a table: no operation on it makes a segment count a byte   *)
(* as flushed that is not in d.                                            *)
(***************************************************************************)
FlushedSegments(d) == {s \in Segments : FlushedIn(s, d)}
TableFlushed(table, d) == table \in Seq(FlushedSegments(d)) /\ table # << >>

\* Flushed bytes are those of `start`, `written` and `extra` alone.
LEMMA ChangeFlushed ==
  ASSUME NEW d, NEW s \in FlushedSegments(d)
  PROVE  /\ \A v \in Holders : /\ [s EXCEPT !.owner = v] \in FlushedSegments(d)
                               /\ [s EXCEPT !.racer = v] \in FlushedSegments(d)
         /\ \A v \in Offsets : /\ [s EXCEPT !.pos = v] \in FlushedSegments(d)
                               /\ [s EXCEPT !.end = v] \in FlushedSegments(d)
                               /\ [s EXCEPT !.reqEnd = v] \in FlushedSegments(d)
<1>1. s \in Segments /\ FlushedIn(s, d)
  BY DEF FlushedSegments
<1>2. \A v : /\ FlushedIn([s EXCEPT !.owner = v], d) /\ FlushedIn([s EXCEPT !.racer = v], d)
             /\ FlushedIn([s EXCEPT !.pos = v], d) /\ FlushedIn([s EXCEPT !.end = v], d)
             /\ FlushedIn([s EXCEPT !.reqEnd = v], d)
  BY <1>1 DEF FlushedIn, Segments
<1>3. QED
  BY <1>1, <1>2, ChangeSegment DEF FlushedSegments

\* Replacing one segment by one whose flushed bytes are in d.
LEMMA ReplaceFlushed ==
  ASSUME NEW d, NEW table, TableFlushed(table, d), NEW i, NEW x,
         i \in DOMAIN table => x \in FlushedSegments(d)
  PROVE  TableFlushed([table EXCEPT ![i] = x], d)
<1> DEFINE r == [table EXCEPT ![i] = x]
<1>1. table \in Seq(FlushedSegments(d)) /\ Len(table) # 0
  BY DEF TableFlushed
<1>2. r \in Seq(FlushedSegments(d)) /\ Len(r) = Len(table)
  BY <1>1, ReplaceOne
<1> HIDE DEF r
<1>3. r # << >>
  BY <1>1, <1>2
<1>4. QED
  BY <1>2, <1>3 DEF TableFlushed, r

\* A piece of which nothing was written claims nothing.
LEMMA NewSegmentFlushed ==
  ASSUME NEW at \in Offsets, NEW end \in Offsets, NEW d
  PROVE  NewSegment(at, at, end) \in FlushedSegments(d)
<1>1. at .. at - 1 = {} /\ 0 .. 0 - 1 = {}
  BY SizesAssumption DEF Offsets
<1>2. FlushedIn(NewSegment(at, at, end), d)
  BY <1>1 DEF FlushedIn, NewSegment, NoRange
<1>3. QED
  BY <1>2, NewSegmentType DEF FlushedSegments

\* acquire: taking and racing a segment change no frontier.
LEMMA TakeFlushed ==
  ASSUME NEW d, NEW table, TableFlushed(table, d), NEW i \in DOMAIN table, NEW w \in Workers
  PROVE  /\ TableFlushed(TakeOwner(table, i, w), d)
         /\ TableFlushed(TakeRacer(table, i, w), d)
<1> DEFINE s == table[i]
           owned == [s EXCEPT !.owner = w, !.reqEnd = 0]
           raced == [s EXCEPT !.racer = w]
<1>1. s \in FlushedSegments(d) /\ w \in Holders /\ 0 \in Offsets
  BY SizesAssumption DEF TableFlushed, Holders, Offsets
<1>2. owned \in FlushedSegments(d) /\ raced \in FlushedSegments(d)
  <2> HIDE DEF s
  <2>1. [s EXCEPT !.owner = w] \in FlushedSegments(d) /\ raced \in FlushedSegments(d)
    BY <1>1, ChangeFlushed
  <2>2. [[s EXCEPT !.owner = w] EXCEPT !.reqEnd = 0] \in FlushedSegments(d)
    BY <1>1, <2>1, ChangeFlushed
  <2>3. QED
    BY <2>1, <2>2
<1>3. TakeOwner(table, i, w) = [table EXCEPT ![i] = owned]
      /\ TakeRacer(table, i, w) = [table EXCEPT ![i] = raced]
  BY DEF TakeOwner, TakeRacer
<1> HIDE DEF owned, raced, s
<1>4. TableFlushed([table EXCEPT ![i] = owned], d) /\ TableFlushed([table EXCEPT ![i] = raced], d)
  BY <1>2, ReplaceFlushed
<1>5. QED
  BY <1>3, <1>4

\* acquire: neither half of a split counts a byte as written that the whole did not.
LEMMA SplitFlushed ==
  ASSUME NEW d, NEW table, TableFlushed(table, d), NEW i \in Splittable(table), NEW w \in Workers
  PROVE  TableFlushed(Split(table, i, w), d)
<1> DEFINE at == SplitPoint(table[i])
           piece == [NewSegment(at, at, table[i].end) EXCEPT !.owner = w]
           x == [table[i] EXCEPT !.end = at]
           shrunk == [table EXCEPT ![i] = x]
<1>1. i \in DOMAIN table /\ Remaining(table[i]) >= 2 * MinSplit
  BY DEF Splittable
<1>2. table[i] \in FlushedSegments(d) /\ table[i] \in Segments
  BY <1>1 DEF TableFlushed, FlushedSegments
<1>3. at \in Offsets /\ table[i].end \in Offsets
  BY <1>1, <1>2, SplitPointInside DEF Segments
<1>4. Split(table, i, w) = Append(shrunk, piece)
  BY DEF Split
<1> HIDE DEF at
<1>5. piece \in FlushedSegments(d)
  BY <1>3, NewSegmentFlushed, ChangeFlushed DEF Holders
<1>6. x \in FlushedSegments(d)
  BY <1>2, <1>3, ChangeFlushed
<1> HIDE DEF piece, x
<1>7. TableFlushed(shrunk, d)
  BY <1>6, ReplaceFlushed
<1> HIDE DEF shrunk
<1>8. Append(shrunk, piece) \in Seq(FlushedSegments(d)) /\ Append(shrunk, piece) # << >>
  BY <1>5, <1>7 DEF TableFlushed
<1>9. QED
  BY <1>4, <1>8 DEF TableFlushed

\* set_request_end leaves what is flushed alone.
LEMMA SetRequestEndFlushed ==
  ASSUME NEW d, NEW table, TableFlushed(table, d), NEW i, NEW w, NEW reqEnd \in Offsets
  PROVE  TableFlushed(SetRequestEnd(table, i, w, reqEnd), d)
<1> DEFINE x == [table[i] EXCEPT !.reqEnd = reqEnd]
<1>1. i \in DOMAIN table => x \in FlushedSegments(d)
  <2>1. i \in DOMAIN table => table[i] \in FlushedSegments(d)
    BY DEF TableFlushed
  <2>2. QED
    BY <2>1, ChangeFlushed
<1>2. SetRequestEnd(table, i, w, reqEnd) \in {table, [table EXCEPT ![i] = x]}
  BY DEF SetRequestEnd
<1> HIDE DEF x
<1>3. QED
  BY <1>1, <1>2, ReplaceFlushed

\* advance moves the receive frontier only.
LEMMA AdvanceFlushed ==
  ASSUME NEW d, NEW table, TableFlushed(table, d), NEW i \in DOMAIN table, NEW to \in Offsets
  PROVE  TableFlushed(Advance(table, i, to), d)
<1> DEFINE s == table[i]
           pos == Larger(s.pos, to)
           x == IF pos >= s.end
                THEN [s EXCEPT !.pos = pos, !.owner = NoWorker, !.racer = NoWorker]
                ELSE [s EXCEPT !.pos = pos]
<1>1. s \in FlushedSegments(d) /\ s \in Segments
  BY DEF TableFlushed, FlushedSegments
<1>2. pos \in Offsets
  BY <1>1 DEF Segments, Larger
<1>3. Advance(table, i, to) = [table EXCEPT ![i] = x]
  BY DEF Advance
<1> HIDE DEF pos
<1>4. x \in FlushedSegments(d)
  <2> HIDE DEF s
  <2>1. NoWorker \in Holders
    BY DEF Holders
  <2>2. [s EXCEPT !.pos = pos] \in FlushedSegments(d)
    BY <1>1, <1>2, ChangeFlushed
  <2>3. [s EXCEPT !.pos = pos, !.owner = NoWorker] \in FlushedSegments(d)
    BY <2>1, <2>2, ChangeFlushed
  <2>4. [s EXCEPT !.pos = pos, !.owner = NoWorker, !.racer = NoWorker] \in FlushedSegments(d)
    BY <2>1, <2>3, ChangeFlushed
  <2>5. QED
    BY <2>2, <2>4
<1> HIDE DEF x, s
<1>5. TableFlushed([table EXCEPT ![i] = x], d)
  BY <1>4, ReplaceFlushed
<1>6. QED
  BY <1>3, <1>5

\* release changes no frontier.
LEMMA ReleaseFlushed ==
  ASSUME NEW d, NEW table, TableFlushed(table, d), NEW i, NEW w
  PROVE  TableFlushed(Release(table, i, w), d)
<1> DEFINE s == table[i]
           x == IF s.owner = w
                THEN [s EXCEPT !.owner = s.racer, !.racer = NoWorker, !.reqEnd = 0]
                ELSE IF s.racer = w THEN [s EXCEPT !.racer = NoWorker]
                ELSE s
<1>1. i \in DOMAIN table => s \in FlushedSegments(d)
  BY DEF TableFlushed
<1>2. ASSUME s \in FlushedSegments(d)
      PROVE  x \in FlushedSegments(d)
  <2> HIDE DEF s
  <2>1. s.racer \in Holders /\ NoWorker \in Holders /\ 0 \in Offsets
    BY <1>2, SizesAssumption DEF FlushedSegments, Segments, Holders, Offsets
  <2>2. [s EXCEPT !.owner = s.racer, !.racer = NoWorker, !.reqEnd = 0] \in FlushedSegments(d)
    <3>1. [s EXCEPT !.owner = s.racer] \in FlushedSegments(d)
      BY <1>2, <2>1, ChangeFlushed
    <3>2. [s EXCEPT !.owner = s.racer, !.racer = NoWorker] \in FlushedSegments(d)
      BY <2>1, <3>1, ChangeFlushed
    <3>3. QED
      BY <2>1, <3>2, ChangeFlushed
  <2>3. [s EXCEPT !.racer = NoWorker] \in FlushedSegments(d)
    BY <1>2, <2>1, ChangeFlushed
  <2>4. QED
    BY <1>2, <2>2, <2>3
<1>3. Release(table, i, w) = [table EXCEPT ![i] = x]
  BY DEF Release
<1> HIDE DEF x, s
<1>4. TableFlushed([table EXCEPT ![i] = x], d)
  BY <1>1, <1>2, ReplaceFlushed
<1>5. QED
  BY <1>3, <1>4

\* on_flushed: with the range just given to the operating system, the table is still right.
LEMMA OnFlushedFlushed ==
  ASSUME NEW d, NEW table, TableFlushed(table, d), NEW i, NEW from \in Offsets, NEW to \in Offsets
  PROVE  TableFlushed(OnFlushed(table, i, from, to), d \cup (from .. to - 1))
<1> DEFINE e == d \cup (from .. to - 1)
           x == FlushedSegment(table[i], from, to)
<1>1. FlushedSegments(d) \subseteq FlushedSegments(e)
  BY DEF FlushedSegments, FlushedIn
<1>2. OnFlushed(table, i, from, to) = [table EXCEPT ![i] = x]
  BY DEF OnFlushed
<1>3. from .. to - 1 \subseteq e
  OBVIOUS
<1> HIDE DEF e
<1>4. TableFlushed(table, e)
  <2>1. Seq(FlushedSegments(d)) \subseteq Seq(FlushedSegments(e))
    BY <1>1
  <2>2. QED
    BY <2>1 DEF TableFlushed
<1>5. ASSUME i \in DOMAIN table
      PROVE  x \in FlushedSegments(e)
  <2>1. table[i] \in FlushedSegments(e)
    BY <1>4, <1>5 DEF TableFlushed
  <2>2. table[i] \in Segments /\ FlushedIn(table[i], e)
    BY <2>1 DEF FlushedSegments
  <2>3. QED
    BY <1>3, <2>2, FlushedSegmentFlushed DEF FlushedSegments
<1> HIDE DEF x
<1>6. TableFlushed([table EXCEPT ![i] = x], e)
  BY <1>4, <1>5, ReplaceFlushed
<1>7. QED
  BY <1>2, <1>6 DEF e

\* durable_states: it claims only bytes given to the operating system.
LEMMA DurableStatesClaimed ==
  ASSUME NEW d, NEW table, TableFlushed(table, d)
  PROVE  Claimed(DurableStates(table)) \subseteq d /\ DurableStates(table) # << >>
<1>1. /\ DOMAIN DurableStates(table) = DOMAIN table
      /\ \A i \in DOMAIN table : DurableStates(table)[i] = DurableState(table[i])
      /\ table # << >> /\ table \in Seq(FlushedSegments(d))
  BY DEF DurableStates, TableFlushed
<1>2. ASSUME NEW s \in FlushedSegments(d)
      PROVE  DurableState(s).start .. DurableState(s).pos - 1 \subseteq d
  <2>1. s.start \in Nat /\ s.written \in Nat /\ s.end \in Nat /\ s.start .. s.written - 1 \subseteq d
    BY SizesAssumption DEF FlushedSegments, Segments, FlushedIn, Offsets
  <2> DEFINE pos == Larger(Smaller(s.written, s.end), s.start)
  <2>2. DurableState(s).start = s.start /\ DurableState(s).pos = pos
    BY DEF DurableState
  <2>3. pos \in Nat /\ (pos <= s.written \/ pos = s.start)
    BY <2>1 DEF Larger, Smaller
  <2> HIDE DEF pos
  <2>4. \A b \in s.start .. pos - 1 : b \in s.start .. s.written - 1
    BY <2>1, <2>3
  <2>5. QED
    BY <2>1, <2>2, <2>4
<1>3. Claimed(DurableStates(table)) \subseteq d
  BY <1>1, <1>2 DEF Claimed
<1>4. DurableStates(table) # << >>
  BY <1>1
<1>5. QED
  BY <1>3, <1>4

\* from_states: a table built from a resume state counts as flushed what the state claims.
LEMMA FromStatesFlushed ==
  ASSUME NEW d, NEW states \in Seq(SegmentStates), states # << >>, Claimed(states) \subseteq d
  PROVE  TableFlushed(FromStates(states), d)
<1>1. /\ states \in [1 .. Len(states) -> SegmentStates] /\ Len(states) \in Nat
      /\ DOMAIN states = 1 .. Len(states)
  OBVIOUS
<1>2. ASSUME NEW i \in DOMAIN states
      PROVE  NewSegment(states[i].start, states[i].pos, states[i].end) \in FlushedSegments(d)
  <2>1. /\ states[i].start \in Offsets /\ states[i].pos \in Offsets /\ states[i].end \in Offsets
    BY <1>1, <1>2 DEF SegmentStates
  <2>2. states[i].start .. states[i].pos - 1 \subseteq d
    BY <1>2 DEF Claimed
  <2>3. 0 .. 0 - 1 = {}
    OBVIOUS
  <2>4. FlushedIn(NewSegment(states[i].start, states[i].pos, states[i].end), d)
    BY <2>2, <2>3 DEF FlushedIn, NewSegment, NoRange
  <2>5. QED
    BY <2>1, <2>4, NewSegmentType DEF FlushedSegments
<1>3. FromStates(states) \in [1 .. Len(states) -> FlushedSegments(d)]
  BY <1>1, <1>2 DEF FromStates
<1>4. FromStates(states) \in Seq(FlushedSegments(d)) /\ DOMAIN FromStates(states) # {}
  BY <1>1, <1>3
<1>5. QED
  BY <1>4 DEF TableFlushed

\* on_flushed of one segment changes neither its bounds, its receive frontier nor its holders.
LEMMA FlushedSegmentKeeps ==
  ASSUME NEW s \in Segments, NEW from, NEW to
  PROVE  LET x == FlushedSegment(s, from, to)
         IN  /\ x.start = s.start /\ x.pos = s.pos /\ x.end = s.end
             /\ x.owner = s.owner /\ x.racer = s.racer
<1> DEFINE Kept(x, y) == /\ DOMAIN x = DOMAIN y
                         /\ x.start = y.start /\ x.pos = y.pos /\ x.end = y.end
                         /\ x.owner = y.owner /\ x.racer = y.racer
           r == IF from <= s.written
                THEN [s EXCEPT !.written = Larger(s.written, to)]
                ELSE [s EXCEPT !.extra = ExtraAfter(s, from, to)]
           m == MergeExtra(r)
<1>1. Kept(r, s)
  <2>1. ASSUME NEW v PROVE Kept([s EXCEPT !.written = v], s) /\ Kept([s EXCEPT !.extra = v], s)
    BY DEF Segments
  <2> HIDE DEF Kept
  <2>2. QED
    BY <2>1
<1>2. "start" \in DOMAIN s /\ "pos" \in DOMAIN s /\ "end" \in DOMAIN s
      /\ "owner" \in DOMAIN s /\ "racer" \in DOMAIN s
  BY DEF Segments
<1> HIDE DEF r
<1>3. Kept(m, r)
  BY <1>1, <1>2 DEF MergeExtra
<1> HIDE DEF m
<1>4. Kept(ClampWritten(m), m)
  BY <1>1, <1>2, <1>3 DEF ClampWritten
<1>5. FlushedSegment(s, from, to) = ClampWritten(m)
  BY DEF FlushedSegment, m, r
<1>6. QED
  BY <1>1, <1>3, <1>4, <1>5

\* on_flushed changes `written` and `extra` alone.
LEMMA OnFlushedKeeps ==
  ASSUME NEW table \in Seq(Segments), NEW i, NEW from, NEW to
  PROVE  LET u == OnFlushed(table, i, from, to)
         IN  /\ DOMAIN u = DOMAIN table
             /\ \A j \in DOMAIN table :
                  /\ u[j].start = table[j].start /\ u[j].pos = table[j].pos
                  /\ u[j].end = table[j].end
                  /\ u[j].owner = table[j].owner /\ u[j].racer = table[j].racer
<1> DEFINE x == FlushedSegment(table[i], from, to)
           u == [table EXCEPT ![i] = x]
<1>1. OnFlushed(table, i, from, to) = u
  BY DEF OnFlushed
<1>2. i \in DOMAIN table =>
        /\ x.start = table[i].start /\ x.pos = table[i].pos /\ x.end = table[i].end
        /\ x.owner = table[i].owner /\ x.racer = table[i].racer
  <2>1. i \in DOMAIN table => table[i] \in Segments
    OBVIOUS
  <2>2. QED
    BY <2>1, FlushedSegmentKeeps
<1> HIDE DEF x
<1>3. DOMAIN u = DOMAIN table /\ \A j \in DOMAIN table : u[j] = IF j = i THEN x ELSE table[j]
  OBVIOUS
<1> HIDE DEF u
<1>4. QED
  BY <1>1, <1>2, <1>3

\* A table that is all done stays so when pieces of it are flushed.
LEMMA OnFlushedKeepsDone ==
  ASSUME NEW table \in Seq(Segments), NEW i, NEW from, NEW to, AllDone(table)
  PROVE  AllDone(OnFlushed(table, i, from, to))
BY OnFlushedKeeps DEF AllDone, Done

-----------------------------------------------------------------------------
(***************************************************************************)
(* How the table evolves.  Within a run every method keeps the segments a  *)
(* partition of the file with ordered frontiers, takes no frontier back    *)
(* and moves no segment's end outwards.                                    *)
(***************************************************************************)
FrontiersOrdered(s) == s.start <= s.written /\ s.written <= s.pos /\ s.extra.to <= s.pos

TablePartitioned(table) ==
  /\ table \in Seq(Segments)
  /\ ValidStates(table)
  /\ \A i \in DOMAIN table : FrontiersOrdered(table[i])

TableGrows(table, next) ==
  \A i \in DOMAIN table :
    /\ i \in DOMAIN next
    /\ next[i].start = table[i].start
    /\ next[i].pos >= table[i].pos
    /\ next[i].written >= table[i].written
    /\ next[i].end <= table[i].end

\* The segment keeps its bounds and no frontier of it goes back.
SegmentGrows(s, x) ==
  /\ x.start = s.start /\ x.end = s.end
  /\ s.pos <= x.pos /\ x.pos <= x.end
  /\ s.written <= x.written
  /\ FrontiersOrdered(x)

\* The frontiers of a segment are numbers.
LEMMA SegmentNumbers ==
  ASSUME NEW s \in Segments
  PROVE  /\ s.start \in Offsets /\ s.pos \in Offsets /\ s.end \in Offsets
         /\ s.written \in Offsets /\ s.reqEnd \in Offsets
         /\ s.extra \in Ranges /\ s.extra.from \in Offsets /\ s.extra.to \in Offsets
         /\ s.owner \in Holders /\ s.racer \in Holders
         /\ s.start \in Nat /\ s.pos \in Nat /\ s.end \in Nat /\ s.written \in Nat
         /\ s.extra.from \in Nat /\ s.extra.to \in Nat
BY SizesAssumption DEF Segments, Ranges, Offsets

\* What a partitioned table says of one segment.
LEMMA PartitionedSegment ==
  ASSUME NEW table, TablePartitioned(table), NEW i \in DOMAIN table
  PROVE  /\ table[i] \in Segments
         /\ FrontiersOrdered(table[i])
         /\ table[i].start <= table[i].pos /\ table[i].pos <= table[i].end
         /\ SegmentGrows(table[i], table[i])
<1>1. table[i] \in Segments /\ FrontiersOrdered(table[i])
  BY DEF TablePartitioned
<1>2. table[i].start <= table[i].pos /\ table[i].pos <= table[i].end
  BY DEF TablePartitioned, ValidStates
<1>3. QED
  BY <1>1, <1>2, SegmentNumbers DEF SegmentGrows

\* A table that did not change has grown.
LEMMA GrowsReflexive ==
  ASSUME NEW table, table \in Seq(Segments)
  PROVE  TableGrows(table, table)
<1>1. ASSUME NEW i \in DOMAIN table PROVE table[i] \in Segments
  OBVIOUS
<1>2. QED
  BY <1>1, SegmentNumbers DEF TableGrows

\* Replacing one segment by one that has grown keeps the partition.
LEMMA ReplaceGrown ==
  ASSUME NEW table, TablePartitioned(table), NEW i, NEW x,
         i \in DOMAIN table => x \in Segments /\ SegmentGrows(table[i], x)
  PROVE  /\ TablePartitioned([table EXCEPT ![i] = x])
         /\ TableGrows(table, [table EXCEPT ![i] = x])
<1> DEFINE u == [table EXCEPT ![i] = x]
<1>1. table \in Seq(Segments)
  BY DEF TablePartitioned
<1>2. /\ u \in Seq(Segments) /\ DOMAIN u = DOMAIN table
      /\ \A j \in DOMAIN table : u[j] = IF j = i THEN x ELSE table[j]
  BY <1>1, ReplaceOne
<1> HIDE DEF u
<1>3. \A j \in DOMAIN table : SegmentGrows(table[j], u[j])
  BY <1>2, PartitionedSegment
<1>4. \A j \in DOMAIN table : u[j].start = table[j].start /\ u[j].end = table[j].end
  BY <1>3 DEF SegmentGrows
<1>5. \A j \in DOMAIN u : u[j].start <= u[j].pos /\ u[j].pos <= u[j].end
  <2>1. ASSUME NEW j \in DOMAIN u
        PROVE  u[j].start <= u[j].pos /\ u[j].pos <= u[j].end
    <3>1. u[j] \in Segments /\ SegmentGrows(table[j], u[j])
      BY <1>2, <1>3
    <3>2. QED
      BY <3>1, SegmentNumbers DEF SegmentGrows, FrontiersOrdered
  <2>2. QED
    BY <2>1
<1>6. ValidStates(u)
  BY <1>2, <1>4, <1>5 DEF TablePartitioned, ValidStates
<1>7. TablePartitioned(u)
  BY <1>2, <1>3, <1>6 DEF TablePartitioned, SegmentGrows
<1>8. TableGrows(table, u)
  <2>1. ASSUME NEW j \in DOMAIN table
        PROVE  /\ j \in DOMAIN u /\ u[j].start = table[j].start
               /\ u[j].pos >= table[j].pos /\ u[j].written >= table[j].written
               /\ u[j].end <= table[j].end
    <3>1. u[j] \in Segments /\ table[j] \in Segments /\ SegmentGrows(table[j], u[j])
      BY <1>1, <1>2, <1>3
    <3>2. QED
      BY <1>2, <3>1, SegmentNumbers DEF SegmentGrows
  <2>2. QED
    BY <2>1 DEF TableGrows
<1>9. QED
  BY <1>7, <1>8 DEF u

\* Owner, racer and request end are no frontiers.
LEMMA HoldersGrow ==
  ASSUME NEW s \in Segments, SegmentGrows(s, s), NEW x \in Segments,
         x.start = s.start, x.pos = s.pos, x.end = s.end, x.written = s.written,
         x.extra = s.extra
  PROVE  SegmentGrows(s, x)
BY DEF SegmentGrows, FrontiersOrdered

\* acquire: taking and racing a segment keep the partition.
LEMMA TakeGrows ==
  ASSUME NEW table, TablePartitioned(table), NEW i \in DOMAIN table, NEW w \in Workers
  PROVE  /\ TablePartitioned(TakeOwner(table, i, w)) /\ TableGrows(table, TakeOwner(table, i, w))
         /\ TablePartitioned(TakeRacer(table, i, w)) /\ TableGrows(table, TakeRacer(table, i, w))
<1> DEFINE s == table[i]
           owned == [s EXCEPT !.owner = w, !.reqEnd = 0]
           raced == [s EXCEPT !.racer = w]
<1>1. s \in Segments /\ SegmentGrows(s, s)
  BY PartitionedSegment
<1>2. TakeOwner(table, i, w) = [table EXCEPT ![i] = owned]
      /\ TakeRacer(table, i, w) = [table EXCEPT ![i] = raced]
  BY DEF TakeOwner, TakeRacer
<1>3. owned \in Segments /\ raced \in Segments
  <2> HIDE DEF s
  <2>1. w \in Holders /\ 0 \in Offsets
    BY SizesAssumption DEF Holders, Offsets
  <2>2. [s EXCEPT !.owner = w] \in Segments /\ raced \in Segments
    BY <1>1, <2>1, ChangeSegment
  <2>3. [[s EXCEPT !.owner = w] EXCEPT !.reqEnd = 0] \in Segments
    BY <2>1, <2>2, ChangeSegment
  <2>4. QED
    BY <2>2, <2>3
<1>4. SegmentGrows(s, owned) /\ SegmentGrows(s, raced)
  <2> HIDE DEF s
  <2>1. /\ owned.start = s.start /\ owned.pos = s.pos /\ owned.end = s.end
        /\ owned.written = s.written /\ owned.extra = s.extra
        /\ raced.start = s.start /\ raced.pos = s.pos /\ raced.end = s.end
        /\ raced.written = s.written /\ raced.extra = s.extra
    BY <1>1 DEF Segments
  <2> HIDE DEF owned, raced
  <2>2. QED
    BY <1>1, <1>3, <2>1, HoldersGrow
<1> HIDE DEF owned, raced
<1>5. /\ TablePartitioned([table EXCEPT ![i] = owned])
      /\ TableGrows(table, [table EXCEPT ![i] = owned])
  BY <1>3, <1>4, ReplaceGrown
<1>6. /\ TablePartitioned([table EXCEPT ![i] = raced])
      /\ TableGrows(table, [table EXCEPT ![i] = raced])
  BY <1>3, <1>4, ReplaceGrown
<1>7. QED
  BY <1>2, <1>5, <1>6

\* set_request_end moves no frontier.
LEMMA SetRequestEndGrows ==
  ASSUME NEW table, TablePartitioned(table), NEW i, NEW w, NEW reqEnd \in Offsets
  PROVE  /\ TablePartitioned(SetRequestEnd(table, i, w, reqEnd))
         /\ TableGrows(table, SetRequestEnd(table, i, w, reqEnd))
<1> DEFINE s == table[i]
           x == [s EXCEPT !.reqEnd = reqEnd]
<1>1. table \in Seq(Segments)
  BY DEF TablePartitioned
<1>2. SetRequestEnd(table, i, w, reqEnd) \in {table, [table EXCEPT ![i] = x]}
  BY DEF SetRequestEnd
<1>3. ASSUME i \in DOMAIN table
      PROVE  x \in Segments /\ SegmentGrows(s, x)
  <2>1. s \in Segments /\ SegmentGrows(s, s)
    BY <1>3, PartitionedSegment
  <2> HIDE DEF s
  <2>2. /\ x \in Segments
        /\ x.start = s.start /\ x.pos = s.pos /\ x.end = s.end
        /\ x.written = s.written /\ x.extra = s.extra
    BY <2>1, ChangeSegment DEF Segments
  <2> HIDE DEF x
  <2>3. QED
    BY <2>1, <2>2, HoldersGrow
<1> HIDE DEF x
<1>4. QED
  BY <1>1, <1>2, <1>3, ReplaceGrown, GrowsReflexive

\* release moves no frontier.
LEMMA ReleaseGrows ==
  ASSUME NEW table, TablePartitioned(table), NEW i, NEW w
  PROVE  /\ TablePartitioned(Release(table, i, w))
         /\ TableGrows(table, Release(table, i, w))
<1> DEFINE s == table[i]
           promoted == [s EXCEPT !.owner = s.racer, !.racer = NoWorker, !.reqEnd = 0]
           dropped == [s EXCEPT !.racer = NoWorker]
           x == IF s.owner = w THEN promoted
                ELSE IF s.racer = w THEN dropped
                ELSE s
<1>1. Release(table, i, w) = [table EXCEPT ![i] = x]
  BY DEF Release
<1>2. ASSUME i \in DOMAIN table
      PROVE  x \in Segments /\ SegmentGrows(s, x)
  <2>1. s \in Segments /\ SegmentGrows(s, s)
    BY <1>2, PartitionedSegment
  <2> HIDE DEF s
  <2>2. s.racer \in Holders /\ NoWorker \in Holders /\ 0 \in Offsets
    BY <2>1, SizesAssumption DEF Segments, Holders, Offsets
  <2>3. promoted \in Segments /\ dropped \in Segments
    <3>1. [s EXCEPT !.owner = s.racer] \in Segments
      BY <2>1, <2>2, ChangeSegment
    <3>2. [s EXCEPT !.owner = s.racer, !.racer = NoWorker] \in Segments
      BY <2>2, <3>1, ChangeSegment
    <3>3. QED
      BY <2>1, <2>2, <3>2, ChangeSegment
  <2>4. /\ promoted.start = s.start /\ promoted.pos = s.pos /\ promoted.end = s.end
        /\ promoted.written = s.written /\ promoted.extra = s.extra
        /\ dropped.start = s.start /\ dropped.pos = s.pos /\ dropped.end = s.end
        /\ dropped.written = s.written /\ dropped.extra = s.extra
    BY <2>1 DEF Segments
  <2> HIDE DEF promoted, dropped
  <2>5. SegmentGrows(s, promoted) /\ SegmentGrows(s, dropped)
    BY <2>1, <2>3, <2>4, HoldersGrow
  <2>6. QED
    BY <2>1, <2>3, <2>5
<1> HIDE DEF x
<1>3. /\ TablePartitioned([table EXCEPT ![i] = x])
      /\ TableGrows(table, [table EXCEPT ![i] = x])
  BY <1>2, ReplaceGrown
<1>4. QED
  BY <1>1, <1>3

\* advance: a frontier that moves up to a byte inside the segment keeps the partition, also when
\* the chunk is one of a racer that is behind.
LEMMA AdvanceGrows ==
  ASSUME NEW table, TablePartitioned(table), NEW i \in DOMAIN table, NEW to \in Offsets,
         to <= table[i].end
  PROVE  /\ TablePartitioned(Advance(table, i, to)) /\ TableGrows(table, Advance(table, i, to))
         /\ DOMAIN Advance(table, i, to) = DOMAIN table
         /\ Advance(table, i, to)[i].pos = Larger(table[i].pos, to)
         /\ Advance(table, i, to)[i].end = table[i].end
         /\ Done(Advance(table, i, to)[i]) =>
              Advance(table, i, to)[i].owner = NoWorker /\ Advance(table, i, to)[i].racer = NoWorker
         /\ ~Done(Advance(table, i, to)[i]) =>
              /\ Advance(table, i, to)[i].owner = table[i].owner
              /\ Advance(table, i, to)[i].racer = table[i].racer
         /\ \A j \in DOMAIN table : j # i => Advance(table, i, to)[j] = table[j]
<1> DEFINE s == table[i]
           pos == Larger(s.pos, to)
           finished == [s EXCEPT !.pos = pos, !.owner = NoWorker, !.racer = NoWorker]
           moved == [s EXCEPT !.pos = pos]
           x == IF pos >= s.end THEN finished ELSE moved
<1>1. s \in Segments /\ SegmentGrows(s, s) /\ s.pos <= s.end
  BY PartitionedSegment
<1>2. pos \in Offsets /\ s.pos <= pos /\ pos <= s.end
  BY <1>1, SegmentNumbers, SizesAssumption DEF Larger, Offsets
<1>3. Advance(table, i, to) = [table EXCEPT ![i] = x]
  BY DEF Advance
<1>4. /\ x \in Segments /\ SegmentGrows(s, x) /\ x.pos = pos /\ x.end = s.end
      /\ Done(x) => x.owner = NoWorker /\ x.racer = NoWorker
      /\ ~Done(x) => x.owner = s.owner /\ x.racer = s.racer
  <2> HIDE DEF s, pos
  <2>1. moved \in Segments /\ moved.pos = pos
    BY <1>1, <1>2, ChangeSegment DEF Segments
  <2>2. finished \in Segments
    <3>1. NoWorker \in Holders
      BY DEF Holders
    <3>2. [moved EXCEPT !.owner = NoWorker] \in Segments
      BY <2>1, <3>1, ChangeSegment
    <3>3. [[moved EXCEPT !.owner = NoWorker] EXCEPT !.racer = NoWorker] \in Segments
      BY <3>1, <3>2, ChangeSegment
    <3>4. QED
      BY <3>3
  <2>3. /\ moved.start = s.start /\ moved.end = s.end /\ moved.written = s.written
        /\ moved.extra = s.extra /\ moved.owner = s.owner /\ moved.racer = s.racer
        /\ finished.start = s.start /\ finished.end = s.end /\ finished.written = s.written
        /\ finished.extra = s.extra /\ finished.pos = pos
        /\ finished.owner = NoWorker /\ finished.racer = NoWorker
    BY <1>1 DEF Segments
  <2> HIDE DEF moved, finished
  <2>4. x \in {moved, finished} /\ x = IF pos >= s.end THEN finished ELSE moved
    OBVIOUS
  <2> HIDE DEF x
  <2>5. /\ x \in Segments /\ x.pos = pos /\ x.end = s.end /\ x.start = s.start
        /\ x.written = s.written /\ x.extra = s.extra
    BY <2>1, <2>2, <2>3, <2>4
  <2>6. SegmentGrows(s, x)
    BY <1>1, <1>2, <2>5, SegmentNumbers DEF SegmentGrows, FrontiersOrdered
  <2>7. /\ Done(x) => x.owner = NoWorker /\ x.racer = NoWorker
        /\ ~Done(x) => x.owner = s.owner /\ x.racer = s.racer
    BY <2>3, <2>4, <2>5 DEF Done
  <2>8. QED
    BY <2>5, <2>6, <2>7
<1> HIDE DEF x, pos
<1>5. /\ TablePartitioned([table EXCEPT ![i] = x])
      /\ TableGrows(table, [table EXCEPT ![i] = x])
  BY <1>4, ReplaceGrown
<1>6. table \in Seq(Segments)
  BY DEF TablePartitioned
<1>7. /\ DOMAIN [table EXCEPT ![i] = x] = DOMAIN table
      /\ \A j \in DOMAIN table : [table EXCEPT ![i] = x][j] = IF j = i THEN x ELSE table[j]
  BY <1>4, <1>6, ReplaceOne
<1>8. QED
  BY <1>3, <1>4, <1>5, <1>7 DEF pos

\* acquire: the two parts of a split segment cover what it covered, and do not overlap.
LEMMA SplitGrows ==
  ASSUME NEW table, TablePartitioned(table), NEW i \in Splittable(table), NEW w \in Workers
  PROVE  /\ TablePartitioned(Split(table, i, w)) /\ TableGrows(table, Split(table, i, w))
<1> DEFINE s == table[i]
           at == SplitPoint(s)
           n == Len(table) + 1
           u == Split(table, i, w)
           left == [s EXCEPT !.end = at]
           right == [NewSegment(at, at, s.end) EXCEPT !.owner = w]
<1>1. table \in Seq(Segments) /\ i \in DOMAIN table /\ DOMAIN table = 1 .. Len(table)
      /\ Len(table) \in Nat
  BY DEF TablePartitioned, Splittable
<1>2. /\ s \in Segments /\ FrontiersOrdered(s) /\ s.start <= s.pos /\ s.pos <= s.end
  BY <1>1, PartitionedSegment
<1>3. at \in Offsets /\ s.pos < at /\ at < s.end /\ at \in Nat
  BY <1>2, SplitPointInside, SizesAssumption DEF Splittable, Offsets
<1>4. /\ u \in Seq(Segments) /\ DOMAIN u = 1 .. n /\ u[n] = right
      /\ \A j \in DOMAIN table : u[j] = IF j = i THEN left ELSE table[j]
  BY <1>1, SplitType
<1> HIDE DEF at
<1>5. /\ left.start = s.start /\ left.pos = s.pos /\ left.end = at /\ left.written = s.written
      /\ left.extra = s.extra
      /\ right.start = at /\ right.pos = at /\ right.end = s.end /\ right.written = at
      /\ right.extra = NoRange
  BY <1>2 DEF Segments, NewSegment
<1> HIDE DEF left, right, u
<1>6. n \notin DOMAIN table /\ DOMAIN u = DOMAIN table \cup {n} /\ i # n
  BY <1>1, <1>4
<1> HIDE DEF n
<1>7. /\ s.start \in Nat /\ s.pos \in Nat /\ s.end \in Nat /\ s.written \in Nat
      /\ s.extra.to \in Nat
  BY <1>2, SegmentNumbers
<1>8. /\ FrontiersOrdered(left) /\ left.start <= left.pos /\ left.pos <= left.end
      /\ FrontiersOrdered(right) /\ right.start <= right.pos /\ right.pos <= right.end
  BY <1>2, <1>3, <1>5, <1>7 DEF FrontiersOrdered, NoRange
<1>9. \A j \in DOMAIN u : FrontiersOrdered(u[j]) /\ u[j].start <= u[j].pos /\ u[j].pos <= u[j].end
  BY <1>4, <1>6, <1>8, PartitionedSegment
<1>10. \A b \in Bytes : \E j \in DOMAIN u : u[j].start <= b /\ b < u[j].end
  <2>1. SUFFICES ASSUME NEW b \in Bytes
                 PROVE  \E j \in DOMAIN u : u[j].start <= b /\ b < u[j].end
    OBVIOUS
  <2>2. PICK j \in DOMAIN table : table[j].start <= b /\ b < table[j].end
    BY DEF TablePartitioned, ValidStates
  <2>3. b \in Int
    BY DEF Bytes
  <2>4. CASE j # i
    BY <1>4, <1>6, <2>2, <2>4
  <2>5. CASE j = i /\ b < at
    BY <1>4, <1>5, <1>6, <2>2, <2>5
  <2>6. CASE j = i /\ ~(b < at)
    <3>1. n \in DOMAIN u /\ u[n].start = at /\ u[n].end = s.end
      BY <1>4, <1>5, <1>6
    <3>2. at <= b /\ b < s.end
      BY <1>3, <2>2, <2>3, <2>6
    <3>3. QED
      BY <3>1, <3>2
  <2>7. QED
    BY <2>4, <2>5, <2>6
<1>11. \A j, k \in DOMAIN u : j # k => u[j].end <= u[k].start \/ u[k].end <= u[j].start
  <2>1. \A j, k \in DOMAIN table :
          j # k => table[j].end <= table[k].start \/ table[k].end <= table[j].start
    BY DEF TablePartitioned, ValidStates
  <2>2. \A j \in DOMAIN table : table[j].start \in Nat /\ table[j].end \in Nat
    BY <1>1, PartitionedSegment, SegmentNumbers
  <2>3. ASSUME NEW j \in DOMAIN table, NEW k \in DOMAIN table, j # k
        PROVE  u[j].end <= u[k].start \/ u[k].end <= u[j].start
    <3>1. CASE j # i /\ k # i
      BY <1>4, <2>1, <2>3, <3>1
    <3>2. CASE j = i /\ k # i
      <4>1. u[j].start = s.start /\ u[j].end = at /\ u[k] = table[k]
        BY <1>4, <1>5, <3>2
      <4>2. s.end <= table[k].start \/ table[k].end <= s.start
        BY <2>1, <3>2
      <4>3. QED
        BY <1>3, <1>7, <2>2, <4>1, <4>2
    <3>3. CASE j # i /\ k = i
      <4>1. u[k].start = s.start /\ u[k].end = at /\ u[j] = table[j]
        BY <1>4, <1>5, <3>3
      <4>2. s.end <= table[j].start \/ table[j].end <= s.start
        BY <2>1, <3>3
      <4>3. QED
        BY <1>3, <1>7, <2>2, <4>1, <4>2
    <3>4. QED
      BY <2>3, <3>1, <3>2, <3>3
  <2>4. ASSUME NEW j \in DOMAIN table
        PROVE  u[j].end <= u[n].start \/ u[n].end <= u[j].start
    <3>1. CASE j = i
      BY <1>3, <1>4, <1>5, <3>1
    <3>2. CASE j # i
      <4>1. u[n].start = at /\ u[n].end = s.end /\ u[j] = table[j]
        BY <1>4, <1>5, <3>2
      <4>2. s.end <= table[j].start \/ table[j].end <= s.start
        BY <1>1, <2>1, <3>2
      <4>3. s.start <= at
        BY <1>2, <1>3, <1>7
      <4>4. QED
        BY <1>3, <1>7, <2>2, <4>1, <4>2, <4>3
    <3>3. QED
      BY <3>1, <3>2
  <2>5. QED
    BY <1>6, <2>3, <2>4
<1>12. TablePartitioned(u)
  <2>1. ValidStates(u)
    BY <1>9, <1>10, <1>11 DEF ValidStates
  <2>2. QED
    BY <1>4, <1>9, <2>1 DEF TablePartitioned
<1>13. TableGrows(table, u)
  <2>1. ASSUME NEW j \in DOMAIN table
        PROVE  /\ j \in DOMAIN u /\ u[j].start = table[j].start
               /\ u[j].pos >= table[j].pos /\ u[j].written >= table[j].written
               /\ u[j].end <= table[j].end
    <3>1. table[j] \in Segments
      BY <1>1
    <3>2. table[j].pos \in Nat /\ table[j].written \in Nat /\ table[j].end \in Nat
      BY <3>1, SegmentNumbers
    <3>3. CASE j # i
      <4>1. j \in DOMAIN u /\ u[j] = table[j]
        BY <1>4, <1>6, <3>3
      <4>2. QED
        BY <3>2, <4>1
    <3>4. CASE j = i
      <4>1. j \in DOMAIN u /\ u[j] = left /\ table[j] = s
        BY <1>4, <1>6, <3>4
      <4>2. /\ left.start = s.start /\ left.pos = s.pos /\ left.end = at
            /\ left.written = s.written
        BY <1>5
      <4>3. at <= s.end
        BY <1>3, <1>7
      <4>4. QED
        BY <3>2, <4>1, <4>2, <4>3
    <3>5. QED
      BY <3>3, <3>4
  <2>2. QED
    BY <2>1 DEF TableGrows
<1>14. QED
  BY <1>12, <1>13 DEF u

\* on_flushed changes `written` and `extra` alone, and keeps both below the receive frontier.
FlushGrows(s, x) ==
  /\ x \in Segments
  /\ x.start = s.start /\ x.pos = s.pos /\ x.end = s.end
  /\ x.owner = s.owner /\ x.racer = s.racer
  /\ s.written <= x.written /\ x.written <= s.pos
  /\ x.extra.to <= s.pos

\* Changing the flushed frontiers leaves the other fields alone.
LEMMA ChangeFlushFields ==
  ASSUME NEW s \in Segments, NEW v
  PROVE  /\ [s EXCEPT !.written = v].start = s.start /\ [s EXCEPT !.extra = v].start = s.start
         /\ [s EXCEPT !.written = v].pos = s.pos /\ [s EXCEPT !.extra = v].pos = s.pos
         /\ [s EXCEPT !.written = v].end = s.end /\ [s EXCEPT !.extra = v].end = s.end
         /\ [s EXCEPT !.written = v].owner = s.owner /\ [s EXCEPT !.extra = v].owner = s.owner
         /\ [s EXCEPT !.written = v].racer = s.racer /\ [s EXCEPT !.extra = v].racer = s.racer
         /\ [s EXCEPT !.written = v].extra = s.extra /\ [s EXCEPT !.written = v].written = v
         /\ [s EXCEPT !.extra = v].written = s.written /\ [s EXCEPT !.extra = v].extra = v
BY DEF Segments

\* The range kept ahead of a gap ends where the old or the new one does.
LEMMA ExtraAfterEnd ==
  ASSUME NEW s \in Segments, NEW from \in Offsets, NEW to \in Offsets, NEW p \in Nat,
         s.extra.to <= p, to <= p
  PROVE  ExtraAfter(s, from, to) \in Ranges /\ ExtraAfter(s, from, to).to <= p
<1> DEFINE new == [from |-> from, to |-> to]
           joined == [from |-> Smaller(s.extra.from, from), to |-> Larger(s.extra.to, to)]
<1>1. /\ s.extra \in Ranges /\ s.extra.from \in Offsets /\ s.extra.to \in Offsets
      /\ s.extra.from \in Nat /\ s.extra.to \in Nat /\ from \in Nat /\ to \in Nat
  BY SegmentNumbers, SizesAssumption DEF Offsets
<1>2. new \in Ranges /\ new.to <= p
  BY DEF Ranges
<1>3. joined \in Ranges /\ joined.to <= p
  <2>1. Smaller(s.extra.from, from) \in Offsets
    BY <1>1 DEF Smaller
  <2>2. Larger(s.extra.to, to) \in Offsets /\ Larger(s.extra.to, to) <= p
    BY <1>1 DEF Larger
  <2>3. QED
    BY <2>1, <2>2 DEF Ranges
<1>4. ExtraAfter(s, from, to) \in {new, joined, s.extra}
  BY DEF ExtraAfter
<1>5. QED
  BY <1>1, <1>2, <1>3, <1>4

\* on_flushed: `written` never goes back, never passes what was received, and no holder changes,
\* in whatever order the ranges of racing workers are flushed.
LEMMA FlushedSegmentGrows ==
  ASSUME NEW s \in Segments, SegmentGrows(s, s), NEW from \in Offsets, NEW to \in Offsets,
         to <= s.pos
  PROVE  FlushGrows(s, FlushedSegment(s, from, to))
<1> DEFINE r == IF from <= s.written
                THEN [s EXCEPT !.written = Larger(s.written, to)]
                ELSE [s EXCEPT !.extra = ExtraAfter(s, from, to)]
           m == MergeExtra(r)
           c == ClampWritten(m)
<1>1. /\ s.written <= s.pos /\ s.extra.to <= s.pos /\ s.pos <= s.end /\ s.start <= s.written
  BY DEF SegmentGrows, FrontiersOrdered
<1>2. /\ s.pos \in Nat /\ s.written \in Nat /\ s.written \in Offsets /\ to \in Nat
      /\ s.start \in Nat /\ s.end \in Nat
  BY SegmentNumbers, SizesAssumption DEF Offsets
<1>3. FlushGrows(s, r)
  <2>1. Larger(s.written, to) \in Offsets /\ Larger(s.written, to) <= s.pos
        /\ s.written <= Larger(s.written, to)
    BY <1>1, <1>2 DEF Larger
  <2>2. [s EXCEPT !.written = Larger(s.written, to)] \in Segments
    BY <2>1, ChangeSegment
  <2>3. FlushGrows(s, [s EXCEPT !.written = Larger(s.written, to)])
    BY <1>1, <2>1, <2>2, ChangeFlushFields DEF FlushGrows
  <2>4. ExtraAfter(s, from, to) \in Ranges /\ ExtraAfter(s, from, to).to <= s.pos
    BY <1>1, <1>2, ExtraAfterEnd
  <2>5. [s EXCEPT !.extra = ExtraAfter(s, from, to)] \in Segments
    BY <2>4, ChangeSegment
  <2>6. FlushGrows(s, [s EXCEPT !.extra = ExtraAfter(s, from, to)])
    BY <1>1, <1>2, <2>4, <2>5, ChangeFlushFields DEF FlushGrows
  <2>7. QED
    BY <2>3, <2>6
<1> HIDE DEF r
<1>4. FlushGrows(s, m)
  <2> DEFINE w == Larger(r.written, r.extra.to)
             grown == [r EXCEPT !.written = w]
  <2>1. r \in Segments
    BY <1>3 DEF FlushGrows
  <2>2. r.written \in Offsets /\ r.extra.to \in Offsets /\ r.written \in Nat /\ r.extra.to \in Nat
    BY <2>1, SegmentNumbers
  <2>3. w \in Offsets /\ s.written <= w /\ w <= s.pos
    BY <1>2, <1>3, <2>2 DEF Larger, FlushGrows
  <2> HIDE DEF w
  <2>4. grown \in Segments
    BY <2>1, <2>3, ChangeSegment
  <2>5. NoRange \in Ranges /\ NoRange.to = 0
    BY SizesAssumption DEF NoRange, Ranges, Offsets
  <2>6. /\ grown.start = r.start /\ grown.pos = r.pos /\ grown.end = r.end
        /\ grown.owner = r.owner /\ grown.racer = r.racer /\ grown.written = w
    BY <2>1, ChangeFlushFields
  <2> DEFINE merged == [grown EXCEPT !.extra = NoRange]
  <2>7. merged = [r EXCEPT !.written = w, !.extra = NoRange]
    OBVIOUS
  <2> HIDE DEF grown
  <2>8. merged \in Segments
    BY <2>4, <2>5, ChangeSegment
  <2>9. /\ merged.start = r.start /\ merged.pos = r.pos /\ merged.end = r.end
        /\ merged.owner = r.owner /\ merged.racer = r.racer /\ merged.written = w
        /\ merged.extra = NoRange
    BY <2>4, <2>6, ChangeFlushFields
  <2> HIDE DEF merged
  <2>10. FlushGrows(s, merged)
    BY <1>2, <1>3, <2>3, <2>5, <2>8, <2>9 DEF FlushGrows
  <2>11. m = r \/ m = merged
    BY <2>7 DEF MergeExtra, w
  <2>12. QED
    BY <1>3, <2>10, <2>11
<1> HIDE DEF m
<1>5. FlushGrows(s, c)
  <2> DEFINE w == Smaller(m.written, Larger(m.end, m.start))
  <2>1. m \in Segments /\ m.end = s.end /\ m.start = s.start
        /\ s.written <= m.written /\ m.written <= s.pos
    BY <1>4 DEF FlushGrows
  <2>2. m.written \in Offsets /\ m.written \in Nat
    BY <2>1, SegmentNumbers
  <2>3. w = m.written
    BY <1>1, <1>2, <2>1, <2>2 DEF Smaller, Larger
  <2>4. c = [m EXCEPT !.written = w]
    BY DEF ClampWritten
  <2> HIDE DEF w
  <2>5. c \in Segments
    BY <2>1, <2>2, <2>3, <2>4, ChangeSegment
  <2>6. /\ c.start = m.start /\ c.pos = m.pos /\ c.end = m.end /\ c.owner = m.owner
        /\ c.racer = m.racer /\ c.extra = m.extra /\ c.written = w
    BY <2>1, <2>4, ChangeFlushFields
  <2> HIDE DEF c
  <2>7. QED
    BY <1>4, <2>3, <2>5, <2>6 DEF FlushGrows
<1>6. FlushedSegment(s, from, to) = c
  BY DEF FlushedSegment, r, m
<1>7. QED
  BY <1>5, <1>6

\* on_flushed: a flushed piece that was received keeps the partition and moves nothing else.
LEMMA OnFlushedGrows ==
  ASSUME NEW table, TablePartitioned(table), NEW i \in DOMAIN table,
         NEW from \in Offsets, NEW to \in Offsets, to <= table[i].pos
  PROVE  /\ TablePartitioned(OnFlushed(table, i, from, to))
         /\ TableGrows(table, OnFlushed(table, i, from, to))
         /\ DOMAIN OnFlushed(table, i, from, to) = DOMAIN table
         /\ \A j \in DOMAIN table :
              /\ OnFlushed(table, i, from, to)[j].start = table[j].start
              /\ OnFlushed(table, i, from, to)[j].pos = table[j].pos
              /\ OnFlushed(table, i, from, to)[j].end = table[j].end
              /\ OnFlushed(table, i, from, to)[j].owner = table[j].owner
              /\ OnFlushed(table, i, from, to)[j].racer = table[j].racer
<1> DEFINE s == table[i]
           x == FlushedSegment(s, from, to)
           u == [table EXCEPT ![i] = x]
<1>1. s \in Segments /\ SegmentGrows(s, s)
  BY PartitionedSegment
<1>2. FlushGrows(s, x)
  BY <1>1, FlushedSegmentGrows
<1>3. OnFlushed(table, i, from, to) = u
  BY DEF OnFlushed
<1> HIDE DEF x
<1>4. x \in Segments /\ SegmentGrows(s, x)
  <2>1. x \in Segments
    BY <1>2 DEF FlushGrows
  <2>2. QED
    BY <1>1, <1>2, <2>1, SegmentNumbers DEF SegmentGrows, FlushGrows, FrontiersOrdered
<1>5. TablePartitioned(u) /\ TableGrows(table, u)
  BY <1>4, ReplaceGrown
<1>6. /\ DOMAIN u = DOMAIN table
      /\ \A j \in DOMAIN table : u[j] = IF j = i THEN x ELSE table[j]
  BY <1>4, ReplaceOne DEF TablePartitioned
<1> HIDE DEF u
<1>7. QED
  BY <1>2, <1>3, <1>5, <1>6 DEF FlushGrows

\* SegmentTable::new: one segment for the whole file.
LEMMA FreshTablePartitioned == TablePartitioned(FreshTable)
<1> DEFINE s == NewSegment(0, 0, Total)
<1>1. FreshTable \in Seq(Segments) /\ FreshTable = << s >>
  BY FreshTableType DEF FreshTable
<1>2. /\ s.start = 0 /\ s.pos = 0 /\ s.end = Total /\ s.written = 0 /\ s.extra.to = 0
  BY DEF NewSegment, NoRange
<1> HIDE DEF s
<1>3. DOMAIN FreshTable = {1} /\ FreshTable[1] = s
  BY <1>1
<1>4. FrontiersOrdered(s)
  BY <1>2 DEF FrontiersOrdered
<1>5. ValidStates(FreshTable)
  BY <1>2, <1>3, SizesAssumption DEF ValidStates, Bytes
<1>6. QED
  BY <1>1, <1>3, <1>4, <1>5 DEF TablePartitioned

\* from_states: a resume state that validate() accepts gives a partitioned table.
LEMMA FromStatesPartitioned ==
  ASSUME NEW states \in Seq(SegmentStates), ValidStates(states)
  PROVE  TablePartitioned(FromStates(states))
<1> DEFINE u == FromStates(states)
<1>1. u \in Seq(Segments) /\ DOMAIN u = DOMAIN states
  BY FromStatesType
<1>2. \A i \in DOMAIN states :
        /\ u[i].start = states[i].start /\ u[i].pos = states[i].pos /\ u[i].end = states[i].end
        /\ u[i].written = states[i].pos /\ u[i].extra.to = 0
  BY DEF FromStates, NewSegment, NoRange
<1> HIDE DEF u
<1>3. \A i \in DOMAIN states : states[i] \in SegmentStates
  OBVIOUS
<1>4. \A i \in DOMAIN states : FrontiersOrdered(u[i])
  <2>1. ASSUME NEW i \in DOMAIN states
        PROVE  FrontiersOrdered(u[i])
    <3>1. states[i].pos \in Nat /\ states[i].start \in Nat
      BY <1>3, SizesAssumption DEF SegmentStates, Offsets
    <3>2. states[i].start <= states[i].pos
      BY DEF ValidStates
    <3>3. QED
      BY <1>2, <3>1, <3>2 DEF FrontiersOrdered
  <2>2. QED
    BY <2>1
<1>5. ValidStates(u)
  BY <1>1, <1>2 DEF ValidStates
<1>6. QED
  BY <1>1, <1>4, <1>5 DEF TablePartitioned, u

\* durable_states: whatever has been flushed so far, validate() accepts the state.
LEMMA DurableStatesValid ==
  ASSUME NEW table, TablePartitioned(table)
  PROVE  ValidStates(DurableStates(table))
<1> DEFINE d == DurableStates(table)
<1>1. /\ DOMAIN d = DOMAIN table
      /\ \A i \in DOMAIN table : d[i] = DurableState(table[i])
  BY DEF DurableStates
<1> HIDE DEF d
<1>2. \A i \in DOMAIN table : d[i].start = table[i].start /\ d[i].end = table[i].end
  BY <1>1 DEF DurableState
<1>3. \A i \in DOMAIN d : d[i].start <= d[i].pos /\ d[i].pos <= d[i].end
  <2>1. ASSUME NEW i \in DOMAIN table
        PROVE  d[i].start <= d[i].pos /\ d[i].pos <= d[i].end
    <3>1. /\ table[i] \in Segments
          /\ table[i].start <= table[i].pos /\ table[i].pos <= table[i].end
      BY PartitionedSegment
    <3>2. table[i].start \in Nat /\ table[i].pos \in Nat /\ table[i].end \in Nat
          /\ table[i].written \in Nat
      BY <3>1, SegmentNumbers
    <3>3. d[i].pos = Larger(Smaller(table[i].written, table[i].end), table[i].start)
      BY <1>1 DEF DurableState
    <3>4. QED
      BY <1>2, <3>1, <3>2, <3>3 DEF Larger, Smaller
  <2>2. QED
    BY <1>1, <2>1
<1>4. QED
  BY <1>1, <1>2, <1>3 DEF TablePartitioned, ValidStates, d

-----------------------------------------------------------------------------
(***************************************************************************)
(* Types.  A worker's assignment is an index of the table, which is what   *)
(* makes the type of what it reads there known.                            *)
(***************************************************************************)
AssignedInTable == \A w \in Workers : wk[w].pc \in Assigned => wk[w].seg \in DOMAIN segs

TypeInvariant == TypeOK /\ AssignedInTable

\* A run starts with no worker of an earlier one.
NobodyBetweenRuns == phase = "off" => \A w \in Workers : wk[w].pc = "off"

\* The constants the operators use are offsets.
LEMMA ZeroOffset == 0 \in Offsets /\ Total \in Offsets /\ Offsets \subseteq Nat
BY SizesAssumption DEF Offsets

\* The worker records written as literals have the type.
LEMMA OffWorkers == Off \in WorkerRecords /\ Idle \in WorkerRecords
BY ZeroOffset DEF Off, Idle, WorkerRecords, WorkerStates, Assigned

\* A fresh assignment is a worker record.
LEMMA AssignedToType ==
  ASSUME NEW i \in Nat, NEW cursor \in Offsets, NEW race \in BOOLEAN
  PROVE  AssignedTo(i, cursor, race) \in WorkerRecords
BY ZeroOffset DEF AssignedTo, WorkerRecords, WorkerStates, Assigned

\* Flush and Close messages have the type.
LEMMA ControlType == ASSUME NEW kind \in Flushes PROVE Control(kind) \in Messages
BY DEF Control, Messages

\* durable_states returns resume states.
LEMMA DurableStatesType ==
  ASSUME NEW table \in Seq(Segments)
  PROVE  DurableStates(table) \in Seq(SegmentStates)
<1>1. /\ table \in [1 .. Len(table) -> Segments]
      /\ Len(table) \in Nat /\ DOMAIN table = 1 .. Len(table)
  OBVIOUS
<1>2. ASSUME NEW s \in Segments PROVE DurableState(s) \in SegmentStates
  BY DEF DurableState, SegmentStates, Segments, Larger, Smaller
<1>3. DurableStates(table) \in [1 .. Len(table) -> SegmentStates]
  BY <1>1, <1>2 DEF DurableStates
<1>4. QED
  BY <1>1, <1>3

\* The initial state has the types.
LEMMA InitType == Init => TypeInvariant
<1> SUFFICES ASSUME Init PROVE TypeInvariant
  OBVIOUS
<1>1. segs \in Seq(Segments)
  BY FreshTableType DEF Init
<1>2. wk \in [Workers -> WorkerRecords]
  BY OffWorkers DEF Init
<1>3. buffer \in [Workers -> Buffers]
  BY ZeroOffset DEF Init, Buffers, NoBuffer, NoBuffers
<1>4. /\ chan \in Seq(Messages) /\ final \in Seq(SegmentStates) /\ saved \in Seq(SegmentStates)
      /\ ckpt \in Checkpoints
  BY DEF Init, Checkpoints, NoCheckpoint
<1>5. count \in [runs : 0 .. MaxRuns, checkpoints : 0 .. MaxCheckpoints, crashes : 0 .. MaxCrashes]
  BY TransferAssumption DEF Init
<1>6. TypeOK
  BY <1>1, <1>2, <1>3, <1>4, <1>5 DEF Init, TypeOK, Phases
<1>7. AssignedInTable
  BY DEF Init, AssignedInTable, Off, Assigned
<1>8. QED
  BY <1>6, <1>7 DEF TypeInvariant

\* A step that gives one worker a record and replaces the table by one with at least the
\* same indexes keeps the types.
LEMMA WorkerTyped ==
  ASSUME TypeInvariant,
         NEW w \in Workers, NEW r \in WorkerRecords, NEW table \in Seq(Segments),
         DOMAIN segs \subseteq DOMAIN table,
         r.pc \in Assigned => r.seg \in DOMAIN table,
         wk' = [wk EXCEPT ![w] = r], segs' = table,
         chan' \in Seq(Messages),
         UNCHANGED << writerVars, storageVars, savedVars, jobVars, count >>
  PROVE  TypeInvariant'
<1>1. wk' \in [Workers -> WorkerRecords]
  BY DEF TypeInvariant, TypeOK
<1>2. TypeOK'
  BY <1>1 DEF TypeInvariant, TypeOK, writerVars, storageVars, savedVars, jobVars
<1>3. AssignedInTable'
  BY DEF TypeInvariant, TypeOK, AssignedInTable
<1>4. QED
  BY <1>2, <1>3 DEF TypeInvariant

\* A worker keeps an index of the table when it opens its assignment again.
LEMMA ReassignedType ==
  ASSUME TypeInvariant, NEW w \in Workers, wk[w].pc \in Assigned
  PROVE  /\ wk[w].seg \in DOMAIN segs /\ wk[w].seg \in Nat
         /\ segs[wk[w].seg] \in Segments
         /\ wk[w].cursor \in Offsets
         /\ AssignedTo(wk[w].seg, wk[w].cursor, wk[w].race) \in WorkerRecords
<1>1. wk[w] \in WorkerRecords /\ segs \in Seq(Segments)
  BY DEF TypeInvariant, TypeOK
<1>2. wk[w].seg \in DOMAIN segs
  BY DEF TypeInvariant, AssignedInTable
<1>3. QED
  BY <1>1, <1>2, AssignedToType DEF WorkerRecords

\* Taking a segment: the new record points into the new table.
LEMMA TakeType ==
  ASSUME TypeInvariant, NEW w \in Workers, NEW table \in Seq(Segments), NEW i \in DOMAIN table,
         NEW race \in BOOLEAN, DOMAIN segs \subseteq DOMAIN table, Take(w, table, i, race),
         UNCHANGED << chan, writerVars, storageVars, savedVars, jobVars, count >>
  PROVE  TypeInvariant'
<1>1. i \in Nat /\ table[i].pos \in Offsets
  <2>1. DOMAIN table = 1 .. Len(table) /\ table[i] \in Segments
    OBVIOUS
  <2>2. QED
    BY <2>1 DEF Segments
<1>2. AssignedTo(i, table[i].pos, race) \in WorkerRecords
  BY <1>1, AssignedToType
<1>3. AssignedTo(i, table[i].pos, race).seg = i
  BY DEF AssignedTo
<1>4. /\ wk' = [wk EXCEPT ![w] = AssignedTo(i, table[i].pos, race)]
      /\ segs' = table
  BY DEF Take
<1>5. chan' \in Seq(Messages)
  BY DEF TypeInvariant, TypeOK
<1>6. QED
  BY <1>2, <1>3, <1>4, <1>5, WorkerTyped

\* Acquiring work keeps the types, in each of its three ways.
LEMMA AcquireTypes ==
  ASSUME TypeInvariant, NEW w \in Workers, Acquire(w)
  PROVE  TypeInvariant'
<1>1. segs \in Seq(Segments)
  BY DEF TypeInvariant, TypeOK
<1>2. UNCHANGED << chan, writerVars, storageVars, savedVars, jobVars, count >>
  BY DEF Acquire
<1>3. ASSUME NEW i \in LargestOf(segs, Unowned(segs)), Take(w, TakeOwner(segs, i, w), i, FALSE)
      PROVE  TypeInvariant'
  <2>1. i \in DOMAIN segs
    BY DEF LargestOf, Unowned
  <2>2. TakeOwner(segs, i, w) \in Seq(Segments) /\ DOMAIN TakeOwner(segs, i, w) = DOMAIN segs
    BY <1>1, <2>1, TakeOwnerType
  <2>3. QED
    BY <1>2, <1>3, <2>1, <2>2, TakeType
<1>4. ASSUME NEW i \in LargestOf(segs, Splittable(segs)),
             Take(w, Split(segs, i, w), Len(segs) + 1, FALSE)
      PROVE  TypeInvariant'
  <2>1. i \in Splittable(segs)
    BY DEF LargestOf
  <2>2. /\ Split(segs, i, w) \in Seq(Segments)
        /\ DOMAIN Split(segs, i, w) = 1 .. Len(segs) + 1
    BY <1>1, <2>1, SplitType
  <2>3. DOMAIN segs \subseteq 1 .. Len(segs) + 1 /\ Len(segs) + 1 \in 1 .. Len(segs) + 1
    BY <1>1
  <2>4. QED
    BY <1>2, <1>4, <2>2, <2>3, TakeType
<1>5. ASSUME NEW i \in Raceable(segs), Take(w, TakeRacer(segs, i, w), i, TRUE)
      PROVE  TypeInvariant'
  <2>1. i \in DOMAIN segs
    BY DEF Raceable
  <2>2. TakeRacer(segs, i, w) \in Seq(Segments) /\ DOMAIN TakeRacer(segs, i, w) = DOMAIN segs
    BY <1>1, <2>1, TakeRacerType
  <2>3. QED
    BY <1>2, <1>5, <2>1, <2>2, TakeType
<1>6. QED
  BY <1>3, <1>4, <1>5 DEF Acquire

\* Leaving without or with an assignment: the table is as it was, or released.
LEMMA LeaveType ==
  ASSUME TypeInvariant, NEW w \in Workers, NEW r \in WorkerRecords, r.pc \notin Assigned,
         wk' = [wk EXCEPT ![w] = r],
         segs' = segs \/ segs' = Release(segs, wk[w].seg, w),
         UNCHANGED << chan, writerVars, storageVars, savedVars, jobVars, count >>
  PROVE  TypeInvariant'
<1>1. segs \in Seq(Segments) /\ chan \in Seq(Messages)
  BY DEF TypeInvariant, TypeOK
<1>2. segs' \in Seq(Segments) /\ DOMAIN segs' = DOMAIN segs
  BY <1>1, ReleaseType
<1>3. QED
  BY <1>1, <1>2, WorkerTyped

\* Off, Idle and a failed worker hold nothing.
LEMMA Unassigned ==
  /\ Off.pc \notin Assigned /\ Idle.pc \notin Assigned
  /\ \A exit \in {"off", "gaveup", "fatal"} :
       [Off EXCEPT !.pc = exit] \in WorkerRecords /\ [Off EXCEPT !.pc = exit].pc \notin Assigned
<1>1. Off.pc = "off" /\ Idle.pc = "idle"
  BY DEF Off, Idle
<1>2. ASSUME NEW exit \in {"off", "gaveup", "fatal"}
      PROVE  [Off EXCEPT !.pc = exit] \in WorkerRecords /\ [Off EXCEPT !.pc = exit].pc = exit
  BY ZeroOffset DEF Off, WorkerRecords, WorkerStates
<1>3. QED
  BY <1>1, <1>2 DEF Assigned

\* Opening a request keeps the types: what the server promises lies inside the segment.
LEMMA OpenTypes ==
  ASSUME TypeInvariant, NEW w \in Workers, Open(w)
  PROVE  TypeInvariant'
<1> DEFINE a == wk[w]
           end == segs[a.seg].end
<1>1. /\ segs \in Seq(Segments) /\ chan \in Seq(Messages) /\ a \in WorkerRecords
      /\ wk \in [Workers -> WorkerRecords]
  BY DEF TypeInvariant, TypeOK
<1>2. a.pc = "open" /\ a.pc \in Assigned
  BY DEF Open, Assigned
<1>3. /\ a.seg \in DOMAIN segs /\ segs[a.seg] \in Segments /\ a.cursor \in Offsets
  BY <1>2, ReassignedType
<1>4. end \in Offsets
  BY <1>3 DEF Segments
<1>5. UNCHANGED << chan, writerVars, storageVars, savedVars, jobVars, count >>
  BY DEF Open
<1>6. CASE a.cursor >= end
  <2>1. wk' = [wk EXCEPT ![w] = Idle] /\ segs' = segs
    BY <1>6 DEF Open
  <2>2. QED
    BY <1>5, <2>1, LeaveType, OffWorkers, Unassigned
<1>7. CASE ~(a.cursor >= end)
  <2>1. PICK n \in RequestSizes :
          LET reqEnd == IF a.race THEN end ELSE RequestEnd(a.cursor, end, n)
          IN  /\ segs' = IF a.race THEN segs ELSE SetRequestEnd(segs, a.seg, w, reqEnd)
              /\ \E promised \in a.cursor + 1 .. reqEnd :
                   wk' = [wk EXCEPT ![w].pc = "pump", ![w].reqEnd = promised]
    BY <1>7 DEF Open
  <2> DEFINE reqEnd == IF a.race THEN end ELSE RequestEnd(a.cursor, end, n)
  <2>2. n \in Nat \ {0}
    BY TransferAssumption
  <2>3. reqEnd \in Offsets
    BY <1>3, <1>4, <1>7, <2>2, ZeroOffset, SizesAssumption DEF RequestEnd, Smaller, Offsets
  <2>4. PICK promised \in a.cursor + 1 .. reqEnd :
          wk' = [wk EXCEPT ![w].pc = "pump", ![w].reqEnd = promised]
    BY <2>1
  <2>5. promised \in Offsets
    BY <1>3, <2>3, SizesAssumption DEF Offsets
  <2> DEFINE r == [a EXCEPT !.pc = "pump", !.reqEnd = promised]
  <2>6. r \in WorkerRecords /\ r.seg = a.seg
    <3> HIDE DEF a
    <3>1. "pump" \in WorkerStates
      BY DEF WorkerStates, Assigned
    <3>2. QED
      BY <1>1, <2>5, <3>1 DEF WorkerRecords
  <2>7. wk' = [wk EXCEPT ![w] = r]
    BY <1>1, <2>4
  <2>8. segs' \in Seq(Segments) /\ DOMAIN segs' = DOMAIN segs
    <3>1. CASE a.race
      BY <1>1, <2>1, <3>1
    <3>2. CASE ~a.race
      <4>1. segs' = SetRequestEnd(segs, a.seg, w, reqEnd)
        BY <2>1, <3>2
      <4> HIDE DEF reqEnd
      <4>2. QED
        BY <1>1, <2>3, <4>1, SetRequestEndType
    <3>3. QED
      BY <3>1, <3>2
  <2> HIDE DEF r, reqEnd
  <2>9. QED
    BY <1>1, <1>3, <1>5, <2>6, <2>7, <2>8, WorkerTyped
<1>8. QED
  BY <1>6, <1>7

\* Accounting a chunk keeps the types: what is accepted ends inside the segment.
LEMMA ReceiveTypes ==
  ASSUME TypeInvariant, NEW w \in Workers, Receive(w)
  PROVE  TypeInvariant'
<1> DEFINE a == wk[w]
<1>1. /\ segs \in Seq(Segments) /\ chan \in Seq(Messages) /\ a \in WorkerRecords
      /\ wk \in [Workers -> WorkerRecords]
  BY DEF TypeInvariant, TypeOK
<1>2. a.pc \in Assigned
  BY DEF Receive, Assigned
<1>3. /\ a.seg \in DOMAIN segs /\ a.cursor \in Offsets
  BY <1>2, ReassignedType
<1>4. UNCHANGED << chan, writerVars, storageVars, savedVars, jobVars, count >>
  BY DEF Receive
<1>5. PICK n \in 1 .. MaxChunk :
        LET accepted == Accepted(segs, a.seg, w, a.cursor, n)
            to == a.cursor + accepted
        IN  IF accepted = 0
            THEN wk' = [wk EXCEPT ![w] = Idle] /\ UNCHANGED segs
            ELSE /\ segs' = Advance(segs, a.seg, to)
                 /\ wk' = [wk EXCEPT ![w].to = to,
                                     ![w].pc = IF to >= segs[a.seg].end \/ Done(segs'[a.seg])
                                               THEN "last" ELSE "hand"]
  BY DEF Receive
<1> DEFINE accepted == Accepted(segs, a.seg, w, a.cursor, n)
           to == a.cursor + accepted
<1>6. CASE accepted = 0
  <2>1. wk' = [wk EXCEPT ![w] = Idle] /\ segs' = segs
    BY <1>5, <1>6
  <2>2. QED
    BY <1>4, <2>1, LeaveType, OffWorkers, Unassigned
<1>7. CASE accepted # 0
  <2>1. n \in Nat
    BY TransferAssumption
  <2>2. to \in Offsets
    BY <1>1, <1>3, <2>1, AcceptedBounds
  <2> DEFINE r == [a EXCEPT !.to = to,
                            !.pc = IF to >= segs[a.seg].end \/ Done(segs'[a.seg])
                                   THEN "last" ELSE "hand"]
  <2>3. segs' = Advance(segs, a.seg, to)
    BY <1>5, <1>7
  <2>4. wk' = [wk EXCEPT ![w] = r]
    BY <1>1, <1>5, <1>7
  <2> HIDE DEF to
  <2>5. segs' \in Seq(Segments) /\ DOMAIN segs' = DOMAIN segs
    BY <1>1, <1>3, <2>2, <2>3, AdvanceType
  <2>6. r \in WorkerRecords /\ r.seg = a.seg
    <3> HIDE DEF a
    <3>1. "last" \in WorkerStates /\ "hand" \in WorkerStates
      BY DEF WorkerStates, Assigned
    <3>2. QED
      BY <1>1, <2>2, <3>1 DEF WorkerRecords
  <2> HIDE DEF r
  <2>7. QED
    BY <1>1, <1>3, <1>4, <2>4, <2>5, <2>6, WorkerTyped
<1>8. QED
  BY <1>6, <1>7

\* The steps that put a worker off, idle or failed keep the types.
LEMMA LeavingTypes ==
  ASSUME TypeInvariant, NEW w \in Workers,
         Spawn(w) \/ LeaveIdle(w) \/ StopExit(w) \/ Join(w)
  PROVE  TypeInvariant'
<1>1. Off \in WorkerRecords /\ Idle \in WorkerRecords
  BY OffWorkers
<1>2. Off.pc \notin Assigned /\ Idle.pc \notin Assigned
  BY Unassigned
<1>3. CASE Spawn(w)
  <2>1. /\ wk' = [wk EXCEPT ![w] = Idle] /\ segs' = segs
        /\ UNCHANGED << chan, writerVars, storageVars, savedVars, jobVars, count >>
    BY <1>3 DEF Spawn
  <2>2. QED
    BY <1>1, <1>2, <2>1, LeaveType
<1>4. CASE LeaveIdle(w)
  <2>1. /\ wk' = [wk EXCEPT ![w] = Off] /\ segs' = segs
        /\ UNCHANGED << chan, writerVars, storageVars, savedVars, jobVars, count >>
    BY <1>4 DEF LeaveIdle
  <2>2. QED
    BY <1>1, <1>2, <2>1, LeaveType
<1>5. CASE StopExit(w)
  <2>1. /\ wk' = [wk EXCEPT ![w] = Off]
        /\ segs' = segs \/ segs' = Release(segs, wk[w].seg, w)
        /\ UNCHANGED << chan, writerVars, storageVars, savedVars, jobVars, count >>
    BY <1>5 DEF StopExit
  <2>2. QED
    BY <1>1, <1>2, <2>1, LeaveType
<1>6. CASE Join(w)
  <2>1. /\ wk' = [wk EXCEPT ![w] = Off]
        /\ UNCHANGED << segs, chan, writerVars, storageVars, savedVars, phase, done, paused, count >>
        /\ fatal' \in BOOLEAN
    BY <1>6 DEF Join, TypeInvariant, TypeOK
  <2>2. wk' \in [Workers -> WorkerRecords]
    BY <1>1, <2>1 DEF TypeInvariant, TypeOK
  <2>3. TypeOK'
    BY <2>1, <2>2 DEF TypeInvariant, TypeOK, writerVars, storageVars, savedVars
  <2>4. AssignedInTable'
    BY <1>2, <2>1 DEF TypeInvariant, TypeOK, AssignedInTable
  <2>5. QED
    BY <2>3, <2>4 DEF TypeInvariant
<1>7. QED
  BY <1>3, <1>4, <1>5, <1>6

\* Handing an accounted chunk to the writer keeps the types.
LEMMA SubmitTypes ==
  ASSUME TypeInvariant, NEW w \in Workers, Submit(w)
  PROVE  TypeInvariant'
<1> DEFINE a == wk[w]
<1>1. /\ segs \in Seq(Segments) /\ chan \in Seq(Messages) /\ a \in WorkerRecords
  BY DEF TypeInvariant, TypeOK
<1>2. a.pc \in Assigned
  BY DEF Submit, Assigned
<1>3. /\ a.seg \in DOMAIN segs /\ a.seg \in Nat /\ a.cursor \in Offsets
  BY <1>2, ReassignedType
<1>4. UNCHANGED << writerVars, storageVars, savedVars, jobVars, count >>
  BY DEF Submit
<1>5. CASE failed
  <2> DEFINE r == [Off EXCEPT !.pc = "fatal"]
  <2>1. segs' = Release(segs, a.seg, w) /\ wk' = [wk EXCEPT ![w] = r] /\ chan' = chan
    BY <1>5 DEF Submit
  <2>2. r \in WorkerRecords /\ r.pc \notin Assigned
    BY Unassigned
  <2> HIDE DEF r
  <2>3. QED
    BY <1>4, <2>1, <2>2, LeaveType
<1>6. CASE ~failed
  <2> DEFINE r == IF a.pc = "last" THEN Idle ELSE [a EXCEPT !.pc = "pump", !.cursor = a.to]
             m == [kind |-> "chunk", worker |-> w, seg |-> a.seg, from |-> a.cursor, to |-> a.to]
  <2>1. chan' = Append(chan, m) /\ wk' = [wk EXCEPT ![w] = r] /\ segs' = segs
    BY <1>6 DEF Submit
  <2>2. m \in Messages
    BY <1>1, <1>3 DEF Messages, WorkerRecords
  <2> HIDE DEF m
  <2>3. chan' \in Seq(Messages)
    BY <1>1, <2>1, <2>2
  <2>4. r \in WorkerRecords /\ (r.pc \in Assigned => r.seg \in DOMAIN segs)
    <3>1. [a EXCEPT !.pc = "pump", !.cursor = a.to] \in WorkerRecords
      <4> HIDE DEF a
      <4>1. "pump" \in WorkerStates
        BY DEF WorkerStates, Assigned
      <4>2. QED
        BY <1>1, <4>1 DEF WorkerRecords
    <3>2. [a EXCEPT !.pc = "pump", !.cursor = a.to].seg = a.seg
      BY <1>1 DEF WorkerRecords
    <3>3. QED
      BY <1>3, <3>1, <3>2, OffWorkers, Unassigned
  <2> HIDE DEF r
  <2>5. QED
    BY <1>1, <1>4, <2>1, <2>3, <2>4, WorkerTyped
<1>7. QED
  BY <1>5, <1>6

\* Opening the assignment again, or leaving it, keeps the types.
LEMMA ReopenTypes ==
  ASSUME TypeInvariant, NEW w \in Workers, EndOfRange(w) \/ Reopen(w) \/ Fail(w)
  PROVE  TypeInvariant'
<1> DEFINE a == wk[w]
           again == AssignedTo(a.seg, a.cursor, a.race)
<1>1. /\ segs \in Seq(Segments) /\ chan \in Seq(Messages)
  BY DEF TypeInvariant, TypeOK
<1>2. a.pc \in Assigned
  BY DEF EndOfRange, Reopen, Fail, Assigned
<1>3. a.seg \in DOMAIN segs /\ again \in WorkerRecords
  BY <1>2, ReassignedType
<1>4. UNCHANGED << chan, writerVars, storageVars, savedVars, jobVars, count >>
  BY DEF EndOfRange, Reopen, Fail
<1>5. /\ Off \in WorkerRecords /\ Idle \in WorkerRecords
      /\ Off.pc \notin Assigned /\ Idle.pc \notin Assigned
  BY OffWorkers, Unassigned
<1>6. \/ wk' = [wk EXCEPT ![w] = again] /\ segs' = segs
      \/ wk' = [wk EXCEPT ![w] = Idle] /\ segs' = segs
      \/ wk' = [wk EXCEPT ![w] = Off] /\ segs' = Release(segs, a.seg, w)
      \/ \E exit \in {"off", "gaveup", "fatal"} :
           wk' = [wk EXCEPT ![w] = [Off EXCEPT !.pc = exit]] /\ segs' = Release(segs, a.seg, w)
  BY DEF EndOfRange, Reopen, Fail
<1>7. CASE wk' = [wk EXCEPT ![w] = again] /\ segs' = segs
  <2>1. again.seg = a.seg
    BY DEF AssignedTo
  <2> HIDE DEF again
  <2>2. QED
    BY <1>1, <1>3, <1>4, <1>7, <2>1, WorkerTyped
<1>8. CASE wk' = [wk EXCEPT ![w] = Idle] /\ segs' = segs
  BY <1>4, <1>5, <1>8, LeaveType
<1>9. CASE wk' = [wk EXCEPT ![w] = Off] /\ segs' = Release(segs, a.seg, w)
  BY <1>4, <1>5, <1>9, LeaveType
<1>10. ASSUME NEW exit \in {"off", "gaveup", "fatal"},
              wk' = [wk EXCEPT ![w] = [Off EXCEPT !.pc = exit]], segs' = Release(segs, a.seg, w)
       PROVE  TypeInvariant'
  <2> DEFINE r == [Off EXCEPT !.pc = exit]
  <2>1. r \in WorkerRecords /\ r.pc \notin Assigned
    BY Unassigned
  <2>2. wk' = [wk EXCEPT ![w] = r]
    BY <1>10
  <2> HIDE DEF r
  <2>3. QED
    BY <1>4, <1>10, <2>1, <2>2, LeaveType
<1>11. QED
  BY <1>6, <1>7, <1>8, <1>9, <1>10

\* A run starts with a table of segments and at most one worker, on one of them.
LEMMA FirstWorkerTypes ==
  ASSUME TypeInvariant, NobodyBetweenRuns, phase = "off", NEW table \in Seq(Segments),
         NEW resumed \in BOOLEAN, FirstWorker(table, resumed)
  PROVE  /\ segs' \in Seq(Segments)
         /\ wk' \in [Workers -> WorkerRecords]
         /\ AssignedInTable'
<1>1. wk \in [Workers -> WorkerRecords] /\ \A v \in Workers : wk[v].pc = "off"
  BY DEF TypeInvariant, TypeOK, NobodyBetweenRuns
<1>2. CASE segs' = table /\ UNCHANGED wk
  BY <1>1, <1>2 DEF AssignedInTable, Assigned
<1>3. ASSUME NEW w \in Workers, NEW i \in FirstPending(table), NEW n \in RequestSizes,
             LET pos == table[i].pos
                 reqEnd == RequestEnd(pos, table[i].end, n)
                 taken == TakeOwner(table, i, w)
             IN  /\ segs' = IF resumed THEN SetRequestEnd(taken, i, w, reqEnd) ELSE taken
                 /\ wk' = [wk EXCEPT ![w] =
                            [AssignedTo(i, pos, FALSE) EXCEPT !.pc = "pump", !.reqEnd = reqEnd]]
      PROVE  /\ segs' \in Seq(Segments)
             /\ wk' \in [Workers -> WorkerRecords]
             /\ AssignedInTable'
  <2> DEFINE pos == table[i].pos
             reqEnd == RequestEnd(pos, table[i].end, n)
             taken == TakeOwner(table, i, w)
             a == AssignedTo(i, pos, FALSE)
             r == [a EXCEPT !.pc = "pump", !.reqEnd = reqEnd]
  <2>1. i \in DOMAIN table /\ i \in Nat /\ table[i] \in Segments /\ n \in Nat
    BY TransferAssumption DEF FirstPending
  <2>2. pos \in Offsets /\ table[i].end \in Offsets
    BY <2>1 DEF Segments
  <2>3. reqEnd \in Offsets
    BY <2>1, <2>2, SizesAssumption DEF RequestEnd, Smaller, Offsets
  <2>4. taken \in Seq(Segments) /\ DOMAIN taken = DOMAIN table
    BY <2>1, TakeOwnerType
  <2>5. /\ segs' = IF resumed THEN SetRequestEnd(taken, i, w, reqEnd) ELSE taken
        /\ wk' = [wk EXCEPT ![w] = r]
    BY <1>3
  <2>6. a \in WorkerRecords /\ a.seg = i
    BY <2>1, <2>2, AssignedToType DEF AssignedTo
  <2> HIDE DEF reqEnd, taken, a
  <2>7. segs' \in Seq(Segments) /\ DOMAIN segs' = DOMAIN table
    BY <2>3, <2>4, <2>5, SetRequestEndType
  <2>8. r \in WorkerRecords /\ r.seg = i
    <3>1. "pump" \in WorkerStates
      BY DEF WorkerStates, Assigned
    <3>2. QED
      BY <2>3, <2>6, <3>1 DEF WorkerRecords
  <2> HIDE DEF r
  <2>9. wk' \in [Workers -> WorkerRecords]
    BY <1>1, <2>5, <2>8
  <2>10. AssignedInTable'
    BY <1>1, <2>1, <2>5, <2>7, <2>8 DEF AssignedInTable, Assigned
  <2>11. QED
    BY <2>7, <2>9, <2>10
<1>4. QED
  BY <1>2, <1>3 DEF FirstWorker

\* Starting and resuming keep the types.
LEMMA StartTypes ==
  ASSUME TypeInvariant, NobodyBetweenRuns, StartFresh \/ Resume
  PROVE  TypeInvariant'
<1>1. BeginRun
  BY DEF StartFresh, Resume
<1>2. phase = "off"
  BY <1>1 DEF BeginRun
<1>3. FreshTable \in Seq(Segments) /\ FromStates(saved) \in Seq(Segments)
  BY FreshTableType, FromStatesType DEF TypeInvariant, TypeOK
<1>4. FirstWorker(FreshTable, FALSE) \/ FirstWorker(FromStates(saved), TRUE)
  BY DEF StartFresh, Resume
<1>5. segs' \in Seq(Segments) /\ wk' \in [Workers -> WorkerRecords] /\ AssignedInTable'
  BY <1>2, <1>3, <1>4, FirstWorkerTypes
<1>6. /\ phase' = "run"
      /\ UNCHANGED << chan, writerVars, savedVars, done, fatal, paused >>
  BY <1>1 DEF BeginRun
<1>7. count' \in [runs : 0 .. MaxRuns, checkpoints : 0 .. MaxCheckpoints, crashes : 0 .. MaxCrashes]
  <2>1. count.runs + 1 \in 0 .. MaxRuns /\ count' = [count EXCEPT !.runs = count.runs + 1]
    BY <1>1, TransferAssumption DEF BeginRun, TypeInvariant, TypeOK
  <2>2. QED
    BY <2>1 DEF TypeInvariant, TypeOK
<1>8. disk' \in SUBSET Bytes /\ synced' \in SUBSET Bytes /\ failed' \in BOOLEAN
  BY DEF StartFresh, Resume, TypeInvariant, TypeOK, storageVars
<1>9. TypeOK'
  BY <1>5, <1>6, <1>7, <1>8 DEF TypeInvariant, TypeOK, writerVars, savedVars, Phases
<1>10. QED
  BY <1>5, <1>9 DEF TypeInvariant

\* The supervisor's steps and the requests to it keep the types.
LEMMA SupervisorTypes ==
  ASSUME TypeInvariant,
         SeeAllDone \/ SeeWriteError \/ Pause \/ EndTransfer \/ EndClose \/ AskCheckpoint
  PROVE  TypeInvariant'
<1>1. /\ chan \in Seq(Messages) /\ Control("close") \in Messages /\ Control("end") \in Messages
      /\ Control("checkpoint") \in Messages
  BY ControlType DEF TypeInvariant, TypeOK, Flushes
<1>2. chan' \in Seq(Messages)
  BY <1>1 DEF SeeAllDone, SeeWriteError, Pause, EndTransfer, EndClose, AskCheckpoint,
              savedVars, writerVars
<1>3. /\ phase' \in Phases /\ done' \in BOOLEAN /\ fatal' \in BOOLEAN /\ paused' \in BOOLEAN
  BY DEF SeeAllDone, SeeWriteError, Pause, EndTransfer, EndClose, AskCheckpoint,
         TypeInvariant, TypeOK, Phases, jobVars
<1>4. ckpt' \in Checkpoints
  <2>1. ckpt' = ckpt \/ ckpt' = [NoCheckpoint EXCEPT !.at = "asked"]
    BY DEF SeeAllDone, SeeWriteError, Pause, EndTransfer, EndClose, AskCheckpoint, savedVars
  <2>2. [NoCheckpoint EXCEPT !.at = "asked"] \in Checkpoints
    <3>1. [NoCheckpoint EXCEPT !.at = "asked"] = [at |-> "asked", states |-> << >>]
      BY DEF NoCheckpoint
    <3>2. << >> \in Seq(SegmentStates)
      OBVIOUS
    <3> HIDE DEF NoCheckpoint
    <3>3. QED
      BY <3>1, <3>2 DEF Checkpoints
  <2>3. QED
    BY <2>1, <2>2 DEF TypeInvariant, TypeOK
<1>5. count' \in [runs : 0 .. MaxRuns, checkpoints : 0 .. MaxCheckpoints, crashes : 0 .. MaxCrashes]
  <2>1. CASE AskCheckpoint
    <3>1. /\ count.checkpoints + 1 \in 0 .. MaxCheckpoints
          /\ count' = [count EXCEPT !.checkpoints = count.checkpoints + 1]
      BY <2>1, TransferAssumption DEF AskCheckpoint, TypeInvariant, TypeOK
    <3>2. QED
      BY <3>1 DEF TypeInvariant, TypeOK
  <2>2. CASE count' = count
    BY <2>2 DEF TypeInvariant, TypeOK
  <2>3. QED
    BY <2>1, <2>2 DEF SeeAllDone, SeeWriteError, Pause, EndTransfer, EndClose
<1>6. UNCHANGED << segs, wk, writerVars, storageVars, final, saved >>
  BY DEF SeeAllDone, SeeWriteError, Pause, EndTransfer, EndClose, AskCheckpoint, savedVars
<1>7. TypeOK'
  BY <1>2, <1>3, <1>4, <1>5, <1>6 DEF TypeInvariant, TypeOK, writerVars, storageVars
<1>8. AssignedInTable'
  BY <1>6 DEF TypeInvariant, AssignedInTable
<1>9. QED
  BY <1>7, <1>8 DEF TypeInvariant

\* Writing a buffer keeps the types; the bytes are on disk and in the table.
LEMMA WriteTypes ==
  ASSUME TypeInvariant, NEW b \in Buffers, Write(b)
  PROVE  /\ segs' \in Seq(Segments) /\ DOMAIN segs' = DOMAIN segs
         /\ disk' \in SUBSET Bytes /\ failed' \in BOOLEAN
<1>1. segs \in Seq(Segments) /\ disk \in SUBSET Bytes /\ failed \in BOOLEAN
  BY DEF TypeInvariant, TypeOK
<1>2. b.from \in Offsets /\ b.to \in Offsets
  BY DEF Buffers
<1>3. Span(b.from, b.to) \subseteq Bytes
  BY <1>2, SizesAssumption DEF Span, Bytes, Offsets
<1>4. OnFlushed(segs, b.seg, b.from, b.to) \in Seq(Segments)
      /\ DOMAIN OnFlushed(segs, b.seg, b.from, b.to) = DOMAIN segs
  <2> DEFINE x == FlushedSegment(segs[b.seg], b.from, b.to)
  <2>1. b.seg \in DOMAIN segs => x \in Segments
    <3>1. ASSUME b.seg \in DOMAIN segs
          PROVE  x \in Segments
      <4>1. segs[b.seg] \in Segments
        BY <1>1, <3>1
      <4>2. FlushedIn(segs[b.seg], Int) /\ b.from .. b.to - 1 \subseteq Int
        BY DEF FlushedIn
      <4>3. QED
        BY <1>2, <4>1, <4>2, FlushedSegmentFlushed
    <3>2. QED
      BY <3>1
  <2> HIDE DEF x
  <2>2. OnFlushed(segs, b.seg, b.from, b.to) = [segs EXCEPT ![b.seg] = x]
    BY DEF OnFlushed, x
  <2>3. QED
    BY <1>1, <2>1, <2>2, ReplaceOne
<1>5. QED
  BY <1>1, <1>3, <1>4 DEF Write

\* A step of the writer that leaves the workers, the job and the bounds alone.
LEMMA WriterTyped ==
  ASSUME TypeInvariant,
         segs' \in Seq(Segments), DOMAIN segs' = DOMAIN segs, chan' \in Seq(Messages),
         buffer' \in [Workers -> Buffers], flushing' \in {"no", "pressure"} \cup Flushes,
         disk' \in SUBSET Bytes, synced' \in SUBSET Bytes, failed' \in BOOLEAN,
         ckpt' \in Checkpoints, final' \in Seq(SegmentStates), phase' \in Phases,
         UNCHANGED << wk, saved, done, fatal, paused, count >>
  PROVE  TypeInvariant'
<1>1. TypeOK'
  BY DEF TypeInvariant, TypeOK
<1>2. AssignedInTable'
  BY DEF TypeInvariant, AssignedInTable
<1>3. QED
  BY <1>1, <1>2 DEF TypeInvariant

\* The buffer after a chunk, contiguous or not, is a buffer.
LEMMA TakeChunkTypes ==
  ASSUME TypeInvariant, TakeChunk
  PROVE  TypeInvariant'
<1> DEFINE m == Head(chan)
           b == buffer[m.worker]
           new == [seg |-> m.seg, from |-> m.from, to |-> m.to]
           merged == [b EXCEPT !.to = m.to]
<1>1. chan \in Seq(Messages) /\ chan # << >> /\ m.kind = "chunk" /\ chan' = Tail(chan)
  BY DEF TypeInvariant, TypeOK, TakeChunk
<1>2. m \in Messages /\ chan' \in Seq(Messages)
  BY <1>1
<1>3. m \in [kind : {"chunk"}, worker : Workers, seg : Nat, from : Offsets, to : Offsets]
  BY <1>1, <1>2 DEF Messages, Flushes
<1>4. m.worker \in Workers /\ m.seg \in Nat /\ m.from \in Offsets /\ m.to \in Offsets
  BY <1>3
<1>5. buffer \in [Workers -> Buffers] /\ failed \in BOOLEAN /\ flushing' \in {"no", "pressure"}
  BY DEF TypeInvariant, TypeOK, TakeChunk
<1>6. UNCHANGED << wk, synced, savedVars, jobVars, count >>
  BY DEF TakeChunk
<1> HIDE DEF m
<1>7. b \in Buffers
  BY <1>4, <1>5
<1>8. new \in Buffers /\ NoBuffer \in Buffers
  BY <1>4, ZeroOffset DEF Buffers, NoBuffer, NoBuffers
<1> HIDE DEF b
<1>9. merged \in Buffers
  BY <1>4, <1>7 DEF Buffers
<1> HIDE DEF new, merged
<1>10. /\ \/ buffer' = buffer
          \/ \E held \in {buffer, NoBuffers}, c \in {new, merged, NoBuffer} :
               buffer' = [held EXCEPT ![m.worker] = c]
       /\ \/ UNCHANGED << segs, disk, failed >>
          \/ \E c \in {b, merged} : Write(c)
  BY DEF TakeChunk, m, b, new, merged
<1>11. buffer' \in [Workers -> Buffers]
  <2>1. NoBuffers \in [Workers -> Buffers]
    BY <1>8 DEF NoBuffers
  <2>2. QED
    BY <1>5, <1>8, <1>9, <1>10, <2>1
<1>12. /\ segs' \in Seq(Segments) /\ DOMAIN segs' = DOMAIN segs
       /\ disk' \in SUBSET Bytes /\ failed' \in BOOLEAN
  <2>1. CASE UNCHANGED << segs, disk, failed >>
    BY <2>1 DEF TypeInvariant, TypeOK
  <2>2. ASSUME NEW c \in {b, merged}, Write(c)
        PROVE  /\ segs' \in Seq(Segments) /\ DOMAIN segs' = DOMAIN segs
               /\ disk' \in SUBSET Bytes /\ failed' \in BOOLEAN
    BY <1>7, <1>9, <2>2, WriteTypes
  <2>3. QED
    BY <1>10, <2>1, <2>2
<1>13. /\ synced' \in SUBSET Bytes /\ ckpt' \in Checkpoints /\ final' \in Seq(SegmentStates)
       /\ phase' \in Phases /\ UNCHANGED << wk, saved, done, fatal, paused, count >>
  BY <1>6 DEF TypeInvariant, TypeOK, savedVars, jobVars
<1>14. QED
  BY <1>2, <1>5, <1>11, <1>12, <1>13, WriterTyped

\* Flushing one buffer keeps the types.
LEMMA FlushBufferTypes ==
  ASSUME TypeInvariant, NEW w \in Workers, FlushBuffer(w)
  PROVE  TypeInvariant'
<1>1. buffer \in [Workers -> Buffers] /\ NoBuffer \in Buffers
  BY ZeroOffset DEF TypeInvariant, TypeOK, Buffers, NoBuffer, NoBuffers
<1>2. buffer' \in [Workers -> Buffers]
  BY <1>1 DEF FlushBuffer
<1>3. /\ segs' \in Seq(Segments) /\ DOMAIN segs' = DOMAIN segs
      /\ disk' \in SUBSET Bytes /\ failed' \in BOOLEAN
  <2>1. CASE UNCHANGED << segs, disk, failed >>
    BY <2>1 DEF TypeInvariant, TypeOK
  <2>2. CASE Write(buffer[w])
    <3>1. buffer[w] \in Buffers
      BY <1>1
    <3>2. QED
      BY <2>2, <3>1, WriteTypes
  <2>3. QED
    BY <2>1, <2>2 DEF FlushBuffer
<1>4. UNCHANGED << wk, chan, flushing, synced, savedVars, jobVars, count >>
  BY DEF FlushBuffer
<1>5. /\ synced' \in SUBSET Bytes /\ ckpt' \in Checkpoints /\ final' \in Seq(SegmentStates)
      /\ phase' \in Phases /\ UNCHANGED << wk, saved, done, fatal, paused, count >>
      /\ chan' \in Seq(Messages) /\ flushing' \in {"no", "pressure"} \cup Flushes
  BY <1>4 DEF TypeInvariant, TypeOK, savedVars, jobVars
<1>6. QED
  BY <1>2, <1>3, <1>5, WriterTyped

\* Beginning and ending a flush keeps the types.
LEMMA FlushTypes ==
  ASSUME TypeInvariant,
         \/ TakeControl \/ IdleFlush
         \/ FinishPressure \/ FinishCheckpoint \/ FinishEnd \/ FinishClose
  PROVE  TypeInvariant'
<1>1. /\ segs \in Seq(Segments) /\ chan \in Seq(Messages) /\ synced \in SUBSET Bytes
      /\ disk \in SUBSET Bytes /\ failed \in BOOLEAN
      /\ phase \in Phases /\ ckpt \in Checkpoints /\ final \in Seq(SegmentStates)
  BY DEF TypeInvariant, TypeOK
<1>2. DurableStates(segs) \in Seq(SegmentStates)
  BY <1>1, DurableStatesType
<1>3. /\ [at |-> "answered", states |-> DurableStates(segs)] \in Checkpoints
      /\ NoCheckpoint \in Checkpoints
  BY <1>2 DEF Checkpoints, NoCheckpoint
<1>4. chan' \in Seq(Messages) /\ flushing' \in {"no", "pressure"} \cup Flushes
  <2>1. CASE TakeControl
    <3>1. Head(chan) \in Messages /\ Tail(chan) \in Seq(Messages) /\ Head(chan).kind # "chunk"
      BY <1>1, <2>1 DEF TakeControl
    <3>2. Head(chan).kind \in Flushes
      BY <3>1 DEF Messages
    <3>3. QED
      BY <2>1, <3>1, <3>2 DEF TakeControl
  <2>2. CASE IdleFlush
    BY <1>1, <2>2 DEF IdleFlush
  <2>3. CASE FinishPressure \/ FinishCheckpoint \/ FinishEnd \/ FinishClose
    <3>1. (chan' = chan \/ chan' = << >>) /\ flushing' = "no"
      BY <2>3, Zenon DEF FinishPressure, FinishCheckpoint, FinishEnd, FinishClose, Flushed
    <3>2. chan \in Seq(Messages) /\ << >> \in Seq(Messages)
      BY <1>1
    <3>3. QED
      BY <3>1, <3>2, Zenon
  <2>4. QED
    BY <2>1, <2>2, <2>3
<1>5. synced' \in SUBSET Bytes /\ failed' \in BOOLEAN /\ disk' \in SUBSET Bytes
  BY <1>1 DEF TakeControl, IdleFlush, FinishPressure, FinishCheckpoint, FinishEnd, FinishClose,
              SyncSucceeds, SyncFails, storageVars
<1>6. ckpt' \in Checkpoints /\ final' \in Seq(SegmentStates) /\ phase' \in Phases
  <2>1. ckpt' \in {ckpt, NoCheckpoint, [at |-> "answered", states |-> DurableStates(segs)]}
    BY DEF TakeControl, IdleFlush, FinishPressure, FinishCheckpoint, FinishEnd, FinishClose,
           savedVars
  <2>2. final' \in {final, DurableStates(segs)}
    BY DEF TakeControl, IdleFlush, FinishPressure, FinishCheckpoint, FinishEnd, FinishClose,
           savedVars
  <2>3. phase' \in Phases
    BY <1>1 DEF TakeControl, IdleFlush, FinishPressure, FinishCheckpoint, FinishEnd, FinishClose,
           jobVars, Phases
  <2>4. QED
    BY <1>1, <1>2, <1>3, <2>1, <2>2, <2>3
<1>7. UNCHANGED << segs, wk, buffer, saved, done, fatal, paused, count >>
  BY DEF TakeControl, IdleFlush, FinishPressure, FinishCheckpoint, FinishEnd, FinishClose,
         jobVars, savedVars
<1>8. buffer' \in [Workers -> Buffers]
  BY <1>7 DEF TypeInvariant, TypeOK
<1>9. QED
  BY <1>1, <1>4, <1>5, <1>6, <1>7, <1>8, WriterTyped

\* Storing a checkpoint keeps the types.
LEMMA SaveCheckpointTypes ==
  ASSUME TypeInvariant, SaveCheckpoint
  PROVE  TypeInvariant'
<1>1. NoCheckpoint \in Checkpoints /\ ckpt.states \in Seq(SegmentStates)
  BY DEF TypeInvariant, TypeOK, Checkpoints, NoCheckpoint
<1>2. /\ ckpt' = NoCheckpoint /\ saved' = ckpt.states
      /\ UNCHANGED << segs, wk, chan, writerVars, storageVars, final, jobVars, count >>
  BY DEF SaveCheckpoint
<1>3. TypeOK'
  BY <1>1, <1>2 DEF TypeInvariant, TypeOK, writerVars, storageVars, jobVars
<1>4. AssignedInTable'
  BY <1>2 DEF TypeInvariant, AssignedInTable
<1>5. QED
  BY <1>3, <1>4 DEF TypeInvariant

\* The answer of a job that has ended is its final state.
LEMMA AskEndedTypes ==
  ASSUME TypeInvariant, AskEnded
  PROVE  TypeInvariant'
<1>1. final \in Seq(SegmentStates) /\ ckpt' = [at |-> "answered", states |-> final]
  BY DEF TypeInvariant, TypeOK, AskEnded
<1>2. ckpt' \in Checkpoints
  BY <1>1 DEF Checkpoints
<1>3. /\ count.checkpoints + 1 \in 0 .. MaxCheckpoints
      /\ count' = [count EXCEPT !.checkpoints = count.checkpoints + 1]
  BY TransferAssumption DEF AskEnded, TypeInvariant, TypeOK
<1>4. count' \in [runs : 0 .. MaxRuns, checkpoints : 0 .. MaxCheckpoints, crashes : 0 .. MaxCrashes]
  BY <1>3 DEF TypeInvariant, TypeOK
<1>5. UNCHANGED << segs, wk, chan, writerVars, storageVars, final, saved, jobVars >>
  BY DEF AskEnded
<1>6. TypeOK'
  BY <1>2, <1>4, <1>5 DEF TypeInvariant, TypeOK, writerVars, storageVars, jobVars
<1>7. AssignedInTable'
  BY <1>5 DEF TypeInvariant, AssignedInTable
<1>8. QED
  BY <1>6, <1>7 DEF TypeInvariant

\* The end of a run leaves nothing of it.
LEMMA EndRunTypes ==
  ASSUME TypeInvariant, EndRun,
         disk' \in SUBSET Bytes, synced' \in SUBSET Bytes, ckpt' \in Checkpoints,
         saved' \in Seq(SegmentStates),
         count' \in [runs : 0 .. MaxRuns, checkpoints : 0 .. MaxCheckpoints,
                     crashes : 0 .. MaxCrashes]
  PROVE  TypeInvariant'
<1>1. segs' \in Seq(Segments)
  BY FreshTableType DEF EndRun
<1>2. wk' \in [Workers -> WorkerRecords] /\ buffer' \in [Workers -> Buffers]
  BY OffWorkers, ZeroOffset DEF EndRun, Buffers, NoBuffer, NoBuffers
<1>3. chan' \in Seq(Messages) /\ final' \in Seq(SegmentStates)
  BY DEF EndRun
<1>4. /\ flushing' \in {"no", "pressure"} \cup Flushes /\ failed' \in BOOLEAN
      /\ phase' \in Phases /\ done' \in BOOLEAN /\ fatal' \in BOOLEAN /\ paused' \in BOOLEAN
  BY DEF EndRun, Phases
<1>5. TypeOK'
  BY <1>1, <1>2, <1>3, <1>4 DEF TypeOK
<1>6. AssignedInTable'
  BY Unassigned DEF EndRun, AssignedInTable
<1>7. QED
  BY <1>5, <1>6 DEF TypeInvariant

\* The outcome of a run, and a crash, keep the types.
LEMMA OutcomeTypes ==
  ASSUME TypeInvariant, SaveOutcome \/ Crash
  PROVE  TypeInvariant'
<1>1. CASE SaveOutcome
  <2>1. /\ segs \in Seq(Segments) /\ final \in Seq(SegmentStates) /\ disk \in SUBSET Bytes
        /\ synced \in SUBSET Bytes /\ ckpt \in Checkpoints
        /\ count \in [runs : 0 .. MaxRuns, checkpoints : 0 .. MaxCheckpoints,
                      crashes : 0 .. MaxCrashes]
    BY DEF TypeInvariant, TypeOK
  <2>2. DurableStates(segs) \in Seq(SegmentStates)
    BY <2>1, DurableStatesType
  <2>3. EndRun /\ UNCHANGED << disk, synced, ckpt, count >>
        /\ saved' \in {final, DurableStates(segs)}
    BY <1>1 DEF SaveOutcome
  <2>4. QED
    BY <2>1, <2>2, <2>3, EndRunTypes
<1>2. CASE Crash
  <2>1. EndRun /\ UNCHANGED saved /\ ckpt' = NoCheckpoint /\ synced' = disk'
    BY <1>2 DEF Crash
  <2>2. disk' \in SUBSET Bytes
    BY <1>2 DEF Crash, TypeInvariant, TypeOK
  <2>3. saved' \in Seq(SegmentStates) /\ ckpt' \in Checkpoints
    BY <2>1 DEF TypeInvariant, TypeOK, Checkpoints, NoCheckpoint
  <2>4. /\ count.crashes + 1 \in 0 .. MaxCrashes
        /\ count' = [count EXCEPT !.crashes = count.crashes + 1]
    BY <1>2, TransferAssumption DEF Crash, TypeInvariant, TypeOK
  <2>5. count' \in [runs : 0 .. MaxRuns, checkpoints : 0 .. MaxCheckpoints,
                    crashes : 0 .. MaxCrashes]
    BY <2>4 DEF TypeInvariant, TypeOK
  <2>6. QED
    BY <2>1, <2>2, <2>3, <2>5, EndRunTypes
<1>3. QED
  BY <1>1, <1>2

\* Between two runs there is no worker, whatever the step.
LEMMA NobodyBetweenRunsStep ==
  ASSUME NobodyBetweenRuns, [Next]_vars
  PROVE  NobodyBetweenRuns'
<1>1. CASE \E w \in Workers : WorkerStep(w) \/ Join(w)
  <2>1. PICK w \in Workers : WorkerStep(w) \/ Join(w)
    BY <1>1
  <2>2. phase # "off"
    BY <2>1 DEF NobodyBetweenRuns, WorkerStep, Spawn, Acquire, LeaveIdle, Open, Receive, Submit,
                EndOfRange, Reopen, Fail, StopExit, Join, Assigned
  <2>3. phase' = phase
    BY <2>1 DEF WorkerStep, Spawn, Acquire, LeaveIdle, Open, Receive, Submit,
                EndOfRange, Reopen, Fail, StopExit, Join, jobVars
  <2>4. QED
    BY <2>2, <2>3 DEF NobodyBetweenRuns
<1>2. CASE StartFresh \/ Resume
  BY <1>2 DEF StartFresh, Resume, BeginRun, NobodyBetweenRuns
<1>3. CASE EndTransfer \/ EndClose \/ FinishEnd \/ FinishClose
  BY <1>3 DEF EndTransfer, EndClose, FinishEnd, FinishClose, NobodyBetweenRuns
<1>4. CASE SaveOutcome \/ Crash
  BY <1>4 DEF SaveOutcome, Crash, EndRun, NobodyBetweenRuns, Off
<1>5. CASE wk' = wk /\ phase' = phase
  BY <1>5 DEF NobodyBetweenRuns
<1>6. QED
  BY <1>1, <1>2, <1>3, <1>4, <1>5
  DEF Next, WriterStep, SupervisorStep, ManagerStep, TakeChunk, TakeControl, IdleFlush,
      FlushBuffer, FinishPressure, FinishCheckpoint, SeeAllDone, SeeWriteError, Pause,
      AskCheckpoint, AskEnded, SaveCheckpoint, Finished, jobVars, vars

\* Every step keeps the types.
LEMMA TypeStep ==
  ASSUME TypeInvariant, NobodyBetweenRuns, [Next]_vars
  PROVE  TypeInvariant'
<1>1. ASSUME NEW w \in Workers, WorkerStep(w)
      PROVE  TypeInvariant'
  BY <1>1, LeavingTypes, AcquireTypes, OpenTypes, ReceiveTypes, SubmitTypes, ReopenTypes
  DEF WorkerStep
<1>2. CASE WriterStep
  BY <1>2, TakeChunkTypes, FlushBufferTypes, FlushTypes DEF WriterStep
<1>3. CASE SupervisorStep
  BY <1>3, LeavingTypes, SupervisorTypes DEF SupervisorStep
<1>4. CASE ManagerStep
  BY <1>4, StartTypes, SupervisorTypes, AskEndedTypes, SaveCheckpointTypes, OutcomeTypes
  DEF ManagerStep
<1>5. CASE Crash
  BY <1>5, OutcomeTypes
<1>6. CASE UNCHANGED vars
  <2>1. TypeOK'
    BY <1>6 DEF TypeInvariant, TypeOK, vars, writerVars, storageVars, savedVars, jobVars
  <2>2. AssignedInTable'
    BY <1>6 DEF TypeInvariant, AssignedInTable, vars
  <2>3. QED
    BY <2>1, <2>2 DEF TypeInvariant
<1>7. QED
  BY <1>1, <1>2, <1>3, <1>4, <1>5, <1>6 DEF Next, Finished

\* Every variable keeps its type in every reachable state: no step makes a frontier, a request,
\* a buffer or a message leave the file, and no worker holds an index outside the table.
THEOREM TypeCorrect == Spec => [](TypeOK /\ AssignedInTable)
<1>1. Init => TypeInvariant /\ NobodyBetweenRuns
  BY InitType DEF Init, NobodyBetweenRuns, Off
<1>2. TypeInvariant /\ NobodyBetweenRuns /\ [Next]_vars => TypeInvariant' /\ NobodyBetweenRuns'
  BY TypeStep, NobodyBetweenRunsStep
<1>3. TypeInvariant => TypeOK /\ AssignedInTable
  BY DEF TypeInvariant
<1>4. QED
  BY <1>1, <1>2, <1>3, PTL DEF Spec
-----------------------------------------------------------------------------
(***************************************************************************)
(* The shape of the table.  That `written` stays behind `pos` is not       *)
(* inductive alone: a flushed piece may have travelled from its worker     *)
(* over the channel and a buffer while its segment was split, raced or     *)
(* handed on.  So the invariant follows each piece on its way: it ends     *)
(* below the receive frontier of the segment it is accounted to.           *)
(***************************************************************************)
\* A piece [from, to) that was accounted to a segment of the table.
Received(table, i, from, to) ==
  /\ i \in DOMAIN table
  /\ from <= to /\ to <= table[i].pos

\* A worker never runs ahead of its segment's receive frontier, and what it has in hand is
\* accounted there.
WorkersBehind ==
  \A w \in Workers :
    /\ wk[w].pc \in Assigned => wk[w].cursor <= segs[wk[w].seg].pos
    /\ wk[w].pc \in {"hand", "last"} => Received(segs, wk[w].seg, wk[w].cursor, wk[w].to)

ChannelReceived ==
  \A k \in DOMAIN chan :
    chan[k].kind = "chunk" => Received(segs, chan[k].seg, chan[k].from, chan[k].to)

BuffersReceived ==
  \A w \in Workers :
    buffer[w] # NoBuffer => Received(segs, buffer[w].seg, buffer[w].from, buffer[w].to)

\* validate() accepts everything that is or may become the saved state.
StatesValid ==
  /\ saved = << >> \/ ValidStates(saved)
  /\ final = << >> \/ ValidStates(final)
  /\ ckpt.at = "answered" => ValidStates(ckpt.states)

\* No piece of one run reaches the next.
NothingBetweenRuns ==
  phase = "off" => /\ chan = << >> /\ flushing = "no"
                   /\ \A w \in Workers : buffer[w] = NoBuffer

PartitionInvariant ==
  /\ TablePartitioned(segs)
  /\ WorkersBehind /\ ChannelReceived /\ BuffersReceived
  /\ StatesValid
  /\ NothingBetweenRuns

-----------------------------------------------------------------------------
(***************************************************************************)
(* What a growing table keeps.                                             *)
(***************************************************************************)
\* A received piece stays received.
LEMMA ReceivedKept ==
  ASSUME NEW table \in Seq(Segments), NEW next \in Seq(Segments), TableGrows(table, next),
         NEW i, NEW from \in Offsets, NEW to \in Offsets, Received(table, i, from, to)
  PROVE  Received(next, i, from, to)
<1>1. i \in DOMAIN table /\ from <= to /\ to <= table[i].pos
  BY DEF Received
<1>2. i \in DOMAIN next /\ next[i].pos >= table[i].pos
  BY <1>1 DEF TableGrows
<1>3. table[i] \in Segments /\ next[i] \in Segments
  BY <1>1, <1>2
<1>4. table[i].pos \in Nat /\ next[i].pos \in Nat /\ to \in Nat
  BY <1>3, SegmentNumbers, ZeroOffset
<1>5. QED
  BY <1>1, <1>2, <1>4 DEF Received

\* Whatever a worker holds or has in hand, when only the table grows.
LEMMA BehindKept ==
  ASSUME TypeInvariant, segs' \in Seq(Segments), TableGrows(segs, segs'), WorkersBehind,
         NEW w \in Workers
  PROVE  /\ wk[w].pc \in Assigned => wk[w].cursor <= segs'[wk[w].seg].pos
         /\ wk[w].pc \in {"hand", "last"} => Received(segs', wk[w].seg, wk[w].cursor, wk[w].to)
<1>1. segs \in Seq(Segments) /\ wk[w] \in WorkerRecords
  BY DEF TypeInvariant, TypeOK
<1>2. wk[w].cursor \in Offsets /\ wk[w].to \in Offsets /\ wk[w].cursor \in Nat
  BY <1>1, ZeroOffset DEF WorkerRecords
<1>3. ASSUME wk[w].pc \in Assigned
      PROVE  wk[w].cursor <= segs'[wk[w].seg].pos
  <2> DEFINE i == wk[w].seg
  <2>1. i \in DOMAIN segs /\ wk[w].cursor <= segs[i].pos
    BY <1>3 DEF WorkersBehind, TypeInvariant, AssignedInTable
  <2>2. i \in DOMAIN segs' /\ segs'[i].pos >= segs[i].pos
    BY <2>1 DEF TableGrows
  <2>3. segs[i] \in Segments /\ segs'[i] \in Segments
    BY <1>1, <2>1, <2>2
  <2>4. segs[i].pos \in Nat /\ segs'[i].pos \in Nat
    BY <2>3, SegmentNumbers
  <2>5. QED
    BY <1>2, <2>1, <2>2, <2>4
<1>4. ASSUME wk[w].pc \in {"hand", "last"}
      PROVE  Received(segs', wk[w].seg, wk[w].cursor, wk[w].to)
  BY <1>1, <1>2, <1>4, ReceivedKept DEF WorkersBehind
<1>5. QED
  BY <1>3, <1>4

\* The channel, when the table grows and at most one received chunk is appended.
LEMMA ChannelKept ==
  ASSUME TypeInvariant, segs' \in Seq(Segments), TableGrows(segs, segs'), ChannelReceived,
         \A k \in DOMAIN chan' :
           chan'[k].kind = "chunk" =>
             \/ \E j \in DOMAIN chan : chan'[k] = chan[j]
             \/ Received(segs', chan'[k].seg, chan'[k].from, chan'[k].to)
  PROVE  ChannelReceived'
<1>1. segs \in Seq(Segments) /\ chan \in Seq(Messages)
  BY DEF TypeInvariant, TypeOK
<1>2. ASSUME NEW j \in DOMAIN chan, chan[j].kind = "chunk"
      PROVE  Received(segs', chan[j].seg, chan[j].from, chan[j].to)
  <2>1. chan[j] \in Messages
    BY <1>1
  <2>2. chan[j].from \in Offsets /\ chan[j].to \in Offsets
    BY <1>2, <2>1 DEF Messages, Flushes
  <2>3. Received(segs, chan[j].seg, chan[j].from, chan[j].to)
    BY <1>2 DEF ChannelReceived
  <2>4. QED
    BY <1>1, <2>2, <2>3, ReceivedKept
<1>3. QED
  BY <1>2 DEF ChannelReceived

\* The buffers, when the table grows and a buffer is new, dropped or received.
LEMMA BuffersKept ==
  ASSUME TypeInvariant, segs' \in Seq(Segments), TableGrows(segs, segs'), BuffersReceived,
         \A v \in Workers :
           \/ buffer'[v] \in {buffer[v], NoBuffer}
           \/ Received(segs', buffer'[v].seg, buffer'[v].from, buffer'[v].to)
  PROVE  BuffersReceived'
<1>1. segs \in Seq(Segments) /\ buffer \in [Workers -> Buffers]
  BY DEF TypeInvariant, TypeOK
<1>2. ASSUME NEW v \in Workers, buffer[v] # NoBuffer
      PROVE  Received(segs', buffer[v].seg, buffer[v].from, buffer[v].to)
  <2>1. buffer[v] \in Buffers
    BY <1>1
  <2>2. buffer[v].from \in Offsets /\ buffer[v].to \in Offsets
    BY <2>1 DEF Buffers
  <2>3. Received(segs, buffer[v].seg, buffer[v].from, buffer[v].to)
    BY <1>2 DEF BuffersReceived
  <2>4. QED
    BY <1>1, <2>2, <2>3, ReceivedKept
<1>3. QED
  BY <1>2 DEF BuffersReceived

-----------------------------------------------------------------------------
(***************************************************************************)
(* The workers.                                                            *)
(***************************************************************************)
\* What a worker accepts of a chunk ends inside its segment, and nothing is accepted by a worker
\* that holds the segment and still misses bytes of it only if the chunk is empty.
LEMMA AcceptedInside ==
  ASSUME NEW table \in Seq(Segments), NEW i \in DOMAIN table, NEW w \in Workers,
         NEW cursor \in Offsets, NEW n \in Nat \ {0}
  PROVE  /\ Accepted(table, i, w, cursor, n) # 0 =>
              /\ Holds(table[i], w) /\ ~Done(table[i])
              /\ cursor + Accepted(table, i, w, cursor, n) <= table[i].end
              /\ cursor + Accepted(table, i, w, cursor, n) > cursor
         /\ Accepted(table, i, w, cursor, n) = 0 =>
              ~Holds(table[i], w) \/ Done(table[i]) \/ cursor >= table[i].end
<1>1. table[i] \in Segments
  OBVIOUS
<1>2. table[i].end \in Nat /\ cursor \in Nat
  BY <1>1, SegmentNumbers, ZeroOffset
<1>3. QED
  BY <1>2 DEF Accepted, Smaller

\* Every step of a worker keeps the partition and takes no progress back.
LEMMA WorkerTablePartitioned ==
  ASSUME TypeInvariant, TablePartitioned(segs), NEW w \in Workers, WorkerStep(w)
  PROVE  TablePartitioned(segs') /\ TableGrows(segs, segs')
<1> DEFINE a == wk[w]
<1>0. segs \in Seq(Segments)
  BY DEF TypeInvariant, TypeOK
<1>1. CASE segs' = segs
  BY <1>0, <1>1, GrowsReflexive
<1>2. CASE segs' = Release(segs, a.seg, w)
  BY <1>2, ReleaseGrows
<1>3. CASE Acquire(w)
  <2>1. ASSUME NEW i \in LargestOf(segs, Unowned(segs)), Take(w, TakeOwner(segs, i, w), i, FALSE)
        PROVE  TablePartitioned(segs') /\ TableGrows(segs, segs')
    BY <2>1, TakeGrows DEF Take, LargestOf, Unowned
  <2>2. ASSUME NEW i \in LargestOf(segs, Splittable(segs)),
               Take(w, Split(segs, i, w), Len(segs) + 1, FALSE)
        PROVE  TablePartitioned(segs') /\ TableGrows(segs, segs')
    BY <2>2, SplitGrows DEF Take, LargestOf
  <2>3. ASSUME NEW i \in Raceable(segs), Take(w, TakeRacer(segs, i, w), i, TRUE)
        PROVE  TablePartitioned(segs') /\ TableGrows(segs, segs')
    BY <2>3, TakeGrows DEF Take, Raceable
  <2>4. QED
    BY <1>3, <2>1, <2>2, <2>3 DEF Acquire
<1>4. CASE Open(w)
  <2>1. a.pc \in Assigned
    BY <1>4 DEF Open, Assigned
  <2>2. a.seg \in DOMAIN segs /\ segs[a.seg] \in Segments /\ a.cursor \in Offsets
    BY <2>1, ReassignedType
  <2>3. segs[a.seg].end \in Offsets
    BY <2>2 DEF Segments
  <2>4. CASE a.cursor < segs[a.seg].end
    <3>1. PICK n \in RequestSizes :
            \/ segs' = segs
            \/ segs' = SetRequestEnd(segs, a.seg, w, RequestEnd(a.cursor, segs[a.seg].end, n))
      BY <1>4, <2>2, <2>3, <2>4, SizesAssumption DEF Open, Offsets
    <3>2. n \in Nat
      BY TransferAssumption
    <3>3. RequestEnd(a.cursor, segs[a.seg].end, n) \in Offsets
      BY <2>2, <2>3, <3>2, SizesAssumption DEF RequestEnd, Smaller, Offsets
    <3>4. QED
      BY <1>1, <3>1, <3>3, SetRequestEndGrows
  <2>5. CASE ~(a.cursor < segs[a.seg].end)
    BY <1>1, <1>4, <2>2, <2>3, <2>5, SizesAssumption DEF Open, Offsets
  <2>6. QED
    BY <2>4, <2>5
<1>5. CASE Receive(w)
  <2>1. a.pc \in Assigned
    BY <1>5 DEF Receive, Assigned
  <2>2. a.seg \in DOMAIN segs /\ a.cursor \in Offsets
    BY <2>1, ReassignedType
  <2>3. PICK n \in 1 .. MaxChunk :
          \/ segs' = segs
          \/ /\ Accepted(segs, a.seg, w, a.cursor, n) # 0
             /\ segs' = Advance(segs, a.seg, a.cursor + Accepted(segs, a.seg, w, a.cursor, n))
    BY <1>5 DEF Receive
  <2>4. n \in Nat \ {0}
    BY TransferAssumption
  <2> DEFINE to == a.cursor + Accepted(segs, a.seg, w, a.cursor, n)
  <2>5. to \in Offsets
    BY <1>0, <2>2, <2>4, AcceptedBounds
  <2>6. Accepted(segs, a.seg, w, a.cursor, n) # 0 => to <= segs[a.seg].end
    BY <1>0, <2>2, <2>4, AcceptedInside
  <2>7. QED
    BY <1>1, <2>2, <2>3, <2>5, <2>6, AdvanceGrows
<1>6. \/ segs' = segs \/ segs' = Release(segs, a.seg, w)
      \/ Acquire(w) \/ Open(w) \/ Receive(w)
  BY DEF WorkerStep, Spawn, LeaveIdle, Submit, EndOfRange, Reopen, Fail, StopExit
<1>7. QED
  BY <1>1, <1>2, <1>3, <1>4, <1>5, <1>6

\* A worker's next record is right when its cursor and what it has in hand are.
LEMMA BehindStep ==
  ASSUME TypeInvariant, WorkersBehind, segs' \in Seq(Segments), TableGrows(segs, segs'),
         NEW w \in Workers, NEW r, wk' = [wk EXCEPT ![w] = r],
         r.pc \in Assigned => r.cursor <= segs'[r.seg].pos,
         r.pc \in {"hand", "last"} => Received(segs', r.seg, r.cursor, r.to)
  PROVE  WorkersBehind'
<1>1. wk \in [Workers -> WorkerRecords]
  BY DEF TypeInvariant, TypeOK
<1>2. \A v \in Workers : wk'[v] = IF v = w THEN r ELSE wk[v]
  BY <1>1
<1>3. QED
  BY <1>2, BehindKept DEF WorkersBehind

\* No step of a worker moves its cursor beyond the receive frontier.
LEMMA WorkerBehind ==
  ASSUME TypeInvariant, WorkersBehind, TablePartitioned(segs), TablePartitioned(segs'),
         TableGrows(segs, segs'), NEW w \in Workers, WorkerStep(w)
  PROVE  WorkersBehind'
<1> DEFINE a == wk[w]
           again == AssignedTo(a.seg, a.cursor, a.race)
<1>1. /\ segs \in Seq(Segments) /\ segs' \in Seq(Segments) /\ a \in WorkerRecords
      /\ wk \in [Workers -> WorkerRecords]
  BY DEF TypeInvariant, TypeOK, TablePartitioned
<1>2. ASSUME NEW r, wk' = [wk EXCEPT ![w] = r], r.pc \notin Assigned
      PROVE  WorkersBehind'
  BY <1>1, <1>2, BehindStep DEF Assigned
<1>3. a.pc \in Assigned => a.cursor <= segs'[a.seg].pos
  BY <1>1, BehindKept
<1>4. CASE wk' = [wk EXCEPT ![w] = again] /\ a.pc \in Assigned
  <2>1. again.pc = "open" /\ again.seg = a.seg /\ again.cursor = a.cursor
    BY DEF AssignedTo
  <2> HIDE DEF again
  <2>2. QED
    BY <1>1, <1>3, <1>4, <2>1, BehindStep
<1>5. CASE Acquire(w)
  <2>1. PICK i, race, table :
          /\ i \in Nat /\ race \in BOOLEAN
          /\ wk' = [wk EXCEPT ![w] = AssignedTo(i, table[i].pos, race)]
          /\ segs' = table /\ i \in DOMAIN table
    <3>1. ASSUME NEW i \in LargestOf(segs, Unowned(segs)), Take(w, TakeOwner(segs, i, w), i, FALSE)
          PROVE  i \in DOMAIN segs /\ i \in Nat /\ i \in DOMAIN segs'
      BY <1>1, <3>1 DEF LargestOf, Unowned, TableGrows
    <3>2. ASSUME NEW i \in LargestOf(segs, Splittable(segs)),
                 Take(w, Split(segs, i, w), Len(segs) + 1, FALSE)
          PROVE  Len(segs) + 1 \in Nat /\ Len(segs) + 1 \in DOMAIN segs'
      <4>1. i \in Splittable(segs)
        BY DEF LargestOf
      <4>2. DOMAIN Split(segs, i, w) = 1 .. Len(segs) + 1
        BY <1>1, <4>1, SplitType
      <4>3. Len(segs) \in Nat
        BY <1>1
      <4>4. QED
        BY <3>2, <4>2, <4>3 DEF Take
    <3>3. ASSUME NEW i \in Raceable(segs), Take(w, TakeRacer(segs, i, w), i, TRUE)
          PROVE  i \in DOMAIN segs /\ i \in Nat /\ i \in DOMAIN segs'
      BY <1>1, <3>3 DEF Raceable, TableGrows
    <3>4. QED
      BY <1>5, <3>1, <3>2, <3>3 DEF Acquire, Take
  <2> DEFINE r == AssignedTo(i, table[i].pos, race)
  <2>2. r.pc = "open" /\ r.seg = i /\ r.cursor = segs'[i].pos
    BY <2>1 DEF AssignedTo
  <2>3. segs'[i] \in Segments
    BY <1>1, <2>1
  <2>4. segs'[i].pos \in Nat
    BY <2>3, SegmentNumbers
  <2> HIDE DEF r
  <2>5. r.cursor <= segs'[r.seg].pos
    BY <2>2, <2>4
  <2>6. wk' = [wk EXCEPT ![w] = r]
    BY <2>1 DEF r
  <2>7. QED
    BY <1>1, <2>2, <2>5, <2>6, BehindStep
<1>6. CASE Open(w)
  <2>1. a.pc = "open" /\ a.pc \in Assigned
    BY <1>6 DEF Open, Assigned
  <2>2. \/ wk' = [wk EXCEPT ![w] = Idle]
        \/ \E promised : wk' = [wk EXCEPT ![w].pc = "pump", ![w].reqEnd = promised]
    BY <1>6 DEF Open
  <2>3. ASSUME NEW promised, wk' = [wk EXCEPT ![w].pc = "pump", ![w].reqEnd = promised]
        PROVE  WorkersBehind'
    <3> DEFINE r == [a EXCEPT !.pc = "pump", !.reqEnd = promised]
    <3>1. wk' = [wk EXCEPT ![w] = r]
      BY <1>1, <2>3
    <3>2. r.pc = "pump" /\ r.seg = a.seg /\ r.cursor = a.cursor
      BY <1>1 DEF WorkerRecords
    <3> HIDE DEF r
    <3>3. QED
      BY <1>1, <1>3, <2>1, <3>1, <3>2, BehindStep
  <2>4. QED
    BY <1>2, <2>2, <2>3, Unassigned
<1>7. CASE Receive(w)
  <2>1. a.pc \in Assigned
    BY <1>7 DEF Receive, Assigned
  <2>2. a.seg \in DOMAIN segs /\ a.cursor \in Offsets
    BY <2>1, ReassignedType
  <2>3. PICK n \in 1 .. MaxChunk :
          LET accepted == Accepted(segs, a.seg, w, a.cursor, n)
              to == a.cursor + accepted
          IN  IF accepted = 0
              THEN wk' = [wk EXCEPT ![w] = Idle]
              ELSE /\ segs' = Advance(segs, a.seg, to)
                   /\ wk' = [wk EXCEPT ![w].to = to,
                                       ![w].pc = IF to >= segs[a.seg].end \/ Done(segs'[a.seg])
                                                 THEN "last" ELSE "hand"]
    BY <1>7 DEF Receive
  <2> DEFINE accepted == Accepted(segs, a.seg, w, a.cursor, n)
             to == a.cursor + accepted
  <2>4. n \in Nat \ {0}
    BY TransferAssumption
  <2>5. to \in Offsets
    BY <1>1, <2>2, <2>4, AcceptedBounds
  <2>6. CASE accepted = 0
    BY <1>2, <2>3, <2>6, Unassigned
  <2>7. CASE accepted # 0
    <3> DEFINE pc == IF to >= segs[a.seg].end \/ Done(segs'[a.seg]) THEN "last" ELSE "hand"
               r == [a EXCEPT !.to = to, !.pc = pc]
    <3>1. segs' = Advance(segs, a.seg, to) /\ wk' = [wk EXCEPT ![w] = r]
      BY <1>1, <2>3, <2>7
    <3>2. to <= segs[a.seg].end /\ to > a.cursor
      BY <1>1, <2>2, <2>4, <2>7, AcceptedInside
    <3>3. r.seg = a.seg /\ r.cursor = a.cursor /\ r.to = to
      BY <1>1 DEF WorkerRecords
    <3> HIDE DEF r, to
    <3>4. segs'[a.seg].pos = Larger(segs[a.seg].pos, to) /\ a.seg \in DOMAIN segs'
      BY <2>2, <2>5, <3>1, <3>2, AdvanceGrows
    <3>5. segs[a.seg] \in Segments
      BY <1>1, <2>2
    <3>6. to \in Nat /\ a.cursor \in Nat /\ segs[a.seg].pos \in Nat
      BY <2>2, <2>5, <3>5, SegmentNumbers, ZeroOffset
    <3>7. Received(segs', a.seg, a.cursor, to)
      BY <3>2, <3>4, <3>6 DEF Received, Larger
    <3>8. QED
      BY <1>1, <1>3, <2>1, <3>1, <3>3, <3>7, BehindStep
  <2>8. QED
    BY <2>6, <2>7
<1>8. CASE Submit(w) /\ ~failed
  <2> DEFINE r == [a EXCEPT !.pc = "pump", !.cursor = a.to]
  <2>1. a.pc \in {"hand", "last"} /\ segs' = segs
        /\ wk' = [wk EXCEPT ![w] = IF a.pc = "last" THEN Idle ELSE r]
    BY <1>8 DEF Submit
  <2>2. Received(segs, a.seg, a.cursor, a.to)
    BY <2>1 DEF WorkersBehind
  <2>3. r.pc = "pump" /\ r.seg = a.seg /\ r.cursor = a.to
    BY <1>1 DEF WorkerRecords
  <2> HIDE DEF r
  <2>4. r.cursor <= segs'[r.seg].pos
    BY <2>1, <2>2, <2>3 DEF Received
  <2>5. CASE a.pc = "last"
    BY <1>2, <2>1, <2>5, Unassigned
  <2>6. CASE a.pc # "last"
    <3>1. wk' = [wk EXCEPT ![w] = r]
      BY <2>1, <2>6
    <3>2. QED
      BY <1>1, <2>3, <2>4, <3>1, BehindStep
  <2>7. QED
    BY <2>5, <2>6
<1>9. \/ \E r : wk' = [wk EXCEPT ![w] = r] /\ r.pc \notin Assigned
      \/ wk' = [wk EXCEPT ![w] = again] /\ a.pc \in Assigned
      \/ Acquire(w) \/ Open(w) \/ Receive(w) \/ (Submit(w) /\ ~failed)
  <2>1. /\ Off.pc \notin Assigned /\ Idle.pc \notin Assigned
        /\ \A exit \in {"off", "gaveup", "fatal"} : [Off EXCEPT !.pc = exit].pc \notin Assigned
    BY Unassigned
  <2>2. CASE Spawn(w) \/ LeaveIdle(w) \/ StopExit(w)
    BY <2>1, <2>2 DEF Spawn, LeaveIdle, StopExit
  <2>3. CASE Submit(w) /\ failed
    BY <2>1, <2>3 DEF Submit
  <2>4. CASE EndOfRange(w) \/ Reopen(w)
    BY <2>1, <2>4 DEF EndOfRange, Reopen, Assigned
  <2>5. CASE Fail(w)
    BY <2>1, <2>5 DEF Fail, Assigned
  <2>6. QED
    BY <2>2, <2>3, <2>4, <2>5 DEF WorkerStep
<1>10. QED
  BY <1>2, <1>4, <1>5, <1>6, <1>7, <1>8, <1>9

\* A worker is at work only within a run, and leaves the job's stage alone.
LEMMA WorkerInRun ==
  ASSUME NobodyBetweenRuns, NEW w \in Workers, WorkerStep(w)
  PROVE  /\ phase # "off" /\ phase' = phase
         /\ UNCHANGED << writerVars, storageVars, savedVars, jobVars, count >>
<1>1. phase = "run" \/ wk[w].pc # "off"
  BY DEF WorkerStep, Spawn, Acquire, LeaveIdle, Open, Receive, Submit, EndOfRange, Reopen, Fail,
         StopExit, Assigned
<1>2. UNCHANGED << writerVars, storageVars, savedVars, jobVars, count >>
  BY DEF WorkerStep, Spawn, Acquire, LeaveIdle, Open, Receive, Submit, EndOfRange, Reopen, Fail,
         StopExit
<1>3. QED
  BY <1>1, <1>2 DEF NobodyBetweenRuns, jobVars

\* A worker appends what it has in hand to the channel, or nothing.
LEMMA WorkerChannel ==
  ASSUME TypeInvariant, NEW w \in Workers, WorkerStep(w)
  PROVE  \/ chan' = chan
         \/ /\ wk[w].pc \in {"hand", "last"} /\ segs' = segs /\ ~failed
            /\ chan' = Append(chan, [kind |-> "chunk", worker |-> w, seg |-> wk[w].seg,
                                     from |-> wk[w].cursor, to |-> wk[w].to])
BY DEF WorkerStep, Spawn, Acquire, LeaveIdle, Open, Receive, Submit, EndOfRange, Reopen, Fail,
       StopExit

\* What a channel holds after a message was appended.
LEMMA AppendedMessages ==
  ASSUME NEW S, NEW q \in Seq(S), NEW m
  PROVE  /\ DOMAIN Append(q, m) = DOMAIN q \cup {Len(q) + 1}
         /\ Append(q, m)[Len(q) + 1] = m
         /\ \A k \in DOMAIN q : Append(q, m)[k] = q[k] /\ k <= Len(q) /\ k \in Nat
<1>1. Len(q) \in Nat /\ DOMAIN q = 1 .. Len(q)
  OBVIOUS
<1>2. q \in Seq(S \cup {m}) /\ m \in S \cup {m}
  <2>1. Seq(S) \subseteq Seq(S \cup {m})
    OBVIOUS
  <2>2. QED
    BY <2>1
<1>3. /\ DOMAIN Append(q, m) = 1 .. Len(q) + 1
      /\ Append(q, m)[Len(q) + 1] = m
      /\ \A k \in 1 .. Len(q) : Append(q, m)[k] = q[k]
  BY <1>1, <1>2
<1>4. QED
  BY <1>1, <1>3

\* What a channel holds after its first message was taken.
LEMMA RemainingMessages ==
  ASSUME NEW S, NEW q \in Seq(S), q # << >>
  PROVE  /\ Head(q) = q[1] /\ 1 \in DOMAIN q /\ Head(q) \in S
         /\ \A k \in DOMAIN Tail(q) : k + 1 \in DOMAIN q /\ Tail(q)[k] = q[k + 1] /\ k \in Nat
<1>1. Len(q) \in Nat \ {0} /\ DOMAIN q = 1 .. Len(q)
  OBVIOUS
<1>2. /\ Tail(q) \in Seq(S) /\ Len(Tail(q)) = Len(q) - 1
      /\ \A k \in 1 .. Len(q) - 1 : Tail(q)[k] = q[k + 1]
  OBVIOUS
<1>3. QED
  BY <1>1, <1>2

\* A worker's step keeps the invariant.
LEMMA WorkerPartition ==
  ASSUME TypeInvariant, NobodyBetweenRuns, PartitionInvariant, NEW w \in Workers, WorkerStep(w)
  PROVE  PartitionInvariant' /\ TableGrows(segs, segs')
<1>1. TablePartitioned(segs') /\ TableGrows(segs, segs')
  BY WorkerTablePartitioned DEF PartitionInvariant
<1>2. segs \in Seq(Segments) /\ segs' \in Seq(Segments) /\ chan \in Seq(Messages)
  BY <1>1 DEF TablePartitioned, TypeInvariant, TypeOK
<1>3. WorkersBehind'
  BY <1>1, WorkerBehind DEF PartitionInvariant
<1>4. phase # "off" /\ phase' = phase /\ UNCHANGED << writerVars, savedVars >>
  BY WorkerInRun
<1>5. ChannelReceived'
  <2>1. CASE chan' = chan
    BY <1>1, <1>2, <2>1, ChannelKept DEF PartitionInvariant
  <2>2. CASE /\ wk[w].pc \in {"hand", "last"} /\ segs' = segs
             /\ chan' = Append(chan, [kind |-> "chunk", worker |-> w, seg |-> wk[w].seg,
                                      from |-> wk[w].cursor, to |-> wk[w].to])
    <3> DEFINE m == [kind |-> "chunk", worker |-> w, seg |-> wk[w].seg,
                     from |-> wk[w].cursor, to |-> wk[w].to]
    <3>1. Received(segs', m.seg, m.from, m.to)
      BY <2>2 DEF PartitionInvariant, WorkersBehind
    <3>2. chan' = Append(chan, m)
      BY <2>2
    <3> HIDE DEF m
    <3>3. \A k \in DOMAIN chan' : chan'[k] = m \/ \E j \in DOMAIN chan : chan'[k] = chan[j]
      BY <1>2, <3>2, AppendedMessages
    <3>4. QED
      BY <1>1, <1>2, <3>1, <3>3, ChannelKept DEF PartitionInvariant
  <2>3. QED
    BY <2>1, <2>2, WorkerChannel
<1>6. BuffersReceived'
  BY <1>1, <1>2, <1>4, BuffersKept DEF PartitionInvariant, writerVars
<1>7. StatesValid' /\ NothingBetweenRuns'
  BY <1>4 DEF PartitionInvariant, StatesValid, NothingBetweenRuns, savedVars
<1>8. QED
  BY <1>1, <1>3, <1>5, <1>6, <1>7 DEF PartitionInvariant

-----------------------------------------------------------------------------
(***************************************************************************)
(* The writer.                                                             *)
(***************************************************************************)
\* Writing a received piece, or failing to, keeps the partition.
LEMMA WritePartitioned ==
  ASSUME TypeInvariant, TablePartitioned(segs), NEW b \in Buffers,
         Received(segs, b.seg, b.from, b.to), Write(b)
  PROVE  TablePartitioned(segs') /\ TableGrows(segs, segs')
<1>1. segs \in Seq(Segments) /\ b.from \in Offsets /\ b.to \in Offsets
  BY DEF TypeInvariant, TypeOK, Buffers
<1>2. b.seg \in DOMAIN segs /\ b.to <= segs[b.seg].pos
  BY DEF Received
<1>3. segs' = segs \/ segs' = OnFlushed(segs, b.seg, b.from, b.to)
  BY DEF Write
<1>4. QED
  BY <1>1, <1>2, <1>3, OnFlushedGrows, GrowsReflexive

\* A step of the writer that changes no stored state.
LEMMA WriterPartition ==
  ASSUME TypeInvariant, PartitionInvariant,
         TablePartitioned(segs'), TableGrows(segs, segs'),
         \A k \in DOMAIN chan' : \E j \in DOMAIN chan : chan'[k] = chan[j],
         \A v \in Workers :
           \/ buffer'[v] \in {buffer[v], NoBuffer}
           \/ Received(segs', buffer'[v].seg, buffer'[v].from, buffer'[v].to),
         wk' = wk, StatesValid', phase' # "off"
  PROVE  PartitionInvariant'
<1>1. segs' \in Seq(Segments)
  BY DEF TablePartitioned
<1>2. WorkersBehind'
  BY <1>1, BehindKept DEF PartitionInvariant, WorkersBehind
<1>3. ChannelReceived'
  BY <1>1, ChannelKept DEF PartitionInvariant
<1>4. BuffersReceived'
  BY <1>1, BuffersKept DEF PartitionInvariant
<1>5. QED
  BY <1>2, <1>3, <1>4 DEF PartitionInvariant, NothingBetweenRuns

\* A chunk that joins a buffer, replaces it or is dropped is still received.
LEMMA TakeChunkPartition ==
  ASSUME TypeInvariant, PartitionInvariant, TakeChunk
  PROVE  PartitionInvariant' /\ TableGrows(segs, segs')
<1> DEFINE m == Head(chan)
           b == buffer[m.worker]
           new == [seg |-> m.seg, from |-> m.from, to |-> m.to]
           merged == [b EXCEPT !.to = m.to]
<1>1. /\ chan \in Seq(Messages) /\ chan # << >> /\ m.kind = "chunk" /\ chan' = Tail(chan)
      /\ segs \in Seq(Segments) /\ buffer \in [Workers -> Buffers]
  BY DEF TypeInvariant, TypeOK, TakeChunk
<1>2. /\ m \in Messages /\ 1 \in DOMAIN chan /\ m = chan[1]
      /\ \A k \in DOMAIN chan' : \E j \in DOMAIN chan : chan'[k] = chan[j]
  BY <1>1, RemainingMessages
<1>3. m \in [kind : {"chunk"}, worker : Workers, seg : Nat, from : Offsets, to : Offsets]
  BY <1>1, <1>2 DEF Messages, Flushes
<1>4. m.worker \in Workers /\ m.seg \in Nat /\ m.from \in Offsets /\ m.to \in Offsets
  BY <1>3
<1>5. Received(segs, m.seg, m.from, m.to)
  BY <1>1, <1>2 DEF PartitionInvariant, ChannelReceived
<1>6. b \in Buffers /\ (b # NoBuffer => Received(segs, b.seg, b.from, b.to))
  BY <1>1, <1>4 DEF PartitionInvariant, BuffersReceived
<1>7. phase # "off"
  BY <1>1 DEF PartitionInvariant, NothingBetweenRuns
<1>8. UNCHANGED << wk, savedVars, jobVars >>
  BY DEF TakeChunk
<1>9. \/ /\ UNCHANGED << segs, buffer >>
      \/ /\ b = NoBuffer /\ segs' = segs
         /\ \E held \in {buffer, NoBuffers} : buffer' = [held EXCEPT ![m.worker] = new]
      \/ /\ b # NoBuffer /\ b.seg = m.seg /\ b.to = m.from
         /\ segs' = segs \/ Write(merged)
         /\ \E held \in {buffer, NoBuffers}, c \in {merged, NoBuffer} :
              buffer' = [held EXCEPT ![m.worker] = c]
      \/ /\ b # NoBuffer /\ Write(b)
         /\ \E held \in {buffer, NoBuffers} : buffer' = [held EXCEPT ![m.worker] = new]
  BY DEF TakeChunk
<1>10. /\ new.seg = m.seg /\ new.from = m.from /\ new.to = m.to
       /\ merged.seg = b.seg /\ merged.from = b.from /\ merged.to = m.to
       /\ merged \in Buffers
  <2> HIDE DEF m, b
  <2>1. QED
    BY <1>4, <1>6 DEF Buffers
<1> HIDE DEF m, b, new, merged
<1>11. ASSUME b # NoBuffer, b.seg = m.seg, b.to = m.from
       PROVE  Received(segs, merged.seg, merged.from, merged.to)
  <2>1. b.from <= b.to /\ m.from <= m.to /\ m.seg \in DOMAIN segs /\ m.to <= segs[m.seg].pos
    BY <1>5, <1>6, <1>11 DEF Received
  <2>2. b.from \in Nat /\ b.to \in Nat /\ m.from \in Nat /\ m.to \in Nat
    BY <1>4, <1>6, ZeroOffset DEF Buffers
  <2>3. b.from <= m.to
    BY <1>11, <2>1, <2>2
  <2>4. QED
    BY <1>10, <1>11, <2>1, <2>3 DEF Received
<1>12. TablePartitioned(segs') /\ TableGrows(segs, segs')
  <2>1. CASE segs' = segs
    BY <1>1, <2>1, GrowsReflexive DEF PartitionInvariant
  <2>2. CASE b # NoBuffer /\ Write(b)
    BY <1>6, <2>2, WritePartitioned DEF PartitionInvariant
  <2>3. CASE b # NoBuffer /\ b.seg = m.seg /\ b.to = m.from /\ Write(merged)
    BY <1>10, <1>11, <2>3, WritePartitioned DEF PartitionInvariant
  <2>4. QED
    BY <1>9, <2>1, <2>2, <2>3
<1>13. Received(segs', m.seg, m.from, m.to)
  BY <1>1, <1>4, <1>5, <1>12, ReceivedKept DEF TablePartitioned
<1>14. ASSUME NEW v \in Workers
       PROVE  \/ buffer'[v] \in {buffer[v], NoBuffer}
              \/ Received(segs', buffer'[v].seg, buffer'[v].from, buffer'[v].to)
  <2>1. \A held \in {buffer, NoBuffers} :
          /\ held[v] \in {buffer[v], NoBuffer}
          /\ \A c : [held EXCEPT ![m.worker] = c][v] = IF v = m.worker THEN c ELSE held[v]
    <3>1. NoBuffers[v] = NoBuffer /\ DOMAIN NoBuffers = Workers
      BY DEF NoBuffers
    <3>2. QED
      BY <1>1, <3>1
  <2>2. CASE buffer'[v] = new
    BY <1>10, <1>13, <2>2
  <2>3. CASE buffer'[v] = merged /\ b # NoBuffer /\ b.seg = m.seg /\ b.to = m.from
    <3>1. merged.from \in Offsets /\ merged.to \in Offsets
      BY <1>10 DEF Buffers
    <3>2. QED
      BY <1>1, <1>11, <1>12, <2>3, <3>1, ReceivedKept DEF TablePartitioned
  <2>4. \/ buffer'[v] \in {buffer[v], NoBuffer, new}
        \/ buffer'[v] = merged /\ b # NoBuffer /\ b.seg = m.seg /\ b.to = m.from
    BY <1>9, <2>1
  <2>5. QED
    BY <2>2, <2>3, <2>4
<1>15. StatesValid' /\ phase' # "off" /\ wk' = wk
  BY <1>7, <1>8 DEF PartitionInvariant, StatesValid, savedVars, jobVars
<1>16. QED
  BY <1>2, <1>12, <1>14, <1>15, WriterPartition

\* The writer's other steps keep the invariant; what a flush answers is a valid state.
LEMMA FlushPartition ==
  ASSUME TypeInvariant, PartitionInvariant,
         \/ TakeControl \/ IdleFlush \/ (\E w \in Workers : FlushBuffer(w))
         \/ FinishPressure \/ FinishCheckpoint \/ FinishEnd \/ FinishClose
  PROVE  PartitionInvariant' /\ TableGrows(segs, segs')
<1>1. segs \in Seq(Segments) /\ chan \in Seq(Messages) /\ buffer \in [Workers -> Buffers]
  BY DEF TypeInvariant, TypeOK
<1>2. phase # "off"
  BY DEF PartitionInvariant, NothingBetweenRuns, TakeControl, IdleFlush, FlushBuffer,
         FinishPressure, FinishCheckpoint, FinishEnd, FinishClose
<1>3. phase' # "off" /\ wk' = wk
  BY <1>2 DEF TakeControl, IdleFlush, FlushBuffer, FinishPressure, FinishCheckpoint, FinishEnd,
              FinishClose, jobVars
<1>4. TablePartitioned(segs') /\ TableGrows(segs, segs')
  <2>1. CASE segs' = segs
    BY <1>1, <2>1, GrowsReflexive DEF PartitionInvariant
  <2>2. ASSUME NEW w \in Workers, FlushBuffer(w), segs' # segs
        PROVE  TablePartitioned(segs') /\ TableGrows(segs, segs')
    <3>1. buffer[w] # NoBuffer /\ Write(buffer[w]) /\ buffer[w] \in Buffers
      BY <1>1, <2>2 DEF FlushBuffer
    <3>2. QED
      BY <3>1, WritePartitioned DEF PartitionInvariant, BuffersReceived
  <2>3. QED
    BY <2>1, <2>2 DEF TakeControl, IdleFlush, FinishPressure, FinishCheckpoint, FinishEnd,
                      FinishClose
<1>5. \A k \in DOMAIN chan' : \E j \in DOMAIN chan : chan'[k] = chan[j]
  <2>1. CASE TakeControl
    BY <1>1, <2>1, RemainingMessages DEF TakeControl
  <2>2. CASE chan' = << >> \/ chan' = chan
    BY <2>2
  <2>3. QED
    BY <2>1, <2>2 DEF IdleFlush, FlushBuffer, FinishPressure, FinishCheckpoint, FinishEnd,
                      FinishClose
<1>6. \A v \in Workers : buffer'[v] \in {buffer[v], NoBuffer}
  BY <1>1 DEF TakeControl, IdleFlush, FlushBuffer, FinishPressure, FinishCheckpoint, FinishEnd,
              FinishClose
<1>7. StatesValid'
  <2>1. ValidStates(DurableStates(segs))
    BY DurableStatesValid DEF PartitionInvariant
  <2>2. /\ saved' = saved
        /\ final' = final \/ final' = DurableStates(segs)
        /\ \/ ckpt' = ckpt \/ ckpt'.at = "no"
           \/ ckpt'.states = DurableStates(segs)
    BY DEF TakeControl, IdleFlush, FlushBuffer, FinishPressure, FinishCheckpoint, FinishEnd,
           FinishClose, savedVars, NoCheckpoint
  <2>3. QED
    BY <2>1, <2>2 DEF PartitionInvariant, StatesValid
<1>8. QED
  BY <1>3, <1>4, <1>5, <1>6, <1>7, WriterPartition

-----------------------------------------------------------------------------
(***************************************************************************)
(* The supervisor and the manager.                                         *)
(***************************************************************************)
\* The supervisor's steps and the requests to it leave the table alone.
LEMMA SupervisorPartition ==
  ASSUME TypeInvariant, PartitionInvariant,
         \/ \E w \in Workers : Join(w)
         \/ SeeAllDone \/ SeeWriteError \/ Pause \/ EndTransfer \/ EndClose \/ AskCheckpoint
  PROVE  PartitionInvariant' /\ TableGrows(segs, segs')
<1>1. /\ segs \in Seq(Segments) /\ chan \in Seq(Messages) /\ segs' = segs
      /\ wk \in [Workers -> WorkerRecords]
  BY DEF TypeInvariant, TypeOK, Join, SeeAllDone, SeeWriteError, Pause, EndTransfer, EndClose,
         AskCheckpoint
<1>2. TablePartitioned(segs') /\ TableGrows(segs, segs')
  BY <1>1, GrowsReflexive DEF PartitionInvariant
<1>3. phase # "off" /\ phase' # "off"
  BY DEF Join, SeeAllDone, SeeWriteError, Pause, EndTransfer, EndClose, AskCheckpoint, jobVars
<1>4. WorkersBehind'
  <2>1. CASE wk' = wk
    BY <1>1, <2>1 DEF PartitionInvariant, WorkersBehind
  <2>2. ASSUME NEW w \in Workers, Join(w)
        PROVE  WorkersBehind'
    BY <1>1, <1>2, <2>2, BehindStep, Unassigned DEF Join, PartitionInvariant, Assigned
  <2>3. QED
    BY <2>1, <2>2 DEF SeeAllDone, SeeWriteError, Pause, EndTransfer, EndClose, AskCheckpoint
<1>5. ChannelReceived'
  <2>1. CASE chan' = chan
    BY <1>1, <1>2, <2>1, ChannelKept DEF PartitionInvariant
  <2>2. ASSUME NEW kind \in Flushes, chan' = Append(chan, Control(kind))
        PROVE  ChannelReceived'
    <3>1. Control(kind).kind # "chunk"
      BY DEF Control, Flushes
    <3>2. \A k \in DOMAIN chan' :
            chan'[k] = Control(kind) \/ \E j \in DOMAIN chan : chan'[k] = chan[j]
      BY <1>1, <2>2, AppendedMessages
    <3>3. QED
      BY <1>1, <1>2, <3>1, <3>2, ChannelKept DEF PartitionInvariant
  <2>3. chan' = chan \/ \E kind \in Flushes : chan' = Append(chan, Control(kind))
    BY DEF Join, SeeAllDone, SeeWriteError, Pause, EndTransfer, EndClose, AskCheckpoint, Flushes
  <2>4. QED
    BY <2>1, <2>2, <2>3
<1>6. BuffersReceived'
  <2>1. buffer' = buffer
    BY DEF Join, SeeAllDone, SeeWriteError, Pause, EndTransfer, EndClose, AskCheckpoint, writerVars
  <2>2. QED
    BY <1>1, <1>2, <2>1, BuffersKept DEF PartitionInvariant
<1>7. StatesValid'
  <2>1. /\ saved' = saved /\ final' = final
        /\ ckpt' = ckpt \/ ckpt'.at = "asked"
    BY DEF Join, SeeAllDone, SeeWriteError, Pause, EndTransfer, EndClose, AskCheckpoint, savedVars,
           NoCheckpoint
  <2>2. QED
    BY <2>1 DEF PartitionInvariant, StatesValid
<1>8. QED
  BY <1>2, <1>3, <1>4, <1>5, <1>6, <1>7 DEF PartitionInvariant, NothingBetweenRuns

\* The first worker is on a pending segment, at its receive frontier.
LEMMA FirstWorkerPartition ==
  ASSUME TypeInvariant, NobodyBetweenRuns, phase = "off", NEW table, TablePartitioned(table),
         NEW resumed \in BOOLEAN, FirstWorker(table, resumed)
  PROVE  TablePartitioned(segs') /\ WorkersBehind'
<1>1. wk \in [Workers -> WorkerRecords] /\ \A v \in Workers : wk[v].pc = "off"
  BY DEF TypeInvariant, TypeOK, NobodyBetweenRuns
<1>2. CASE segs' = table /\ UNCHANGED wk
  BY <1>1, <1>2 DEF WorkersBehind, Assigned
<1>3. ASSUME NEW w \in Workers, NEW i \in FirstPending(table), NEW n \in RequestSizes,
             LET pos == table[i].pos
                 reqEnd == RequestEnd(pos, table[i].end, n)
                 taken == TakeOwner(table, i, w)
             IN  /\ segs' = IF resumed THEN SetRequestEnd(taken, i, w, reqEnd) ELSE taken
                 /\ wk' = [wk EXCEPT ![w] =
                            [AssignedTo(i, pos, FALSE) EXCEPT !.pc = "pump", !.reqEnd = reqEnd]]
      PROVE  TablePartitioned(segs') /\ WorkersBehind'
  <2> DEFINE pos == table[i].pos
             reqEnd == RequestEnd(pos, table[i].end, n)
             taken == TakeOwner(table, i, w)
             a == AssignedTo(i, pos, FALSE)
             r == [a EXCEPT !.pc = "pump", !.reqEnd = reqEnd]
  <2>1. i \in DOMAIN table /\ table[i] \in Segments /\ n \in Nat
    BY TransferAssumption DEF FirstPending, TablePartitioned
  <2>2. pos \in Offsets /\ table[i].end \in Offsets /\ pos \in Nat
    BY <2>1, SegmentNumbers
  <2>3. reqEnd \in Offsets
    BY <2>1, <2>2, SizesAssumption DEF RequestEnd, Smaller, Offsets
  <2>4. TablePartitioned(taken) /\ TableGrows(table, taken)
    BY <2>1, TakeGrows
  <2>5. /\ segs' = IF resumed THEN SetRequestEnd(taken, i, w, reqEnd) ELSE taken
        /\ wk' = [wk EXCEPT ![w] = r]
    BY <1>3
  <2>6. r.pc = "pump" /\ r.seg = i /\ r.cursor = pos
    BY DEF AssignedTo
  <2> HIDE DEF reqEnd, taken, r
  <2>7. TablePartitioned(segs') /\ TableGrows(taken, segs')
    BY <2>3, <2>4, <2>5, SetRequestEndGrows, GrowsReflexive DEF TablePartitioned
  <2>8. /\ i \in DOMAIN taken /\ taken[i].pos >= pos
        /\ i \in DOMAIN segs' /\ segs'[i].pos >= taken[i].pos
    BY <2>1, <2>4, <2>7 DEF TableGrows
  <2>9. taken[i] \in Segments /\ segs'[i] \in Segments
    BY <2>4, <2>7, <2>8 DEF TablePartitioned
  <2>10. taken[i].pos \in Nat /\ segs'[i].pos \in Nat
    BY <2>9, SegmentNumbers
  <2>11. pos <= segs'[i].pos
    BY <2>2, <2>8, <2>10
  <2>12. WorkersBehind'
    BY <1>1, <2>5, <2>6, <2>11 DEF WorkersBehind, Assigned
  <2>13. QED
    BY <2>7, <2>12
<1>4. QED
  BY <1>2, <1>3 DEF FirstWorker

\* A run starts with a partition: a fresh one, or what the saved state says.
LEMMA StartPartition ==
  ASSUME TypeInvariant, NobodyBetweenRuns, PartitionInvariant, StartFresh \/ Resume
  PROVE  PartitionInvariant'
<1>1. /\ phase = "off" /\ phase' = "run"
      /\ UNCHANGED << chan, writerVars, savedVars >>
  BY DEF StartFresh, Resume, BeginRun
<1>2. chan = << >> /\ \A w \in Workers : buffer[w] = NoBuffer
  BY <1>1 DEF PartitionInvariant, NothingBetweenRuns
<1>3. TablePartitioned(segs') /\ WorkersBehind'
  <2>1. CASE StartFresh
    BY <1>1, <2>1, FreshTablePartitioned, FirstWorkerPartition DEF StartFresh
  <2>2. CASE Resume
    <3>1. ValidStates(saved) /\ saved \in Seq(SegmentStates)
      BY <2>2 DEF Resume, PartitionInvariant, StatesValid, TypeInvariant, TypeOK
    <3>2. QED
      BY <1>1, <2>2, <3>1, FromStatesPartitioned, FirstWorkerPartition DEF Resume
  <2>3. QED
    BY <2>1, <2>2
<1>4. ChannelReceived' /\ BuffersReceived'
  BY <1>1, <1>2 DEF ChannelReceived, BuffersReceived, writerVars
<1>5. StatesValid' /\ NothingBetweenRuns'
  BY <1>1 DEF PartitionInvariant, StatesValid, NothingBetweenRuns, savedVars
<1>6. QED
  BY <1>3, <1>4, <1>5 DEF PartitionInvariant

\* A run leaves a fresh table and nothing on its way.
LEMMA EndRunPartition ==
  ASSUME EndRun, saved' = << >> \/ ValidStates(saved'),
         ckpt'.at = "answered" => ValidStates(ckpt'.states)
  PROVE  PartitionInvariant'
<1>1. /\ phase' = "off" /\ segs' = FreshTable /\ wk' = [w \in Workers |-> Off] /\ chan' = << >>
      /\ buffer' = NoBuffers /\ flushing' = "no" /\ final' = << >>
  BY DEF EndRun
<1>2. TablePartitioned(segs')
  BY <1>1, FreshTablePartitioned
<1>3. WorkersBehind'
  BY <1>1 DEF WorkersBehind, Off, Assigned
<1>4. ChannelReceived' /\ BuffersReceived' /\ NothingBetweenRuns'
  BY <1>1 DEF ChannelReceived, BuffersReceived, NothingBetweenRuns, NoBuffers
<1>5. StatesValid'
  BY <1>1 DEF StatesValid
<1>6. QED
  BY <1>2, <1>3, <1>4, <1>5 DEF PartitionInvariant

\* What is answered, stored or kept over a crash is a valid state.
LEMMA ManagerPartition ==
  ASSUME TypeInvariant, PartitionInvariant, AskEnded \/ SaveCheckpoint \/ SaveOutcome \/ Crash
  PROVE  PartitionInvariant'
<1>1. StatesValid /\ segs \in Seq(Segments)
  BY DEF PartitionInvariant, TypeInvariant, TypeOK
<1>2. CASE AskEnded \/ SaveCheckpoint
  <2>1. UNCHANGED << segs, wk, chan, buffer, flushing, phase, final >>
    BY <1>2 DEF AskEnded, SaveCheckpoint, writerVars, jobVars
  <2>2. StatesValid'
    BY <1>1, <1>2 DEF AskEnded, SaveCheckpoint, StatesValid, NoCheckpoint
  <2>3. QED
    BY <2>1, <2>2 DEF PartitionInvariant, WorkersBehind, ChannelReceived, BuffersReceived,
                      NothingBetweenRuns
<1>3. CASE SaveOutcome
  <2>1. ValidStates(DurableStates(segs))
    BY DurableStatesValid DEF PartitionInvariant
  <2>2. EndRun /\ ckpt' = ckpt /\ saved' = IF final # << >> THEN final ELSE DurableStates(segs)
    BY <1>3 DEF SaveOutcome
  <2>3. QED
    BY <1>1, <2>1, <2>2, EndRunPartition DEF StatesValid
<1>4. CASE Crash
  <2>1. EndRun /\ saved' = saved /\ ckpt'.at = "no"
    BY <1>4 DEF Crash, NoCheckpoint
  <2>2. QED
    BY <1>1, <2>1, EndRunPartition DEF StatesValid
<1>5. QED
  BY <1>2, <1>3, <1>4

\* A step that changes nothing.
LEMMA StutterPartition ==
  ASSUME PartitionInvariant, UNCHANGED vars
  PROVE  PartitionInvariant' /\ segs' = segs
BY DEF vars, writerVars, storageVars, savedVars, jobVars, PartitionInvariant, WorkersBehind,
       ChannelReceived, BuffersReceived, StatesValid, NothingBetweenRuns

\* Every step keeps the invariant.
LEMMA PartitionStep ==
  ASSUME TypeInvariant, NobodyBetweenRuns, PartitionInvariant, [Next]_vars
  PROVE  PartitionInvariant'
<1>1. ASSUME NEW w \in Workers, WorkerStep(w)
      PROVE  PartitionInvariant'
  BY <1>1, WorkerPartition
<1>2. CASE WriterStep
  BY <1>2, TakeChunkPartition, FlushPartition DEF WriterStep
<1>3. CASE SupervisorStep
  BY <1>3, SupervisorPartition DEF SupervisorStep
<1>4. CASE ManagerStep
  BY <1>4, StartPartition, SupervisorPartition, ManagerPartition DEF ManagerStep
<1>5. CASE Crash
  BY <1>5, ManagerPartition
<1>6. CASE UNCHANGED vars
  BY <1>6, StutterPartition
<1>7. QED
  BY <1>1, <1>2, <1>3, <1>4, <1>5, <1>6 DEF Next, Finished

\* Within a run the table only grows.
LEMMA RunGrows ==
  ASSUME TypeInvariant, NobodyBetweenRuns, PartitionInvariant, [Next]_vars,
         phase = "run", phase' = "run"
  PROVE  TableGrows(segs, segs')
<1>1. segs \in Seq(Segments)
  BY DEF TypeInvariant, TypeOK
<1>2. CASE segs' = segs
  BY <1>1, <1>2, GrowsReflexive
<1>3. ASSUME NEW w \in Workers, WorkerStep(w)
      PROVE  TableGrows(segs, segs')
  BY <1>3, WorkerPartition
<1>4. CASE WriterStep
  BY <1>4, TakeChunkPartition, FlushPartition DEF WriterStep
<1>5. CASE SupervisorStep
  BY <1>5, SupervisorPartition DEF SupervisorStep
<1>6. CASE ManagerStep \/ Crash
  <2>1. ~StartFresh /\ ~Resume /\ ~SaveOutcome /\ ~Crash
    BY DEF StartFresh, Resume, BeginRun, SaveOutcome, EndRun, Crash
  <2>2. QED
    BY <1>2, <1>6, <2>1 DEF ManagerStep, Pause, AskCheckpoint, AskEnded, SaveCheckpoint
<1>7. QED
  BY <1>2, <1>3, <1>4, <1>5, <1>6 DEF Next, Finished, vars

\* The initial state satisfies the invariant.
LEMMA InitPartition == Init => PartitionInvariant
<1> SUFFICES ASSUME Init PROVE PartitionInvariant
  OBVIOUS
<1>1. TablePartitioned(segs)
  BY FreshTablePartitioned DEF Init
<1>2. WorkersBehind /\ ChannelReceived /\ BuffersReceived
  BY DEF Init, WorkersBehind, Off, Assigned, ChannelReceived, BuffersReceived, NoBuffers
<1>3. StatesValid /\ NothingBetweenRuns
  BY DEF Init, StatesValid, NothingBetweenRuns, NoCheckpoint, NoBuffers
<1>4. QED
  BY <1>1, <1>2, <1>3 DEF PartitionInvariant

\* The invariant holds in every reachable state, with the types it rests on.
LEMMA PartitionInvariantHolds ==
  Spec => [](TypeInvariant /\ NobodyBetweenRuns /\ PartitionInvariant)
<1>1. Init => TypeInvariant /\ NobodyBetweenRuns /\ PartitionInvariant
  BY InitType, InitPartition DEF Init, NobodyBetweenRuns, Off
<1>2. TypeInvariant /\ NobodyBetweenRuns /\ PartitionInvariant /\ [Next]_vars
        => TypeInvariant' /\ NobodyBetweenRuns' /\ PartitionInvariant'
  BY TypeStep, NobodyBetweenRunsStep, PartitionStep
<1>3. QED
  BY <1>1, <1>2, PTL DEF Spec

\* validate(): the segments of a run, and what a checkpoint taken now would record, partition
\* the file with start <= written <= pos <= end, for any number of workers, any sizes, and
\* whether or not writes fail and the part file vanishes.
THEOREM TablePartitionsFile == Spec => []SegmentsPartitionFile
<1>1. PartitionInvariant => SegmentsPartitionFile
  <2> SUFFICES ASSUME PartitionInvariant PROVE SegmentsPartitionFile
    OBVIOUS
  <2>1. ValidStates(segs) /\ \A i \in DOMAIN segs : FrontiersOrdered(segs[i])
    BY DEF PartitionInvariant, TablePartitioned
  <2>2. ValidStates(DurableStates(segs))
    BY DurableStatesValid DEF PartitionInvariant
  <2>3. QED
    BY <2>1, <2>2 DEF SegmentsPartitionFile, FrontiersOrdered
<1>2. QED
  BY <1>1, PartitionInvariantHolds, PTL

\* manager: the resume state in the database is none or one that validate() accepts, so a
\* resume never has to throw it away.
THEOREM SavedStateValid == Spec => [](saved = << >> \/ ValidStates(saved))
<1>1. PartitionInvariant => (saved = << >> \/ ValidStates(saved))
  BY DEF PartitionInvariant, StatesValid
<1>2. QED
  BY <1>1, PartitionInvariantHolds, PTL

\* Within a run no step takes back a received or written byte, moves a segment's start or lets
\* a segment grow.
THEOREM ProgressKept == Spec => ProgressIsKept
<1> DEFINE Kept == phase = "run" /\ phase' = "run" =>
                     \A i \in DOMAIN segs :
                       /\ i \in DOMAIN segs'
                       /\ segs'[i].start = segs[i].start
                       /\ segs'[i].pos >= segs[i].pos
                       /\ segs'[i].written >= segs[i].written
                       /\ segs'[i].end <= segs[i].end
<1>1. TypeInvariant /\ NobodyBetweenRuns /\ PartitionInvariant /\ [Next]_vars => [Kept]_vars
  BY RunGrows DEF TableGrows
<1>2. Spec => [][Kept]_vars
  <2> HIDE DEF Kept
  <2>1. QED
    BY <1>1, PartitionInvariantHolds, PTL DEF Spec
<1>3. QED
  BY <1>2 DEF ProgressIsKept

---------------------------------------------------------------------------
(***************************************************************************)
(* Who holds which segment.  However workers take, split, race, release    *)
(* and finish segments, every owner and racer of a segment is a worker     *)
(* that is on it: none is left to a worker that is gone or elsewhere.      *)
(*                                                                         *)
(* That is not inductive alone.  A worker leaves a finished segment        *)
(* without a release, relying on `advance` to have cleared its holders.    *)
(* So the invariant adds that a finished segment is unheld and that a      *)
(* worker with its last piece in hand is on a finished one.  That a worker *)
(* which reached the end is on a finished segment is WorkersBehind.        *)
(***************************************************************************)
\* At most one owner and one other racer, who races an owner, and neither when all is received.
HeldSoundly(s) ==
  /\ s.owner = NoWorker => s.racer = NoWorker
  /\ s.owner # NoWorker => s.owner # s.racer
  /\ Done(s) => s.owner = NoWorker

TableHeldSoundly(table) == \A i \in DOMAIN table : HeldSoundly(table[i])

HoldersAtTheirSegment ==
  \A i \in DOMAIN segs, w \in Workers : Holds(segs[i], w) => wk[w].pc \in Assigned /\ wk[w].seg = i

LastPieceFinishes == \A w \in Workers : wk[w].pc = "last" => Done(segs[wk[w].seg])

HoldersInvariant == TableHeldSoundly(segs) /\ HoldersAtTheirSegment /\ LastPieceFinishes

-----------------------------------------------------------------------------
(***************************************************************************)
(* The methods of the table.                                               *)
(***************************************************************************)
\* What a step of worker w does to the holders: every segment stays soundly held, no other worker
\* becomes a holder, and w holds at most the segment it is given.
HoldersMove(table, next, w, given) ==
  /\ TableHeldSoundly(next)
  /\ \A j \in DOMAIN next, v \in Workers :
       Holds(next[j], v) => \/ j \in DOMAIN table /\ Holds(table[j], v) /\ v # w
                            \/ v = w /\ j \in given

\* A finished segment stays finished.
LEMMA DoneKept ==
  ASSUME NEW table \in Seq(Segments), NEW next \in Seq(Segments), TableGrows(table, next),
         NEW i \in DOMAIN table, Done(table[i])
  PROVE  i \in DOMAIN next /\ Done(next[i])
<1>1. i \in DOMAIN next /\ next[i].pos >= table[i].pos /\ next[i].end <= table[i].end
  BY DEF TableGrows
<1>2. table[i] \in Segments /\ next[i] \in Segments
  BY <1>1
<1>3. QED
  BY <1>1, <1>2, SegmentNumbers DEF Done

\* Replacing the holders of one segment.
LEMMA ReplaceHolders ==
  ASSUME NEW table \in Seq(Segments), TableHeldSoundly(table), NEW w \in Workers,
         NEW i \in DOMAIN table, NEW x, HeldSoundly(x),
         \A j \in DOMAIN table : Holds(table[j], w) => j = i,
         \A v \in Workers : Holds(x, v) => v = w \/ Holds(table[i], v),
         NEW given, Holds(x, w) => i \in given
  PROVE  HoldersMove(table, [table EXCEPT ![i] = x], w, given)
<1> DEFINE u == [table EXCEPT ![i] = x]
<1>1. DOMAIN u = DOMAIN table /\ \A j \in DOMAIN table : u[j] = IF j = i THEN x ELSE table[j]
  OBVIOUS
<1> HIDE DEF u
<1>2. TableHeldSoundly(u)
  BY <1>1 DEF TableHeldSoundly
<1>3. ASSUME NEW j \in DOMAIN u, NEW v \in Workers, Holds(u[j], v)
      PROVE  \/ j \in DOMAIN table /\ Holds(table[j], v) /\ v # w
             \/ v = w /\ j \in given
  <2>1. CASE j = i
    BY <1>1, <1>3, <2>1
  <2>2. CASE j # i
    BY <1>1, <1>3, <2>2
  <2>3. QED
    BY <2>1, <2>2
<1>4. QED
  BY <1>2, <1>3 DEF HoldersMove, u

\* acquire: a worker that holds nothing becomes the owner of an unowned segment, or races one
\* that is owned and not raced.
LEMMA TakeHolders ==
  ASSUME NEW table \in Seq(Segments), TableHeldSoundly(table), NEW w \in Workers,
         NEW i \in DOMAIN table,
         \A j \in DOMAIN table : ~Holds(table[j], w)
  PROVE  /\ i \in Unowned(table) => HoldersMove(table, TakeOwner(table, i, w), w, {i})
         /\ i \in Raceable(table) => HoldersMove(table, TakeRacer(table, i, w), w, {i})
<1> DEFINE s == table[i]
           owned == [s EXCEPT !.owner = w, !.reqEnd = 0]
           raced == [s EXCEPT !.racer = w]
<1>1. s \in Segments /\ HeldSoundly(s) /\ ~Holds(s, w) /\ w # NoWorker
  BY WorkersAssumption DEF TableHeldSoundly
<1>2. TakeOwner(table, i, w) = [table EXCEPT ![i] = owned]
      /\ TakeRacer(table, i, w) = [table EXCEPT ![i] = raced]
  BY DEF TakeOwner, TakeRacer
<1>3. /\ owned.owner = w /\ owned.racer = s.racer /\ owned.pos = s.pos /\ owned.end = s.end
      /\ raced.owner = s.owner /\ raced.racer = w /\ raced.pos = s.pos /\ raced.end = s.end
  BY <1>1 DEF Segments
<1>4. ASSUME i \in Unowned(table)
      PROVE  HoldersMove(table, TakeOwner(table, i, w), w, {i})
  <2>1. s.owner = NoWorker /\ ~Done(s)
    BY <1>4 DEF Unowned
  <2> HIDE DEF s, owned
  <2>2. HeldSoundly(owned) /\ \A v \in Workers : Holds(owned, v) => v = w
    BY <1>1, <1>3, <2>1, WorkersAssumption DEF HeldSoundly, Done, Holds
  <2>3. HoldersMove(table, [table EXCEPT ![i] = owned], w, {i})
    BY <2>2, ReplaceHolders
  <2>4. QED
    BY <1>2, <2>3
<1>5. ASSUME i \in Raceable(table)
      PROVE  HoldersMove(table, TakeRacer(table, i, w), w, {i})
  <2>1. s.owner # NoWorker /\ ~Done(s)
    BY <1>5 DEF Raceable
  <2>2. HeldSoundly(raced) /\ \A v \in Workers : Holds(raced, v) => v = w \/ Holds(s, v)
    <3> HIDE DEF s, raced
    <3>1. QED
      BY <1>1, <1>3, <2>1 DEF HeldSoundly, Done, Holds
  <2> HIDE DEF raced
  <2>3. HoldersMove(table, [table EXCEPT ![i] = raced], w, {i})
    BY <2>2, ReplaceHolders
  <2>4. QED
    BY <1>2, <2>3
<1>6. QED
  BY <1>4, <1>5

\* acquire: the thief owns the piece behind the split point, and the victim keeps the rest.
LEMMA SplitHolders ==
  ASSUME NEW table, TablePartitioned(table), TableHeldSoundly(table), NEW w \in Workers,
         NEW i \in Splittable(table), \A j \in DOMAIN table : ~Holds(table[j], w)
  PROVE  HoldersMove(table, Split(table, i, w), w, {Len(table) + 1})
<1> DEFINE s == table[i]
           at == SplitPoint(s)
           n == Len(table) + 1
           u == Split(table, i, w)
           left == [s EXCEPT !.end = at]
           right == [NewSegment(at, at, s.end) EXCEPT !.owner = w]
<1>1. /\ table \in Seq(Segments) /\ i \in DOMAIN table /\ DOMAIN table = 1 .. Len(table)
      /\ Len(table) \in Nat
  BY DEF TablePartitioned, Splittable
<1>2. s \in Segments /\ w # NoWorker /\ HeldSoundly(s)
  BY <1>1, WorkersAssumption DEF TableHeldSoundly
<1>3. at \in Offsets /\ s.pos < at /\ at < s.end /\ at \in Nat
  BY <1>2, SplitPointInside, SizesAssumption DEF Splittable, Offsets
<1>4. /\ u \in Seq(Segments) /\ DOMAIN u = 1 .. n /\ u[n] = right
      /\ \A j \in DOMAIN table : u[j] = IF j = i THEN left ELSE table[j]
  BY <1>1, SplitType
<1> HIDE DEF at, u
<1>5. /\ left.owner = s.owner /\ left.racer = s.racer /\ left.pos = s.pos /\ left.end = at
      /\ right.owner = w /\ right.racer = NoWorker /\ right.pos = at /\ right.end = s.end
  BY <1>2 DEF Segments, NewSegment
<1>6. s.pos \in Nat /\ s.end \in Nat
  BY <1>2, SegmentNumbers
<1> HIDE DEF left, right, s
<1>7. HeldSoundly(left) /\ HeldSoundly(right)
  BY <1>2, <1>3, <1>5, <1>6 DEF HeldSoundly, Done
<1>8. DOMAIN u = DOMAIN table \cup {n}
  BY <1>1, <1>4
<1> HIDE DEF n
<1>9. TableHeldSoundly(u)
  BY <1>4, <1>7, <1>8 DEF TableHeldSoundly
<1>10. ASSUME NEW j \in DOMAIN u, NEW v \in Workers, Holds(u[j], v)
       PROVE  \/ j \in DOMAIN table /\ Holds(table[j], v) /\ v # w
              \/ v = w /\ j = n
  <2>1. CASE j = n
    BY <1>4, <1>5, <1>10, <2>1, WorkersAssumption DEF Holds
  <2>2. CASE j # n
    <3>1. j \in DOMAIN table /\ Holds(table[j], v)
      BY <1>4, <1>5, <1>8, <1>10, <2>2 DEF Holds, s
    <3>2. QED
      BY <3>1
  <2>3. QED
    BY <2>1, <2>2
<1>11. HoldersMove(table, u, w, {n})
  BY <1>9, <1>10 DEF HoldersMove
<1>12. QED
  BY <1>11 DEF u, n

\* set_request_end changes no holder.
LEMMA SetRequestEndHolders ==
  ASSUME NEW table \in Seq(Segments), TableHeldSoundly(table), NEW w \in Workers,
         NEW i \in DOMAIN table, \A j \in DOMAIN table : Holds(table[j], w) => j = i,
         NEW reqEnd \in Offsets
  PROVE  HoldersMove(table, SetRequestEnd(table, i, w, reqEnd), w, {i})
<1> DEFINE s == table[i]
           x == [s EXCEPT !.reqEnd = reqEnd]
<1>1. s \in Segments /\ HeldSoundly(s)
  BY DEF TableHeldSoundly
<1>2. SetRequestEnd(table, i, w, reqEnd) \in {table, [table EXCEPT ![i] = x]}
  BY DEF SetRequestEnd
<1>3. x.owner = s.owner /\ x.racer = s.racer /\ x.pos = s.pos /\ x.end = s.end
  BY <1>1 DEF Segments
<1> HIDE DEF x
<1>4. HeldSoundly(x) /\ \A v \in Workers : Holds(x, v) => Holds(s, v)
  BY <1>1, <1>3 DEF HeldSoundly, Done, Holds
<1>5. HoldersMove(table, [table EXCEPT ![i] = x], w, {i})
  BY <1>4, ReplaceHolders
<1>6. HoldersMove(table, table, w, {i})
  BY DEF HoldersMove
<1>7. QED
  BY <1>2, <1>5, <1>6

\* advance clears the holders of a segment it finishes and changes no others.
LEMMA AdvanceHolders ==
  ASSUME NEW table, TablePartitioned(table), TableHeldSoundly(table), NEW w \in Workers,
         NEW i \in DOMAIN table, \A j \in DOMAIN table : Holds(table[j], w) => j = i,
         NEW to \in Offsets, to <= table[i].end
  PROVE  HoldersMove(table, Advance(table, i, to), w, {i})
<1> DEFINE u == Advance(table, i, to)
<1>1. /\ DOMAIN u = DOMAIN table
      /\ Done(u[i]) => u[i].owner = NoWorker /\ u[i].racer = NoWorker
      /\ ~Done(u[i]) => u[i].owner = table[i].owner /\ u[i].racer = table[i].racer
      /\ \A j \in DOMAIN table : j # i => u[j] = table[j]
  BY AdvanceGrows
<1> HIDE DEF u
<1>2. TableHeldSoundly(u)
  BY <1>1 DEF TableHeldSoundly, HeldSoundly
<1>3. ASSUME NEW j \in DOMAIN u, NEW v \in Workers, Holds(u[j], v)
      PROVE  j \in DOMAIN table /\ Holds(table[j], v)
  BY <1>1, <1>3, WorkersAssumption DEF Holds
<1>4. HoldersMove(table, u, w, {i})
  BY <1>2, <1>3 DEF HoldersMove
<1>5. QED
  BY <1>4 DEF u

\* release: the worker gives up the segment, and a racer becomes its owner.
LEMMA ReleaseHolders ==
  ASSUME NEW table \in Seq(Segments), TableHeldSoundly(table), NEW w \in Workers,
         NEW i \in DOMAIN table, \A j \in DOMAIN table : Holds(table[j], w) => j = i
  PROVE  HoldersMove(table, Release(table, i, w), w, {})
<1> DEFINE s == table[i]
           promoted == [s EXCEPT !.owner = s.racer, !.racer = NoWorker, !.reqEnd = 0]
           dropped == [s EXCEPT !.racer = NoWorker]
           x == IF s.owner = w THEN promoted ELSE IF s.racer = w THEN dropped ELSE s
<1>1. s \in Segments /\ HeldSoundly(s) /\ w # NoWorker
  BY WorkersAssumption DEF TableHeldSoundly
<1>2. Release(table, i, w) = [table EXCEPT ![i] = x]
  BY DEF Release
<1>3. /\ promoted.owner = s.racer /\ promoted.racer = NoWorker
      /\ promoted.pos = s.pos /\ promoted.end = s.end
      /\ dropped.owner = s.owner /\ dropped.racer = NoWorker
      /\ dropped.pos = s.pos /\ dropped.end = s.end
  BY <1>1 DEF Segments
<1> HIDE DEF s, promoted, dropped
<1>4. HeldSoundly(x) /\ ~Holds(x, w) /\ \A v \in Workers : Holds(x, v) => Holds(s, v)
  BY <1>1, <1>3, WorkersAssumption DEF HeldSoundly, Done, Holds
<1> HIDE DEF x
<1>5. HoldersMove(table, [table EXCEPT ![i] = x], w, {})
  BY <1>4, ReplaceHolders DEF s
<1>6. QED
  BY <1>2, <1>5

-----------------------------------------------------------------------------
(***************************************************************************)
(* The steps.                                                              *)
(***************************************************************************)
\* A worker's step keeps the invariant when its next record fits what it then holds.
LEMMA HoldersStep ==
  ASSUME TypeInvariant, HoldersInvariant, TablePartitioned(segs'), TableGrows(segs, segs'),
         NEW w \in Workers, NEW r, wk' = [wk EXCEPT ![w] = r],
         NEW given, HoldersMove(segs, segs', w, given),
         \A i \in given : r.pc \in Assigned /\ r.seg = i,
         r.pc = "last" => Done(segs'[r.seg])
  PROVE  HoldersInvariant'
<1>1. /\ segs \in Seq(Segments) /\ segs' \in Seq(Segments) /\ wk \in [Workers -> WorkerRecords]
      /\ \A v \in Workers : wk[v].pc \in Assigned => wk[v].seg \in DOMAIN segs
  BY DEF TypeInvariant, TypeOK, AssignedInTable, TablePartitioned
<1>2. \A v \in Workers : wk'[v] = IF v = w THEN r ELSE wk[v]
  BY <1>1
<1>3. TableHeldSoundly(segs')
  BY DEF HoldersMove
<1>4. HoldersAtTheirSegment'
  BY <1>2 DEF HoldersMove, HoldersInvariant, HoldersAtTheirSegment
<1>5. LastPieceFinishes'
  <2>1. ASSUME NEW v \in Workers, v # w, wk[v].pc = "last"
        PROVE  Done(segs'[wk[v].seg])
    BY <1>1, <2>1, DoneKept DEF HoldersInvariant, LastPieceFinishes, Assigned
  <2>2. QED
    BY <1>2, <2>1 DEF LastPieceFinishes
<1>6. QED
  BY <1>3, <1>4, <1>5 DEF HoldersInvariant

\* A step that moves no frontier, end or holder of a segment and leaves the workers alone.
LEMMA HoldersKept ==
  ASSUME TypeInvariant, HoldersInvariant, DOMAIN segs' = DOMAIN segs, wk' = wk,
         \A i \in DOMAIN segs :
           /\ segs'[i].pos = segs[i].pos /\ segs'[i].end = segs[i].end
           /\ segs'[i].owner = segs[i].owner /\ segs'[i].racer = segs[i].racer
  PROVE  HoldersInvariant'
<1>1. \A v \in Workers : wk[v].pc \in Assigned => wk[v].seg \in DOMAIN segs
  BY DEF TypeInvariant, AssignedInTable
<1>2. TableHeldSoundly(segs') /\ HoldersAtTheirSegment'
  BY DEF HoldersInvariant, TableHeldSoundly, HeldSoundly, Done, HoldersAtTheirSegment, Holds
<1>3. LastPieceFinishes'
  BY <1>1 DEF HoldersInvariant, LastPieceFinishes, Done, Assigned
<1>4. QED
  BY <1>2, <1>3 DEF HoldersInvariant

\* Without a holder there is nothing to be at work on.
LEMMA UnheldSound ==
  ASSUME NEW table, \A i \in DOMAIN table : table[i].owner = NoWorker /\ table[i].racer = NoWorker
  PROVE  TableHeldSoundly(table) /\ \A i \in DOMAIN table, w \in Workers : ~Holds(table[i], w)
BY WorkersAssumption DEF TableHeldSoundly, HeldSoundly, Holds

\* What a worker may hold: nothing when it is not at work or its segment is finished, and
\* otherwise at most its segment.
LEMMA OwnSegment ==
  ASSUME TypeInvariant, HoldersInvariant, NEW w \in Workers
  PROVE  /\ \A j \in DOMAIN segs : Holds(segs[j], w) => j = wk[w].seg
         /\ wk[w].pc \notin Assigned \/ Done(segs[wk[w].seg]) =>
              \A j \in DOMAIN segs : ~Holds(segs[j], w)
<1>1. ASSUME NEW j \in DOMAIN segs, Holds(segs[j], w)
      PROVE  wk[w].pc \in Assigned /\ j = wk[w].seg
  BY <1>1 DEF HoldersInvariant, HoldersAtTheirSegment
<1>2. ASSUME NEW j \in DOMAIN segs, Holds(segs[j], w), Done(segs[j])
      PROVE  FALSE
  BY <1>2, WorkersAssumption DEF HoldersInvariant, TableHeldSoundly, HeldSoundly, Holds
<1>3. QED
  BY <1>1, <1>2

\* A worker that leaves holds nothing, or releases what it holds.
LEMMA LeavingHolders ==
  ASSUME TypeInvariant, PartitionInvariant, HoldersInvariant, NEW w \in Workers,
         NEW r, wk' = [wk EXCEPT ![w] = r], r.pc \notin Assigned,
         \/ /\ segs' = segs
            /\ \/ wk[w].pc \notin Assigned
               \/ Done(segs[wk[w].seg]) \/ ~Holds(segs[wk[w].seg], w)
         \/ segs' = Release(segs, wk[w].seg, w) /\ wk[w].pc \in Assigned
  PROVE  HoldersInvariant'
<1>1. segs \in Seq(Segments) /\ TablePartitioned(segs) /\ TableHeldSoundly(segs)
  BY DEF TypeInvariant, TypeOK, PartitionInvariant, HoldersInvariant
<1> DEFINE none == {}
<1>2. HoldersMove(segs, segs', w, none)
  <2>1. CASE /\ segs' = segs
             /\ \/ wk[w].pc \notin Assigned
                \/ Done(segs[wk[w].seg]) \/ ~Holds(segs[wk[w].seg], w)
    BY <1>1, <2>1, OwnSegment DEF HoldersMove
  <2>2. CASE segs' = Release(segs, wk[w].seg, w) /\ wk[w].pc \in Assigned
    BY <1>1, <2>2, OwnSegment, ReleaseHolders DEF TypeInvariant, AssignedInTable
  <2>3. QED
    BY <2>1, <2>2
<1>3. TablePartitioned(segs') /\ TableGrows(segs, segs')
  BY <1>1, GrowsReflexive, ReleaseGrows
<1>4. r.pc # "last" /\ \A i \in none : r.pc \in Assigned /\ r.seg = i
  BY DEF Assigned
<1> HIDE DEF none
<1>5. QED
  BY <1>2, <1>3, <1>4, HoldersStep

\* A worker that stays on its segment.
LEMMA StayingHolders ==
  ASSUME TypeInvariant, PartitionInvariant, HoldersInvariant, NEW w \in Workers,
         wk[w].pc \in Assigned, segs' = segs,
         NEW r, wk' = [wk EXCEPT ![w] = r],
         r.pc \in Assigned \ {"last"}, r.seg = wk[w].seg
  PROVE  HoldersInvariant'
<1>1. segs \in Seq(Segments) /\ TablePartitioned(segs) /\ TableHeldSoundly(segs)
  BY DEF TypeInvariant, TypeOK, PartitionInvariant, HoldersInvariant
<1>2. HoldersMove(segs, segs', w, {wk[w].seg})
  BY <1>1, OwnSegment DEF HoldersMove
<1>3. TablePartitioned(segs') /\ TableGrows(segs, segs')
  BY <1>1, GrowsReflexive
<1>4. QED
  BY <1>2, <1>3, HoldersStep

\* A worker that has reached the end of its segment is on a finished one.
LEMMA EndReached ==
  ASSUME TypeInvariant, PartitionInvariant, NEW w \in Workers, wk[w].pc \in Assigned,
         wk[w].cursor >= segs[wk[w].seg].end
  PROVE  Done(segs[wk[w].seg])
<1>1. segs[wk[w].seg] \in Segments /\ wk[w].cursor \in Offsets
  BY ReassignedType
<1>2. wk[w].cursor <= segs[wk[w].seg].pos
  BY DEF PartitionInvariant, WorkersBehind
<1>3. /\ segs[wk[w].seg].pos \in Nat /\ segs[wk[w].seg].end \in Nat
      /\ wk[w].cursor \in Nat
  BY <1>1, SegmentNumbers, ZeroOffset
<1>4. QED
  BY <1>2, <1>3 DEF Done

\* Acquiring: the worker held nothing, and is on what it takes.
LEMMA AcquireHolders ==
  ASSUME TypeInvariant, PartitionInvariant, HoldersInvariant, NEW w \in Workers, Acquire(w),
         TablePartitioned(segs'), TableGrows(segs, segs')
  PROVE  HoldersInvariant'
<1>1. segs \in Seq(Segments) /\ TablePartitioned(segs) /\ TableHeldSoundly(segs)
  BY DEF TypeInvariant, TypeOK, PartitionInvariant, HoldersInvariant
<1>2. \A j \in DOMAIN segs : ~Holds(segs[j], w)
  BY OwnSegment DEF Acquire, Assigned
<1>3. ASSUME NEW table, NEW i, NEW race, Take(w, table, i, race), HoldersMove(segs, table, w, {i})
      PROVE  HoldersInvariant'
  <2> DEFINE r == AssignedTo(i, table[i].pos, race)
  <2>1. segs' = table /\ wk' = [wk EXCEPT ![w] = r]
    BY <1>3 DEF Take
  <2>2. r.pc = "open" /\ r.seg = i
    BY DEF AssignedTo
  <2> HIDE DEF r
  <2>3. \A j \in {i} : r.pc \in Assigned /\ r.seg = j
    BY <2>2 DEF Assigned
  <2>4. QED
    BY <1>3, <2>1, <2>2, <2>3, HoldersStep
<1>4. ASSUME NEW i \in LargestOf(segs, Unowned(segs)), Take(w, TakeOwner(segs, i, w), i, FALSE)
      PROVE  HoldersInvariant'
  <2>1. i \in Unowned(segs) /\ i \in DOMAIN segs
    BY DEF LargestOf, Unowned
  <2>2. HoldersMove(segs, TakeOwner(segs, i, w), w, {i})
    BY <1>1, <1>2, <2>1, TakeHolders
  <2>3. QED
    BY <1>3, <1>4, <2>2
<1>5. ASSUME NEW i \in LargestOf(segs, Splittable(segs)),
             Take(w, Split(segs, i, w), Len(segs) + 1, FALSE)
      PROVE  HoldersInvariant'
  <2>1. i \in Splittable(segs)
    BY DEF LargestOf
  <2>2. HoldersMove(segs, Split(segs, i, w), w, {Len(segs) + 1})
    BY <1>1, <1>2, <2>1, SplitHolders
  <2>3. QED
    BY <1>3, <1>5, <2>2
<1>6. ASSUME NEW i \in Raceable(segs), Take(w, TakeRacer(segs, i, w), i, TRUE)
      PROVE  HoldersInvariant'
  <2>1. i \in DOMAIN segs
    BY DEF Raceable
  <2>2. HoldersMove(segs, TakeRacer(segs, i, w), w, {i})
    BY <1>1, <1>2, <2>1, TakeHolders
  <2>3. QED
    BY <1>3, <1>6, <2>2
<1>7. QED
  BY <1>4, <1>5, <1>6 DEF Acquire

\* Opening a request: the worker stays, or its segment is finished.
LEMMA OpenHolders ==
  ASSUME TypeInvariant, PartitionInvariant, HoldersInvariant, NEW w \in Workers, Open(w),
         TablePartitioned(segs'), TableGrows(segs, segs')
  PROVE  HoldersInvariant'
<1> DEFINE a == wk[w]
           end == segs[a.seg].end
<1>1. segs \in Seq(Segments) /\ TableHeldSoundly(segs) /\ wk \in [Workers -> WorkerRecords]
      /\ a \in WorkerRecords
  BY DEF TypeInvariant, TypeOK, HoldersInvariant
<1>2. a.pc = "open" /\ a.pc \in Assigned /\ a.seg \in DOMAIN segs
  BY DEF Open, Assigned, TypeInvariant, AssignedInTable
<1>3. CASE a.cursor >= end
  <2>1. wk' = [wk EXCEPT ![w] = Idle] /\ segs' = segs
    BY <1>3 DEF Open
  <2>2. Done(segs[a.seg])
    BY <1>2, <1>3, EndReached
  <2>3. QED
    BY <2>1, <2>2, LeavingHolders, Unassigned
<1>4. CASE ~(a.cursor >= end)
  <2>1. PICK n, promised :
          /\ n \in RequestSizes
          /\ \/ segs' = segs
             \/ segs' = SetRequestEnd(segs, a.seg, w, RequestEnd(a.cursor, end, n))
          /\ wk' = [wk EXCEPT ![w].pc = "pump", ![w].reqEnd = promised]
    BY <1>4 DEF Open
  <2> DEFINE r == [a EXCEPT !.pc = "pump", !.reqEnd = promised]
             reqEnd == RequestEnd(a.cursor, end, n)
  <2>2. wk' = [wk EXCEPT ![w] = r] /\ r.pc = "pump" /\ r.seg = a.seg
    BY <1>1, <2>1 DEF WorkerRecords
  <2>3. segs[a.seg] \in Segments /\ a.cursor \in Offsets /\ n \in Nat
    BY <1>2, <2>1, ReassignedType, TransferAssumption
  <2>4. reqEnd \in Offsets
    BY <1>4, <2>3, SegmentNumbers, SizesAssumption DEF RequestEnd, Smaller, Offsets
  <2>5. segs' = segs \/ segs' = SetRequestEnd(segs, a.seg, w, reqEnd)
    BY <2>1
  <2> HIDE DEF r, reqEnd, end
  <2>6. \A j \in DOMAIN segs : Holds(segs[j], w) => j = a.seg
    BY OwnSegment
  <2>7. HoldersMove(segs, segs', w, {a.seg})
    <3>1. CASE segs' = segs
      BY <1>1, <2>6, <3>1 DEF HoldersMove
    <3>2. CASE segs' = SetRequestEnd(segs, a.seg, w, reqEnd)
      BY <1>1, <1>2, <2>4, <2>6, <3>2, SetRequestEndHolders
    <3>3. QED
      BY <2>5, <3>1, <3>2
  <2>8. \A j \in {a.seg} : r.pc \in Assigned /\ r.seg = j
    BY <2>2 DEF Assigned
  <2>9. QED
    BY <2>2, <2>7, <2>8, HoldersStep
<1>5. QED
  BY <1>3, <1>4

\* Receiving: a worker that gets nothing accepted no longer holds its segment, and the one that
\* completes it leaves no holder.
LEMMA ReceiveHolders ==
  ASSUME TypeInvariant, PartitionInvariant, HoldersInvariant, NEW w \in Workers, Receive(w),
         TablePartitioned(segs'), TableGrows(segs, segs')
  PROVE  HoldersInvariant'
<1> DEFINE a == wk[w]
<1>1. /\ segs \in Seq(Segments) /\ TableHeldSoundly(segs) /\ TablePartitioned(segs)
      /\ wk \in [Workers -> WorkerRecords] /\ a \in WorkerRecords
  BY DEF TypeInvariant, TypeOK, HoldersInvariant, PartitionInvariant
<1>2. a.pc \in Assigned /\ a.seg \in DOMAIN segs /\ a.cursor \in Offsets
  <2>1. a.pc \in Assigned
    BY DEF Receive, Assigned
  <2>2. QED
    BY <2>1, ReassignedType
<1>3. PICK n \in 1 .. MaxChunk :
        LET accepted == Accepted(segs, a.seg, w, a.cursor, n)
            to == a.cursor + accepted
        IN  IF accepted = 0
            THEN wk' = [wk EXCEPT ![w] = Idle] /\ segs' = segs
            ELSE /\ segs' = Advance(segs, a.seg, to)
                 /\ wk' = [wk EXCEPT ![w].to = to,
                                     ![w].pc = IF to >= segs[a.seg].end \/ Done(segs'[a.seg])
                                               THEN "last" ELSE "hand"]
  BY DEF Receive
<1> DEFINE accepted == Accepted(segs, a.seg, w, a.cursor, n)
           to == a.cursor + accepted
<1>4. n \in Nat \ {0}
  BY TransferAssumption
<1>5. CASE accepted = 0
  <2>1. wk' = [wk EXCEPT ![w] = Idle] /\ segs' = segs
    BY <1>3, <1>5
  <2>2. ~Holds(segs[a.seg], w) \/ Done(segs[a.seg]) \/ a.cursor >= segs[a.seg].end
    BY <1>1, <1>2, <1>4, <1>5, AcceptedInside
  <2>3. ~Holds(segs[a.seg], w) \/ Done(segs[a.seg])
    BY <1>2, <2>2, EndReached
  <2>4. QED
    BY <2>1, <2>3, LeavingHolders, Unassigned
<1>6. CASE accepted # 0
  <2> DEFINE pc == IF to >= segs[a.seg].end \/ Done(segs'[a.seg]) THEN "last" ELSE "hand"
             r == [a EXCEPT !.to = to, !.pc = pc]
  <2>1. segs' = Advance(segs, a.seg, to) /\ wk' = [wk EXCEPT ![w] = r]
    BY <1>1, <1>3, <1>6
  <2>2. to <= segs[a.seg].end
    BY <1>1, <1>2, <1>4, <1>6, AcceptedInside
  <2>3. to \in Offsets
    BY <1>1, <1>2, <1>4, AcceptedBounds
  <2>4. r.seg = a.seg /\ r.pc = pc
    BY <1>1 DEF WorkerRecords
  <2> HIDE DEF r, to
  <2>5. HoldersMove(segs, segs', w, {a.seg})
    BY <1>1, <1>2, <2>1, <2>2, <2>3, OwnSegment, AdvanceHolders
  <2>6. \A j \in {a.seg} : r.pc \in Assigned /\ r.seg = j
    BY <2>4 DEF Assigned
  <2>7. r.pc = "last" => Done(segs'[r.seg])
    <3>1. segs'[a.seg].pos = Larger(segs[a.seg].pos, to) /\ segs'[a.seg].end = segs[a.seg].end
      BY <1>1, <1>2, <2>1, <2>2, <2>3, AdvanceGrows
    <3>2. segs[a.seg] \in Segments
      BY <1>1, <1>2
    <3>3. segs[a.seg].pos \in Nat /\ segs[a.seg].end \in Nat /\ to \in Nat
      BY <2>3, <3>2, SegmentNumbers, ZeroOffset
    <3>4. to >= segs[a.seg].end => Done(segs'[a.seg])
      BY <3>1, <3>3 DEF Larger, Done
    <3>5. QED
      BY <2>4, <3>4
  <2>8. QED
    BY <2>1, <2>5, <2>6, <2>7, HoldersStep
<1>7. QED
  BY <1>5, <1>6

\* Every step of a worker keeps the invariant.
LEMMA WorkerHolders ==
  ASSUME TypeInvariant, PartitionInvariant, HoldersInvariant, NEW w \in Workers, WorkerStep(w)
  PROVE  HoldersInvariant'
<1> DEFINE a == wk[w]
           again == AssignedTo(a.seg, a.cursor, a.race)
<1>1. TablePartitioned(segs') /\ TableGrows(segs, segs')
  BY WorkerTablePartitioned DEF PartitionInvariant
<1>2. wk \in [Workers -> WorkerRecords] /\ a \in WorkerRecords
  BY DEF TypeInvariant, TypeOK
<1>3. /\ Off.pc \notin Assigned /\ Idle.pc \notin Assigned
      /\ \A exit \in {"off", "gaveup", "fatal"} : [Off EXCEPT !.pc = exit].pc \notin Assigned
  BY Unassigned
<1>4. again.pc \in Assigned \ {"last"} /\ again.seg = a.seg
  BY DEF AssignedTo, Assigned
<1> HIDE DEF again
<1>5. CASE Acquire(w) \/ Open(w) \/ Receive(w)
  BY <1>1, <1>5, AcquireHolders, OpenHolders, ReceiveHolders
<1>6. CASE Spawn(w) \/ LeaveIdle(w)
  BY <1>3, <1>6, LeavingHolders DEF Spawn, LeaveIdle, Fresh, Assigned
<1>7. CASE StopExit(w)
  BY <1>3, <1>7, LeavingHolders DEF StopExit, Assigned
<1>8. CASE Submit(w)
  <2>1. a.pc \in {"hand", "last"} /\ a.pc \in Assigned
    BY <1>8 DEF Submit, Assigned
  <2>2. CASE failed
    BY <1>3, <1>8, <2>1, <2>2, LeavingHolders DEF Submit
  <2>3. CASE ~failed /\ a.pc = "last"
    <3>1. Done(segs[a.seg])
      BY <2>3 DEF HoldersInvariant, LastPieceFinishes
    <3>2. wk' = [wk EXCEPT ![w] = Idle] /\ segs' = segs
      BY <1>8, <2>3 DEF Submit
    <3>3. QED
      BY <1>3, <3>1, <3>2, LeavingHolders
  <2>4. CASE ~failed /\ a.pc # "last"
    <3> DEFINE r == [a EXCEPT !.pc = "pump", !.cursor = a.to]
    <3>1. wk' = [wk EXCEPT ![w] = r] /\ segs' = segs
      BY <1>8, <2>4 DEF Submit
    <3>2. r.pc \in Assigned \ {"last"} /\ r.seg = a.seg
      BY <1>2 DEF WorkerRecords, Assigned
    <3> HIDE DEF r
    <3>3. QED
      BY <2>1, <3>1, <3>2, StayingHolders
  <2>5. QED
    BY <2>2, <2>3, <2>4
<1>9. CASE EndOfRange(w)
  <2>1. a.pc \in Assigned
    BY <1>9 DEF EndOfRange, Assigned
  <2>2. CASE a.cursor >= segs[a.seg].end /\ wk' = [wk EXCEPT ![w] = Idle] /\ segs' = segs
    BY <1>3, <2>1, <2>2, EndReached, LeavingHolders
  <2>3. CASE wk' = [wk EXCEPT ![w] = again] /\ segs' = segs
    BY <1>4, <2>1, <2>3, StayingHolders
  <2>4. CASE wk' = [wk EXCEPT ![w] = Off] /\ segs' = Release(segs, a.seg, w)
    BY <1>3, <2>1, <2>4, LeavingHolders
  <2>5. QED
    BY <1>9, <2>2, <2>3, <2>4 DEF EndOfRange, again
<1>10. CASE Reopen(w)
  <2>1. a.pc \in Assigned /\ wk' = [wk EXCEPT ![w] = again] /\ segs' = segs
    BY <1>10 DEF Reopen, Assigned, again
  <2>2. QED
    BY <1>4, <2>1, StayingHolders
<1>11. CASE Fail(w)
  <2>1. a.pc \in Assigned
    BY <1>11 DEF Fail, Assigned
  <2>2. CASE wk' = [wk EXCEPT ![w] = again] /\ segs' = segs
    BY <1>4, <2>1, <2>2, StayingHolders
  <2>3. ASSUME NEW exit \in {"off", "gaveup", "fatal"},
               wk' = [wk EXCEPT ![w] = [Off EXCEPT !.pc = exit]], segs' = Release(segs, a.seg, w)
        PROVE  HoldersInvariant'
    BY <1>3, <2>1, <2>3, LeavingHolders
  <2>4. QED
    BY <1>11, <2>2, <2>3 DEF Fail, again
<1>12. QED
  BY <1>5, <1>6, <1>7, <1>8, <1>9, <1>10, <1>11 DEF WorkerStep

\* The writer's steps move no holder.
LEMMA WriterHolders ==
  ASSUME TypeInvariant, HoldersInvariant, WriterStep
  PROVE  HoldersInvariant'
<1>1. segs \in Seq(Segments)
  BY DEF TypeInvariant, TypeOK
<1>2. wk' = wk
  BY DEF WriterStep, TakeChunk, TakeControl, IdleFlush, FlushBuffer, FinishPressure,
         FinishCheckpoint, FinishEnd, FinishClose
<1>3. segs' = segs \/ \E i, from, to : segs' = OnFlushed(segs, i, from, to)
  BY DEF WriterStep, TakeChunk, TakeControl, IdleFlush, FlushBuffer, FinishPressure,
         FinishCheckpoint, FinishEnd, FinishClose, Write
<1>4. CASE segs' = segs
  BY <1>2, <1>4, HoldersKept
<1>5. ASSUME NEW i, NEW from, NEW to, segs' = OnFlushed(segs, i, from, to)
      PROVE  HoldersInvariant'
  BY <1>1, <1>2, <1>5, OnFlushedKeeps, HoldersKept
<1>6. QED
  BY <1>3, <1>4, <1>5

\* A run starts with at most its first worker at work, and ends with none.
LEMMA RunHolders ==
  ASSUME TypeInvariant, NobodyBetweenRuns, PartitionInvariant,
         StartFresh \/ Resume \/ SaveOutcome \/ Crash
  PROVE  HoldersInvariant'
<1>1. FreshTable[1].owner = NoWorker /\ FreshTable[1].racer = NoWorker /\ DOMAIN FreshTable = {1}
  BY DEF FreshTable, NewSegment
<1>2. CASE SaveOutcome \/ Crash
  <2>1. segs' = FreshTable /\ wk' = [w \in Workers |-> Off]
    BY <1>2 DEF SaveOutcome, Crash, EndRun
  <2>2. QED
    BY <1>1, <2>1, UnheldSound, Unassigned
    DEF HoldersInvariant, HoldersAtTheirSegment, LastPieceFinishes, Assigned
<1>3. ASSUME NEW table, TablePartitioned(table), phase = "off",
             \A i \in DOMAIN table : table[i].owner = NoWorker /\ table[i].racer = NoWorker,
             NEW resumed \in BOOLEAN, FirstWorker(table, resumed)
      PROVE  HoldersInvariant'
  <2>1. /\ table \in Seq(Segments) /\ TableHeldSoundly(table)
        /\ \A i \in DOMAIN table, w \in Workers : ~Holds(table[i], w)
    BY <1>3, UnheldSound DEF TablePartitioned
  <2>2. wk \in [Workers -> WorkerRecords] /\ \A v \in Workers : wk[v].pc = "off"
    BY <1>3 DEF TypeInvariant, TypeOK, NobodyBetweenRuns
  <2>3. CASE segs' = table /\ wk' = wk
    BY <2>1, <2>2, <2>3 DEF HoldersInvariant, HoldersAtTheirSegment, LastPieceFinishes
  <2>4. ASSUME NEW w \in Workers, NEW i \in FirstPending(table), NEW n \in RequestSizes,
               LET pos == table[i].pos
                   reqEnd == RequestEnd(pos, table[i].end, n)
                   taken == TakeOwner(table, i, w)
               IN  /\ segs' = IF resumed THEN SetRequestEnd(taken, i, w, reqEnd) ELSE taken
                   /\ wk' = [wk EXCEPT ![w] =
                              [AssignedTo(i, pos, FALSE) EXCEPT !.pc = "pump", !.reqEnd = reqEnd]]
        PROVE  HoldersInvariant'
    <3> DEFINE pos == table[i].pos
               reqEnd == RequestEnd(pos, table[i].end, n)
               taken == TakeOwner(table, i, w)
               a == AssignedTo(i, pos, FALSE)
               r == [a EXCEPT !.pc = "pump", !.reqEnd = reqEnd]
    <3>1. i \in DOMAIN table /\ table[i] \in Segments /\ n \in Nat /\ i \in Unowned(table)
      BY <1>3, <2>1, TransferAssumption DEF FirstPending, Unowned
    <3>2. reqEnd \in Offsets
      BY <3>1, SegmentNumbers, SizesAssumption DEF RequestEnd, Smaller, Offsets
    <3>3. /\ segs' = IF resumed THEN SetRequestEnd(taken, i, w, reqEnd) ELSE taken
          /\ wk' = [wk EXCEPT ![w] = r]
      BY <2>4
    <3>4. r.pc = "pump" /\ r.seg = i
      BY DEF AssignedTo
    <3>5. taken \in Seq(Segments) /\ DOMAIN taken = DOMAIN table
      BY <2>1, <3>1, TakeOwnerType
    <3>6. HoldersMove(table, taken, w, {i})
      BY <2>1, <3>1, TakeHolders
    <3> HIDE DEF reqEnd, taken, r
    <3>7. \A j \in DOMAIN taken, v \in Workers : Holds(taken[j], v) => v = w /\ j = i
      BY <2>1, <3>6 DEF HoldersMove
    <3>8. TableHeldSoundly(taken)
      BY <3>6 DEF HoldersMove
    <3>9. HoldersMove(taken, SetRequestEnd(taken, i, w, reqEnd), w, {i})
      BY <3>1, <3>2, <3>5, <3>7, <3>8, SetRequestEndHolders
    <3>10. /\ TableHeldSoundly(segs')
           /\ \A j \in DOMAIN segs', v \in Workers : Holds(segs'[j], v) => v = w /\ j = i
      <4>1. CASE resumed
        BY <3>3, <3>7, <3>9, <4>1 DEF HoldersMove
      <4>2. CASE ~resumed
        BY <3>3, <3>7, <3>8, <4>2
      <4>3. QED
        BY <4>1, <4>2
    <3>11. \A v \in Workers : wk'[v] = IF v = w THEN r ELSE wk[v]
      BY <2>2, <3>3
    <3>12. HoldersAtTheirSegment' /\ LastPieceFinishes'
      BY <2>2, <3>4, <3>10, <3>11 DEF HoldersAtTheirSegment, LastPieceFinishes, Assigned
    <3>13. QED
      BY <3>10, <3>12 DEF HoldersInvariant
  <2>5. QED
    BY <1>3, <2>3, <2>4 DEF FirstWorker
<1>4. CASE StartFresh
  BY <1>1, <1>3, <1>4, FreshTablePartitioned DEF StartFresh, BeginRun
<1>5. CASE Resume
  <2>1. ValidStates(saved) /\ saved \in Seq(SegmentStates)
    BY <1>5 DEF Resume, PartitionInvariant, StatesValid, TypeInvariant, TypeOK
  <2>2. \A i \in DOMAIN FromStates(saved) :
          FromStates(saved)[i].owner = NoWorker /\ FromStates(saved)[i].racer = NoWorker
    BY DEF FromStates, NewSegment
  <2>3. QED
    BY <1>3, <1>5, <2>1, <2>2, FromStatesPartitioned DEF Resume, BeginRun
<1>6. QED
  BY <1>2, <1>4, <1>5

\* Every step keeps the invariant.
LEMMA HoldersInvariantStep ==
  ASSUME TypeInvariant, NobodyBetweenRuns, PartitionInvariant, HoldersInvariant, [Next]_vars
  PROVE  HoldersInvariant'
<1>1. ASSUME NEW w \in Workers, WorkerStep(w)
      PROVE  HoldersInvariant'
  BY <1>1, WorkerHolders
<1>2. CASE WriterStep
  BY <1>2, WriterHolders
<1>3. ASSUME NEW w \in Workers, Join(w)
      PROVE  HoldersInvariant'
  <2>1. wk[w].pc \notin Assigned /\ wk' = [wk EXCEPT ![w] = Off] /\ segs' = segs
    BY <1>3 DEF Join, Assigned
  <2>2. QED
    BY <2>1, LeavingHolders, Unassigned
<1>4. CASE StartFresh \/ Resume \/ SaveOutcome \/ Crash
  BY <1>4, RunHolders
<1>5. CASE segs' = segs /\ wk' = wk
  BY <1>5, HoldersKept
<1>6. QED
  BY <1>1, <1>2, <1>3, <1>4, <1>5
  DEF Next, SupervisorStep, ManagerStep, SeeAllDone, SeeWriteError, EndTransfer, EndClose, Pause,
      AskCheckpoint, AskEnded, SaveCheckpoint, Finished, vars

\* Nobody is at work in the initial state.
LEMMA InitHolders == Init => HoldersInvariant
<1> SUFFICES ASSUME Init PROVE HoldersInvariant
  OBVIOUS
<1>1. FreshTable[1].owner = NoWorker /\ FreshTable[1].racer = NoWorker /\ DOMAIN FreshTable = {1}
  BY DEF FreshTable, NewSegment
<1>2. QED
  BY <1>1, UnheldSound, Unassigned
  DEF Init, HoldersInvariant, HoldersAtTheirSegment, LastPieceFinishes, Assigned

\* The invariant holds in every reachable state, with the partition it rests on.
LEMMA HoldersInvariantHolds == Spec => [](TypeInvariant /\ PartitionInvariant /\ HoldersInvariant)
<1>1. Init => HoldersInvariant
  BY InitHolders
<1>2. TypeInvariant /\ NobodyBetweenRuns /\ PartitionInvariant /\ HoldersInvariant /\ [Next]_vars
        => HoldersInvariant'
  BY HoldersInvariantStep
<1>3. QED
  BY <1>1, <1>2, PartitionInvariantHolds, PTL DEF Spec

\* worker.rs, table.rs: no segment is left to a worker that is gone or on another segment, a
\* racer never is alone or its own rival, for any number of workers, splits, races and
\* failures.
THEOREM HoldersAtWork == Spec => []HoldersAreAtWork
<1>1. HoldersInvariant => HoldersAreAtWork
  BY DEF HoldersInvariant, TableHeldSoundly, HeldSoundly, HoldersAtTheirSegment, HoldersAreAtWork
<1>2. QED
  BY <1>1, HoldersInvariantHolds, PTL
=============================================================================
