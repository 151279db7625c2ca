---------------------------- MODULE ChapterMarks ----------------------------
(***************************************************************************)
(* SponsorBlock's segments as chapters of a video (prism-video,            *)
(* sponsorblock.rs), as operators.  Times are whole: what the code takes   *)
(* for equal, less than a millisecond apart, is equal here.                *)
(***************************************************************************)
EXTENDS Integers, Sequences, SequencesExt, FiniteSets, FiniteSetsExt

\* parse_segments: those of this video (an answer to a hash prefix has others'), of some length,
\* in the order they start.
Segments(answer, video) ==
  LET mine == SelectSeq(answer, LAMBDA s : s.video = video /\ s.end > s.start /\ s.start >= 0)
  IN SortSeq(mine, LAMBDA a, b : a.start < b.start)

Ends(spans) == {spans[i].end : i \in DOMAIN spans}
Clamped(t, end) == IF t < 0 THEN 0 ELSE IF t > end THEN end ELSE t

\* The video's end: its duration, else its last chapter's; a segment may go past it.
EndOf(chapters, segments, duration) ==
  Max(Ends(segments) \cup (IF duration # {} THEN duration ELSE Ends(chapters)) \cup {0})

\* Mutant: a segment's end is no boundary.
Boundaries_NoEnds(spans, end) == {Clamped(spans[i].start, end) : i \in DOMAIN spans}
Boundaries(spans, end) == UNION {{Clamped(spans[i].start, end), Clamped(spans[i].end, end)} : i \in DOMAIN spans}

\* The labels of an interval: the categories of the segments around its middle, else the first
\* chapter around it, else a gap.
Covers(s, a, b) == 2 * s.start <= a + b /\ a + b < 2 * s.end
Categories(segments, a, b) ==
  FoldLeft(LAMBDA cats, s : IF cats # <<>> /\ Last(cats) = s.category THEN cats ELSE Append(cats, s.category),
           <<>>, SelectSeq(segments, LAMBDA s : Covers(s, a, b)))
LabelOf(chapters, segments, a, b) ==
  LET cats == Categories(segments, a, b)
      under == {i \in DOMAIN chapters : Covers(chapters[i], a, b)}
  IN IF cats # <<>> THEN <<"marked", cats>>
     ELSE IF under # {} THEN <<"chapter", <<Min(under)>>>> ELSE <<"gap", <<>>>>

\* Neighbours with one label are one chapter.
Joined(out, c) ==
  IF out # <<>> /\ Last(out).label = c.label /\ Last(out).end = c.start
  THEN [out EXCEPT ![Len(out)].end = c.end] ELSE Append(out, c)

\* merge_into_chapters
Marked(chapters, segments, duration) ==
  LET end == EndOf(chapters, segments, duration)
      bounds == {0, end} \cup Boundaries(chapters, end) \cup Boundaries(segments, end)
      points == SelectSeq([i \in 1 .. end + 1 |-> i - 1], LAMBDA t : t \in bounds)   \* in order
      pieces == [i \in 1 .. Len(points) - 1 |->
                   [start |-> points[i], end |-> points[i + 1],
                    label |-> LabelOf(chapters, segments, points[i], points[i + 1])]]
  IN FoldLeft(Joined, <<>>, pieces)

------------------------------------------------------------------------------
\* Every moment of the video is in one chapter, which says what that moment is; no two
\* neighbours are one chapter cut in two.  Each moment is looked up by itself, from the
\* segments and chapters around it.
EveryMomentMarked(chapters, segments, duration) ==
  LET out == Marked(chapters, segments, duration)
  IN segments # <<>> =>
     /\ out # <<>> /\ out[1].start = 0 /\ Last(out).end = EndOf(chapters, segments, duration)
     /\ \A i \in 1 .. Len(out) - 1 : out[i].end = out[i + 1].start /\ out[i].label # out[i + 1].label
     /\ \A t \in 0 .. Last(out).end - 1 : \A i \in DOMAIN out :
          out[i].start <= t /\ t < out[i].end =>
          LET marks == {segments[j].category : j \in {k \in DOMAIN segments : segments[k].start <= t /\ t < segments[k].end}}
              under == {j \in DOMAIN chapters : chapters[j].start <= t /\ t < chapters[j].end}
          IN IF marks # {} THEN out[i].label[1] = "marked" /\ ToSet(out[i].label[2]) = marks
             ELSE IF under # {} THEN out[i].label = <<"chapter", <<Min(under)>>>>
             ELSE out[i].label[1] = "gap"
=============================================================================
