----------------------------- MODULE MediaPlan -----------------------------
(***************************************************************************)
(* How a stream's manifest becomes a plan (prism-engine, media/hls.rs and  *)
(* media/dash.rs), as operators: which variant and which audio are taken,  *)
(* and which requests fetch their segments, with which byte range and key. *)
(* Addresses and keys are values; a manifest is what the parser libraries  *)
(* hand over.  An absent attribute is Absent, whatever its type.           *)
(***************************************************************************)
EXTENDS Naturals, Integers, Sequences, SequencesExt, FiniteSetsExt

CONSTANTS
  Absent,
  MaxSegments     \* 200 000 in the code

\* An IV attribute that parse_iv does not understand.
BadVector == -1

Failed == [ok |-> FALSE, segments |-> <<>>]
Segment(url, range, key) == [url |-> url, range |-> range, key |-> key]

------------------------------------------------------------------------------
(* Choosing a variant.  max_by_key takes the last of the greatest,          *)
(* min_by_key the first of the least.                                       *)

LastGreatest(I, Key(_)) ==
  CHOOSE i \in I : \A k \in I : Key(k) < Key(i) \/ (Key(k) = Key(i) /\ k <= i)
FirstLeast(I, Key(_)) ==
  CHOOSE i \in I : \A k \in I : Key(k) > Key(i) \/ (Key(k) = Key(i) /\ k >= i)

\* The index that `sel` chooses of variants with a bandwidth and a height, or 0.
ChooseVariant(variants, sel) ==
  LET I == DOMAIN variants
      Bandwidth(i) == variants[i].bandwidth
      fitting == {i \in I : variants[i].height # Absent /\ variants[i].height <= sel.height}
  IN  CASE I = {} -> 0
        [] I # {} /\ sel.by = "best" -> LastGreatest(I, Bandwidth)
        [] I # {} /\ sel.by = "height" ->
             IF fitting # {} THEN LastGreatest(fitting, Bandwidth) ELSE FirstLeast(I, Bandwidth)
        [] I # {} /\ sel.by = "index" -> IF sel.index \in I THEN sel.index ELSE 0

\* What a master playlist offers for download: not its I-frame variants.
Playable(variants) == SelectSeq(variants, LAMBDA v : ~v.iframe)

\* Mutant: the list shows the I-frame variants.
ListVariants_All(variants) == variants

\* list_variants, and the variant that plan takes.
ListVariants(variants) == Playable(variants)
TakenVariant(variants, sel) ==
  LET v == Playable(variants) i == ChooseVariant(v, sel)
  IN  IF i = 0 THEN Absent ELSE v[i]

------------------------------------------------------------------------------
(* HLS: build_track.                                                        *)

\* The key from a segment on: an EXT-X-KEY with METHOD=NONE that the parser left among the
\* unknown tags ends encryption, a parsed key replaces it.
KeyAfter(key, s) ==
  IF s.key # Absent THEN IF s.key.method = "none" THEN Absent ELSE s.key
  ELSE IF s.plain THEN Absent ELSE key

BadKey(s) ==
  s.key # Absent /\ \/ s.key.method \notin {"none", "aes"}
                    \/ s.key.method = "aes" /\ (s.key.uri = Absent \/ s.key.iv = BadVector)

\* The initialization vector given, or the segment's media sequence number.
KeyRef(key, number) ==
  IF key = Absent THEN Absent
  ELSE [uri |-> key.uri, iv |-> IF key.iv = Absent THEN number ELSE key.iv]

\* Mutant: a range without an offset starts at zero.
RangeOf_FromZero(s, lastEnd) ==
  IF s.length = Absent THEN Absent
  ELSE LET start == IF s.offset # Absent THEN s.offset ELSE 0
       IN  <<start, start + s.length>>

\* A byte range without an offset goes on where the last range of the same address ended.
RangeOf(s, lastEnd) ==
  IF s.length = Absent THEN Absent
  ELSE LET start == IF s.offset # Absent THEN s.offset
                    ELSE IF s.uri \in DOMAIN lastEnd THEN lastEnd[s.uri] ELSE 0
       IN  <<start, start + s.length>>

NothingBuilt == [key |-> Absent, map |-> Absent, lastEnd |-> <<>>, out |-> <<>>, bad |-> FALSE,
                 number |-> 0]

\* One segment of the playlist; `acc` is the loop's state.
BuildSegment(acc, s) ==
  LET key == KeyAfter(acc.key, s)
      newMap == s.map # Absent /\ s.map # acc.map
      range == RangeOf(s, acc.lastEnd)
      init == IF newMap THEN <<Segment(s.map.uri, s.map.range, Absent)>> ELSE <<>>
  IN  [key |-> key,
       map |-> IF newMap THEN s.map ELSE acc.map,
       lastEnd |-> IF range = Absent THEN acc.lastEnd
                   ELSE [u \in DOMAIN acc.lastEnd \cup {s.uri} |->
                           IF u = s.uri THEN range[2] ELSE acc.lastEnd[u]],
       out |-> acc.out \o init \o <<Segment(s.uri, range, KeyRef(key, acc.number))>>,
       bad |-> acc.bad \/ BadKey(s),
       number |-> acc.number + 1]

BuildTrack(media) ==
  LET built == FoldLeft(BuildSegment, [NothingBuilt EXCEPT !.number = media.sequence],
                        media.segments)
  IN  IF ~media.endList \/ built.bad THEN Failed
      ELSE [ok |-> TRUE, segments |-> built.out]

------------------------------------------------------------------------------
(* DASH: representation_segments.                                           *)

CeilDiv(a, b) == (a + b - 1) \div b
Minus(a, b) == IF a > b THEN a - b ELSE 0

\* Mutant: one segment too many up to the end of the period.
Repeat_OneMore(entry, time, end) ==
  IF entry.r = Absent THEN 0
  ELSE IF entry.r >= 0 THEN entry.r
  ELSE CeilDiv(Minus(end, time), entry.d)

\* How often an entry of a SegmentTimeline is repeated.
Repeat(entry, time, end) ==
  IF entry.r = Absent THEN 0
  ELSE IF entry.r >= 0 THEN entry.r
  ELSE Minus(CeilDiv(Minus(end, time), entry.d), 1)

TimelineEntry(end, acc, entry) ==
  LET time == IF entry.t # Absent THEN entry.t ELSE acc.time
      open == entry.r # Absent /\ entry.r < 0
      bad == entry.d = 0 \/ (open /\ end = Absent)
      n == Repeat(entry, time, end) + 1
  IN  IF acc.bad \/ bad THEN [acc EXCEPT !.bad = TRUE]
      ELSE [time |-> time + n * entry.d, number |-> acc.number + n, bad |-> FALSE,
            out |-> acc.out \o [k \in 1 .. n |->
                      [number |-> acc.number + k - 1, time |-> time + (k - 1) * entry.d]]]

\* The numbers and times that fill the template of a SegmentTimeline.
Timeline(entries, startNumber, end) ==
  LET Step(acc, entry) == TimelineEntry(end, acc, entry)
      built == FoldLeft(Step, [time |-> 0, number |-> startNumber, bad |-> FALSE, out |-> <<>>],
                        entries)
  IN  IF built.bad THEN Failed ELSE [ok |-> TRUE, segments |-> built.out]

------------------------------------------------------------------------------
(* What a plan has to be, stated of the manifest as a whole.                *)

\* The last of the segments 1..n of which Test holds, or 0.
LastWith(n, Test(_)) == Max({0} \cup {k \in 1 .. n : Test(k)})

\* Every segment of a playlist is fetched once and in order, under the key that the last key
\* tag before it set, counted from the media sequence for its vector, from the byte after the
\* one before it of the same resource if it names no offset; and its initialization section,
\* unencrypted, comes before the first segment of those that share it (build_track).
TrackMatchesPlaylist(media) ==
  LET s == media.segments
      KeyTag(k) == s[k].key # Absent \/ s[k].plain
      MapTag(k) == s[k].map # Absent
      KeyOf(i) == LET k == LastWith(i, KeyTag)
                  IN  IF k = 0 \/ s[k].key = Absent \/ s[k].key.method = "none" THEN Absent
                      ELSE [uri |-> s[k].key.uri,
                            iv |-> IF s[k].key.iv = Absent THEN media.sequence + i - 1
                                   ELSE s[k].key.iv]
      StartOf[i \in DOMAIN s] ==
        LET Ranged(k) == s[k].uri = s[i].uri /\ s[k].length # Absent
            k == LastWith(i - 1, Ranged)
        IN  IF s[i].offset # Absent THEN s[i].offset
            ELSE IF k = 0 THEN 0 ELSE StartOf[k] + s[k].length
      RangeAt(i) == IF s[i].length = Absent THEN Absent
                    ELSE <<StartOf[i], StartOf[i] + s[i].length>>
      Opens(i) == /\ s[i].map # Absent
                  /\ LET k == LastWith(i - 1, MapTag) IN k = 0 \/ s[k].map # s[i].map
      Expected(i) ==
        (IF Opens(i) THEN <<Segment(s[i].map.uri, s[i].map.range, Absent)>> ELSE <<>>)
          \o <<Segment(s[i].uri, RangeAt(i), KeyOf(i))>>
      track == BuildTrack(media)
  IN  track.ok =>
        track.segments = FoldLeft(\o, <<>>, [i \in DOMAIN s |-> Expected(i)])

\* The segments of a timeline are numbered without gaps, none starts where the one before it
\* does, and an entry that goes on to the end of the period covers it without starting a
\* segment behind it (representation_segments).
TimelineCovers(entries, startNumber, end) ==
  LET built == Timeline(entries, startNumber, end)
      out == built.segments
      last == Len(entries)
  IN  built.ok =>
        /\ \A k \in DOMAIN out : out[k].number = startNumber + k - 1
        /\ (entries # <<>> /\ entries[last].r = -1) =>
             LET first == Len(Timeline(Front(entries), startNumber, end).segments) + 1
             IN  /\ out[Len(out)].time + entries[last].d >= end
                 /\ \A k \in first + 1 .. Len(out) : out[k].time < end

\* Choosing a variant by the index it has in the list offered to the user takes that variant;
\* a limit of the height is kept if any variant fits it (list_variants, choose_variant).
ChoiceIsTheListed(variants) ==
  LET listed == ListVariants(variants)
  IN  /\ \A i \in DOMAIN listed : TakenVariant(variants, [by |-> "index", index |-> i]) = listed[i]
      /\ \A h \in 1 .. 3 :
           LET v == TakenVariant(variants, [by |-> "height", height |-> h])
               Fits(x) == x.height # Absent /\ x.height <= h
           IN  (\E i \in DOMAIN listed : Fits(listed[i])) =>
                 Fits(v) /\ \A i \in DOMAIN listed :
                              Fits(listed[i]) => listed[i].bandwidth <= v.bandwidth

------------------------------------------------------------------------------
(***************************************************************************)
(* The plan of a DASH manifest (prism-engine, media/dash.rs): the segment  *)
(* templates of period, adaptation set and representation are merged, the  *)
(* representations' segments are listed, and one video and one audio track *)
(* are taken.  An address is the list of the references joined to reach    *)
(* it; times are in units of the template's timescale.                     *)
(***************************************************************************)

\* A template's text names the placeholders it uses; filling it puts the values in.
Fill(tpl, id, number, time) ==
  [text |-> tpl.text,
   id |-> IF "id" \in tpl.uses THEN id ELSE Absent,
   number |-> IF "number" \in tpl.uses THEN number ELSE Absent,
   time |-> IF "time" \in tpl.uses THEN time ELSE Absent]

NoTemplate == [media |-> Absent, init |-> Absent, start |-> Absent, end |-> Absent,
               duration |-> Absent, timeline |-> Absent]

\* Mutant: the general level wins.
Over_General(general, specific) ==
  [f \in DOMAIN general |-> IF general[f] # Absent THEN general[f] ELSE specific[f]]

\* merge_templates: an attribute of the more specific level replaces the general one's.
Over(general, specific) ==
  [f \in DOMAIN general |-> IF specific[f] # Absent THEN specific[f] ELSE general[f]]
Merged(levels) ==
  FoldLeft(Over, NoTemplate, SelectSeq(levels, LAMBDA t : t # NoTemplate))

Join(base, ref) == IF ref = Absent THEN base ELSE Append(base, ref)

Or(value, default) == IF value = Absent THEN default ELSE value

\* How many segments of one duration the template numbers, or -1 if nothing says.
Count(t, start, seconds) ==
  IF t.end # Absent /\ t.end >= start THEN t.end - start + 1
  ELSE IF seconds = Absent THEN -1 ELSE CeilDiv(seconds, t.duration)

\* The numbers and times of the media segments of a template.
Numbered(t, seconds) ==
  LET start == Or(t.start, 1) n == Count(t, start, seconds)
  IN  IF t.timeline # Absent THEN Timeline(t.timeline, start, seconds)
      ELSE IF t.duration = Absent \/ n < 0 THEN Failed
      ELSE [ok |-> TRUE, segments |-> [k \in 1 .. n |->
              [number |-> start + k - 1, time |-> (k - 1) * t.duration]]]

\* The requests for the numbered segments, the initialization section before them.
Requests(t, numbered, rep, base) ==
  LET At(tpl, number, time) ==
        Segment(Append(base, Fill(tpl, rep.id, number, time)), Absent, Absent)
      init == IF t.init = Absent THEN <<>> ELSE <<At(t.init, Or(t.start, 1), 0)>>
      counted == Len(numbered.segments) + IF t.timeline = Absent THEN 0 ELSE Len(init)
  IN  IF ~numbered.ok \/ counted > MaxSegments THEN Failed
      ELSE [ok |-> TRUE, segments |->
              init \o [k \in DOMAIN numbered.segments |->
                         At(t.media, numbered.segments[k].number, numbered.segments[k].time)]]

FromTemplate(t, rep, base, seconds) == Requests(t, Numbered(t, seconds), rep, base)

\* A SegmentList of the most specific level that has one.
FromList(list, base) ==
  LET init == IF list.init = Absent THEN <<>>
              ELSE <<Segment(Append(base, list.init.url), list.init.range, Absent)>>
      out == init \o [k \in DOMAIN list.urls |->
                        Segment(Append(base, list.urls[k].url), list.urls[k].range, Absent)]
  IN  IF out = <<>> THEN Failed ELSE [ok |-> TRUE, segments |-> out]

\* representation_segments.
SegmentsOf(period, set, rep, base, seconds) ==
  LET at == Join(Join(base, set.base), rep.base)
      template == Merged(<<period.template, set.template, rep.template>>)
      list == Or(rep.list, Or(set.list, period.list))
  IN  IF template.media # Absent THEN FromTemplate(template, rep, at, seconds)
      ELSE IF list # Absent THEN FromList(list, at)
      ELSE [ok |-> TRUE, segments |-> <<Segment(at, Absent, Absent)>>]

------------------------------------------------------------------------------
\* The representations of one kind, each with its adaptation set, in the manifest's order.
Representations(period, kind) ==
  FoldLeft(LAMBDA acc, set : IF set.kind # kind THEN acc
                             ELSE acc \o [k \in DOMAIN set.reps |->
                                            [set |-> set, rep |-> set.reps[k]]],
           <<>>, period.sets)

IsProtected(pair) == pair.set.protected \/ pair.rep.protected

VariantsOf(pairs) ==
  [k \in DOMAIN pairs |-> [bandwidth |-> Or(pairs[k].rep.bandwidth, 0),
                           height |-> Or(pairs[k].rep.height, pairs[k].set.height)]]

\* select_video chooses like the variants of a master playlist are chosen.
SelectVideo(pairs, sel) == ChooseVariant(VariantsOf(pairs), sel)

\* The audio of the greatest bandwidth, the first of several.
SelectAudio(pairs) ==
  LET Bandwidth(k) == Or(pairs[k].rep.bandwidth, 0)
  IN  CHOOSE k \in DOMAIN pairs : \A j \in DOMAIN pairs :
        Bandwidth(j) < Bandwidth(k) \/ (Bandwidth(j) = Bandwidth(k) /\ j >= k)

NoPlan == [ok |-> FALSE, tracks |-> <<>>]

DashTrack(period, pair, base, seconds) ==
  IF IsProtected(pair) THEN Failed
  ELSE SegmentsOf(period, pair.set, pair.rep, base, seconds)

\* list_dash_variants: what the user is offered to choose from, by its index.
Listed(mpd) ==
  IF mpd.dynamic \/ Len(mpd.periods) # 1 THEN <<>>
  ELSE VariantsOf(Representations(mpd.periods[1], "video"))

\* plan_from_mpd: a track of the chosen video, one of the best audio.
DashTracks(period, video, audio, v, base, seconds) ==
  (IF video = <<>> THEN <<>>
   ELSE IF v = 0 THEN <<Failed>>
   ELSE <<DashTrack(period, video[v], base, seconds)>>)
  \o (IF audio = <<>> THEN <<>>
      ELSE <<DashTrack(period, audio[SelectAudio(audio)], base, seconds)>>)
PlanOf(tracks) ==
  IF tracks = <<>> \/ \E k \in DOMAIN tracks : ~tracks[k].ok THEN NoPlan
  ELSE [ok |-> TRUE, tracks |-> tracks]
Plan(mpd, sel) ==
  IF mpd.dynamic \/ Len(mpd.periods) # 1 THEN NoPlan
  ELSE LET period == mpd.periods[1]
           video == Representations(period, "video")
       IN  PlanOf(DashTracks(period, video, Representations(period, "audio"),
                             SelectVideo(video, sel), Join(Join(<<>>, mpd.base), period.base),
                             Or(period.duration, mpd.duration)))

------------------------------------------------------------------------------
\* The value that holds for a representation: that of the innermost level that gives one.
Innermost(levels, f) ==
  LET given == {k \in DOMAIN levels : levels[k][f] # Absent}
  IN  IF given = {} THEN Absent ELSE levels[Max(given)][f]

Follows(track, levels, rep, seconds) ==
  LET Holds(f) == Innermost(levels, f)
      inits == IF Holds("init") = Absent THEN 0 ELSE 1
      media == SubSeq(track.segments, inits + 1, Len(track.segments))
      Filled(k) == media[k].url[Len(media[k].url)]
      first == Or(Holds("start"), 1)
  IN  (Holds("media") # Absent /\ track.ok) =>
        /\ \A k \in DOMAIN media :
             /\ Filled(k).text = Holds("media").text
             /\ "number" \in Holds("media").uses => Filled(k).number = first + k - 1
             /\ "id" \in Holds("media").uses => Filled(k).id = rep.id
             /\ Front(media[k].url) = Front(media[1].url)
        /\ inits = 1 => track.segments[1].url[Len(track.segments[1].url)].text = Holds("init").text
        /\ Holds("timeline") = Absent =>
             IF Holds("end") # Absent /\ Holds("end") >= first
             THEN Len(media) = Holds("end") - first + 1
             ELSE /\ Len(media) * Holds("duration") >= seconds
                  /\ (Len(media) - 1) * Holds("duration") < seconds

\* A track asks for every segment of the representation once, in order and without a gap: with
\* the media template of the innermost level, numbered from the start number that holds there
\* up to its end number or until the period's duration is covered, all under one address, the
\* initialization section before them (merge_templates, representation_segments).
TemplateFollowed(period, set, rep, base, seconds) ==
  Follows(SegmentsOf(period, set, rep, base, seconds),
          <<period.template, set.template, rep.template>>, rep, seconds)

Keeps(plan, mpd, period, audio, pair) ==
  LET seconds == Or(period.duration, mpd.duration)
      base == Join(Join(<<>>, mpd.base), period.base)
      Taken(track, p) ==
        ~IsProtected(p) /\ track = SegmentsOf(period, p.set, p.rep, base, seconds)
  IN  plan.ok =>
        /\ ~mpd.dynamic
        /\ Taken(plan.tracks[1], pair)
        /\ IF audio = <<>> THEN Len(plan.tracks) = 1
           ELSE /\ Len(plan.tracks) = 2
                /\ \E k \in DOMAIN audio :
                     /\ Taken(plan.tracks[2], audio[k])
                     /\ \A j \in DOMAIN audio : Or(audio[j].rep.bandwidth, 0)
                                                  <= Or(audio[k].rep.bandwidth, 0)

\* A plan has no track of a protected or a live stream and takes, of the videos listed, the one
\* at the index chosen; no audio of the manifest has a greater bandwidth than the one taken
\* (plan_from_mpd, list_dash_variants).
PlanKeepsChoice(mpd) ==
  \A i \in DOMAIN Listed(mpd) :
    Keeps(Plan(mpd, [by |-> "index", index |-> i]), mpd, mpd.periods[1],
          Representations(mpd.periods[1], "audio"), Representations(mpd.periods[1], "video")[i])

=============================================================================
