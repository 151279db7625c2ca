---------------------------- MODULE VideoChoices ----------------------------
(***************************************************************************)
(* From the formats yt-dlp lists to the files ffmpeg muxes (prism-video,   *)
(* model.rs, choices.rs, plan.rs and ffmpeg.rs), as operators: what a      *)
(* format carries, the choices offered for a container, the streams and    *)
(* temporary files of an accelerated plan, the subtitles it takes and the  *)
(* command line of the final ffmpeg run.  Codec names are one per family;  *)
(* labels and size estimates are left out.                                 *)
(***************************************************************************)
EXTENDS Naturals, Integers, Sequences, SequencesExt, FiniteSets

CONSTANT Nil

AudioExts == {"m4a", "mp3", "opus", "ogg", "aac", "flac", "wav", "weba"}
PictureExts == {"mhtml", "jpg", "png", "webp"}

------------------------------------------------------------------------------
(* The first least element of a sequence under a lexicographic key, as      *)
(* Iterator::min_by and then_with find it.                                  *)

Before(x, y) == \E i \in DOMAIN x : x[i] < y[i] /\ \A j \in 1 .. i - 1 : x[j] = y[j]
Least(list, Key(_)) ==
  IF list = <<>> THEN Nil
  ELSE list[CHOOSE i \in DOMAIN list :
              \A j \in DOMAIN list \ {i} :
                ~Before(Key(list[j]), Key(list[i])) /\ (j < i => Key(list[j]) # Key(list[i]))]
Flag(b) == IF b THEN 1 ELSE 0

------------------------------------------------------------------------------
(* A format (RawFormat::into_format).                                       *)

\* What a format carries: codecs that are "none" decide, then yt-dlp's hints, then the extension.
Classify(raw) ==
  LET soundHint == raw.resolution = "audio only" \/ raw.videoExt = "none"
      pictureHint == raw.audioExt = "none" /\ raw.vcodec # Nil
  IN  CASE raw.ext \in PictureExts \/ (raw.vcodec = "none" /\ raw.acodec = "none") -> "other"
        [] raw.vcodec = "none" -> "audio"
        [] raw.acodec = "none" -> "video"
        [] raw.vcodec # Nil /\ raw.acodec # Nil -> "muxed"
        [] soundHint -> "audio"
        [] pictureHint -> "video"
        [] raw.vcodec = Nil /\ raw.ext \in AudioExts -> "audio"
        [] OTHER -> "muxed"

Codec(c) == IF c \in {Nil, "none"} THEN "unknown" ELSE c

IntoFormat(raw) ==
  LET kind == Classify(raw)
  IN  [id |-> raw.id, kind |-> kind, ext |-> raw.ext, v |-> Codec(raw.vcodec),
       a |-> Codec(raw.acodec), height |-> raw.height, hdr |-> raw.hdr, fps |-> raw.fps,
       rate |-> raw.rate, drc |-> raw.drc, preference |-> raw.preference,
       http |-> raw.protocol = "https" /\ ~raw.fragments /\ raw.url /\ ~raw.drm,
       usable |-> ~raw.drm /\ kind # "other" /\ (raw.url \/ raw.manifest)]

------------------------------------------------------------------------------
(* Codecs and containers: the rank in a container, or Nil if it cannot      *)
(* hold the codec.                                                          *)

VideoRank(codec, container, hdr) ==
  LET In(f) == IF codec \in DOMAIN f THEN f[codec] ELSE Nil
  IN  CASE container = "mp4" /\ hdr ->
             IF codec \in {"av1", "vp9", "hevc", "unknown"}
             THEN [av1 |-> 0, vp9 |-> 1, hevc |-> 2, unknown |-> 5][codec] ELSE 6
        [] container = "mp4" /\ ~hdr ->
             In([h264 |-> 0, av1 |-> 1, vp9 |-> 2, hevc |-> 3, unknown |-> 5])
        [] container = "mkv" ->
             In([vp9 |-> 0, av1 |-> 1, h264 |-> 2, hevc |-> 3, vp8 |-> 4, unknown |-> 5,
                 other |-> 6])
        [] container = "webm" -> In([vp9 |-> 0, av1 |-> 1, vp8 |-> 2, unknown |-> 5])

AudioRank(codec, container) ==
  LET In(f) == IF codec \in DOMAIN f THEN f[codec] ELSE Nil
  IN  CASE container = "mp4" ->
             In([aac |-> 0, opus |-> 1, mp3 |-> 2, ac3 |-> 3, flac |-> 4, unknown |-> 8])
        [] container = "webm" -> In([opus |-> 0, vorbis |-> 1, unknown |-> 8])
        [] container = "mkv" ->
             In([opus |-> 0, aac |-> 1, vorbis |-> 2, flac |-> 3, ac3 |-> 4, mp3 |-> 4,
                 unknown |-> 8, other |-> 9])

RankOr(rank, worst) == IF rank = Nil THEN worst ELSE rank

------------------------------------------------------------------------------
(* Choosing the sound.                                                      *)

Sounds(formats) == SelectSeq(formats, LAMBDA f : f.usable /\ f.kind = "audio")
AudioKey(f, rank) == <<0 - f.preference, Flag(f.drc), rank, Flag(~f.http), 0 - f.rate>>

BestAudio(formats, container) ==
  LET Key(f) == AudioKey(f, AudioRank(f.a, container))
  IN  Least(SelectSeq(Sounds(formats), LAMBDA f : AudioRank(f.a, container) # Nil), Key)
\* Mutant: the sound of any codec.
BestAudioOf_Any(formats, codec) ==
  LET Key(f) == AudioKey(f, 0) IN Least(Sounds(formats), Key)
BestAudioOf(formats, codec) ==
  LET Key(f) == AudioKey(f, 0)
  IN  Least(SelectSeq(Sounds(formats), LAMBDA f : f.a = codec), Key)
BestAudioAny(formats) ==
  LET Key(f) == AudioKey(f, Flag(f.a \in {"unknown", "other"}))
      Loudest(f) == <<0 - f.rate>>
  IN  IF Sounds(formats) # <<>> THEN Least(Sounds(formats), Key)
      ELSE Least(SelectSeq(formats, LAMBDA f : f.usable /\ f.kind = "muxed"), Loudest)

------------------------------------------------------------------------------
(* The choices (compute_choices, audio_choices).                            *)

IdOf(f) == IF f = Nil THEN Nil ELSE f.id
Pictures(formats) == SelectSeq(formats, LAMBDA f : f.usable /\ f.kind \in {"video", "muxed"})

\* Mutant: the sound's codec is not asked about.
Target_PictureOnly(best, acodec, silent, container) ==
  IF best.kind = "muxed" /\ best.v = "unknown"
  THEN CASE best.ext \in {"mp4", "m4v", "mov"} -> "mp4"
         [] best.ext = "webm" -> "webm"
         [] best.ext = "mkv" -> "mkv"
         [] OTHER -> container
  ELSE IF VideoRank(best.v, container, best.hdr) # Nil THEN container ELSE "mkv"

\* Unless the container asked for holds both codecs the file becomes an MKV; a file whose
\* codecs nobody knows keeps its own container.
Target(best, acodec, silent, container) ==
  IF best.kind = "muxed" /\ best.v = "unknown"
  THEN CASE best.ext \in {"mp4", "m4v", "mov"} -> "mp4"
         [] best.ext = "webm" -> "webm"
         [] best.ext = "mkv" -> "mkv"
         [] OTHER -> container
  ELSE IF /\ VideoRank(best.v, container, best.hdr) # Nil
          /\ silent \/ AudioRank(acodec, container) # Nil
       THEN container ELSE "mkv"

VideoChoice(formats, container, height, hdr) ==
  LET bucket == SelectSeq(Pictures(formats), LAMBDA f : f.height = height /\ f.hdr = hdr)
      Key(f) == <<0 - f.fps, RankOr(VideoRank(f.v, container, hdr), 20),
                  Flag(f.kind = "muxed" /\ Sounds(formats) # <<>>), Flag(~f.http), 0 - f.rate>>
      best == Least(bucket, Key)
      audio == IF BestAudio(formats, container) # Nil THEN BestAudio(formats, container)
               ELSE BestAudio(formats, "mkv")
      muxed == best.kind = "muxed"
      pair == IF muxed THEN Nil ELSE audio
      acodec == IF muxed THEN best.a ELSE IF pair = Nil THEN "unknown" ELSE pair.a
  IN  [kind |-> "video",
       id |-> <<"v", height, IF best.fps > 30 THEN best.fps ELSE 0, hdr>>,
       video |-> IF muxed THEN Nil ELSE best.id, audio |-> IdOf(pair),
       muxed |-> IF muxed THEN best.id ELSE Nil, kbps |-> Nil, fmt |-> Nil,
       container |-> Target(best, acodec, ~muxed /\ pair = Nil, container),
       accelerable |-> best.http /\ (pair = Nil \/ pair.http)]

AudioChoice(id, source, fmt, kbps) ==
  [kind |-> "audio", id |-> <<id>>, video |-> Nil,
   audio |-> IF source.kind = "audio" THEN source.id ELSE Nil,
   muxed |-> IF source.kind = "audio" THEN Nil ELSE source.id,
   kbps |-> kbps, fmt |-> fmt, container |-> "mp4", accelerable |-> source.http]

AudioChoices(formats) ==
  LET any == BestAudioAny(formats)
      Own(codec, fmt, kbps) ==
        LET own == BestAudioOf(formats, codec)
        IN  IF own # Nil THEN AudioChoice(fmt, own, fmt, Nil) ELSE AudioChoice(fmt, any, fmt, kbps)
  IN  IF any = Nil THEN <<>>
      ELSE <<AudioChoice("mp3", any, "mp3", 320), Own("aac", "m4a", 256), Own("opus", "opus", 160),
             AudioChoice("flac", any, "flac", Nil)>>

ComputeChoices(info, container) ==
  LET keys == {<<f.height, f.hdr>> : f \in {g \in ToSet(Pictures(info.formats)) : g.height <= 4320}}
      order == SetToSortSeq(keys, LAMBDA x, y : \/ x[1] > y[1]
                                                \/ x[1] = y[1] /\ x[2] /\ ~y[2])
  IN  IF info.drm THEN <<>>
      ELSE [i \in DOMAIN order |-> VideoChoice(info.formats, container, order[i][1], order[i][2])]
             \o AudioChoices(info.formats)

------------------------------------------------------------------------------
(* Plans.                                                                   *)

FormatOf(info, id) == CHOOSE f \in ToSet(info.formats) : f.id = id
Chosen(choice) == {choice.video, choice.audio, choice.muxed} \ {Nil}

\* accelerated_blocker, without its reasons.
Blocked(info, choice, opts) ==
  \/ info.live \/ info.drm \/ opts.sponsorblock = "remove"
  \/ Chosen(choice) = {}
  \/ \E id \in Chosen(choice) : \/ ~\E f \in ToSet(info.formats) : f.id = id
                                \/ ~FormatOf(info, id).http

\* A pattern or a language: its base and its region or, of a pattern, "all".
LangMatches(pattern, lang) ==
  pattern.all \/ lang = pattern.lang \/ (pattern.lang[2] = "" /\ pattern.lang[1] = lang[1])

Picked(tracks, pattern, auto) ==
  LET manual == SelectSeq(tracks, LAMBDA t : ~t.auto /\ LangMatches(pattern, t.lang))
      Of(lang) == SelectSeq(tracks, LAMBDA t : t.auto /\ t.lang = lang)
      untranslated == Of(pattern.lang) \o
                      (IF pattern.lang[2] = "" THEN Of(<<pattern.lang[1], "orig">>) ELSE <<>>)
  IN  IF manual # <<>> THEN manual
      ELSE IF auto /\ ~pattern.all /\ untranslated # <<>> THEN <<Head(untranslated)>>
      ELSE <<>>

\* Mutant: a track that two patterns match is taken twice.
SelectSubtitles_Twice(tracks, patterns, auto) ==
  LET OfPattern(out, p) == out \o Picked(tracks, p, auto)
  IN  FoldLeft(OfPattern, <<>>, patterns)

\* Each track once, in the order of the patterns.
SelectSubtitles(tracks, patterns, auto) ==
  LET Add(out, t) == IF \E i \in DOMAIN out : out[i].lang = t.lang /\ out[i].auto = t.auto
                     THEN out ELSE Append(out, t)
      OfPattern(out, p) == FoldLeft(Add, out, Picked(tracks, p, auto))
  IN  FoldLeft(OfPattern, <<>>, patterns)

Stream(role, file, optional) == [role |-> role, file |-> file, optional |-> optional]
FormatStream(info, id, role) ==
  IF id = Nil THEN <<>> ELSE <<Stream(role, <<"f", id, FormatOf(info, id).ext>>, FALSE)>>

\* plan_accelerated: the streams, which are the inputs of the post-processing as well.
Streams(info, choice, opts) ==
  LET sound == choice.kind = "audio"
      source == IF choice.audio # Nil THEN choice.audio ELSE choice.muxed
      subtitles == SelectSubtitles(info.subtitles, opts.patterns, opts.auto)
      Of(t) == Stream("subtitle", <<"subtitle", t.lang, t.auto>>, TRUE)
  IN  (IF sound
       THEN FormatStream(info, source,
                         IF FormatOf(info, source).kind = "audio" THEN "audio" ELSE "muxed")
       ELSE FormatStream(info, choice.muxed, "muxed") \o FormatStream(info, choice.video, "video")
              \o FormatStream(info, choice.audio, "audio"))
      \o (IF ~sound /\ (opts.embedSubs \/ opts.writeSubs)
          THEN [i \in DOMAIN subtitles |-> Of(subtitles[i])] ELSE <<>>)
      \o (IF (opts.embedThumb \/ opts.writeThumb) /\ info.thumbnail
          THEN <<Stream("thumbnail", <<"thumb", "jpg">>, TRUE)>> ELSE <<>>)

\* format_selector: what the yt-dlp path asks for, first choice first.
Selector(choice) ==
  CASE choice.kind = "audio" ->
         (IF choice.audio # Nil THEN <<{choice.audio}>>
          ELSE IF choice.muxed # Nil THEN <<{choice.muxed}>> ELSE <<>>) \o <<{"ba"}, {"b"}>>
    [] choice.kind = "video" ->
         (IF choice.video # Nil THEN <<{choice.video, choice.audio} \ {Nil}>>
          ELSE IF choice.muxed # Nil THEN <<{choice.muxed}>> ELSE <<>>)
         \o <<{"bv*", "ba"}, {"b<="}, {"b"}>>

------------------------------------------------------------------------------
(* The ffmpeg command line (postprocess, build_ffmpeg_args).                *)

InputOf(streams, roles) ==
  LET found == SelectSeq([r \in DOMAIN roles |->
                 SelectSeq(streams, LAMBDA s : s.role = roles[r])], LAMBDA l : l # <<>>)
  IN  IF found = <<>> THEN Nil ELSE Head(Head(found))

OneIf(b, x) == IF b THEN <<x>> ELSE <<>>
FilesOf(streams, role) ==
  LET s == SelectSeq(streams, LAMBDA x : x.role = role) IN [i \in DOMAIN s |-> s[i].file]

\* A cover becomes a stream of an MP4 and of the sound formats that have covers.
Covered(choice) ==
  IF choice.kind = "audio" THEN choice.fmt \in {"mp3", "m4a", "flac"} ELSE choice.container = "mp4"

\* The sound of an M4A or Opus file is the source's where it can be, and encoded anew elsewhere.
Copied(choice, source) ==
  \/ choice.kind = "video"
  \/ choice.kbps = Nil /\ <<choice.fmt, source.a>> \in {<<"m4a", "aac">>, <<"opus", "opus">>}

\* Chapters that go into the file; a SponsorBlock lookup that was asked for finds segments.
WantsChapters(opts, info) == (opts.chapters /\ info.chapters) \/ opts.sponsorblock = "mark"

\* The inputs in the order of their -i, the inputs and streams mapped, the cover attached by
\* name, and the input the tags and the chapters come from (-1: no chapters, Nil: the default).
FfmpegArgs(choice, opts, info, streams) ==
  LET sound == choice.kind = "audio"
      main == InputOf(streams, IF sound THEN <<"audio", "muxed", "video">> ELSE <<"video", "muxed">>)
      audio == IF sound \/ main.role = "muxed" THEN Nil ELSE InputOf(streams, <<"audio">>)
      thumb == InputOf(streams, <<"thumbnail">>)
      subs == IF sound \/ ~opts.embedSubs THEN <<>> ELSE FilesOf(streams, "subtitle")
      cover == opts.embedThumb /\ thumb # Nil /\ Covered(choice)
      described == opts.metadata \/ WantsChapters(opts, info)
      media == <<main.file>> \o OneIf(audio # Nil, audio.file) \o subs
                 \o OneIf(cover, thumb.file)
      inputs == media \o OneIf(described, <<"ffmetadata">>)
      Index(n) == n - 1
  IN  [inputs |-> inputs,
       maps |-> (IF sound THEN <<<<Index(1), "a:0">>>>
                 ELSE <<<<Index(1), "v:0">>,
                        IF audio # Nil THEN <<Index(2), "a:0">> ELSE <<Index(1), "a?">>>>)
                \o [i \in DOMAIN subs |-> <<Index(1 + Len(OneIf(audio # Nil, 0)) + i), "0">>]
                \o OneIf(cover, <<Index(Len(media)), "v">>),
       attached |-> opts.embedThumb /\ thumb # Nil /\ ~sound /\ choice.container = "mkv",
       tags |-> IF described /\ opts.metadata THEN Index(Len(inputs)) ELSE Nil,
       chapters |-> IF WantsChapters(opts, info) THEN Index(Len(inputs)) ELSE -1,
       copied |-> Copied(choice, FormatOf(info, main.file[2]))]

------------------------------------------------------------------------------
(* What the choices and plans have to be.                                   *)

Usable(info) == {f \in ToSet(info.formats) : f.usable}

\* One choice for each resolution and dynamic range on offer, all told apart by their ids; each
\* names usable formats that together carry picture and, where the site has separate sound,
\* sound; and its container can hold them both, unless nobody knows the codec
\* (compute_choices, "Fall back to MKV when the requested container cannot hold these codecs").
ChoicesHold(info, container) ==
  LET choices == ComputeChoices(info, container)
      videos == {i \in DOMAIN choices : choices[i].kind = "video"}
      F(id) == FormatOf(info, id)
  IN  /\ \A i, j \in DOMAIN choices : choices[i].id = choices[j].id => i = j
      /\ \A i \in DOMAIN choices :
           Chosen(choices[i]) # {} /\ \A id \in Chosen(choices[i]) : F(id) \in Usable(info)
      /\ ~info.drm => \A f \in Usable(info) :
           (f.kind \in {"video", "muxed"} /\ f.height <= 4320) =>
             \E i \in videos : choices[i].id[2] = f.height /\ choices[i].id[4] = f.hdr
      /\ \A i \in videos :
           LET c == choices[i]
               picture == F(IF c.muxed # Nil THEN c.muxed ELSE c.video)
               sound == IF c.audio # Nil THEN F(c.audio) ELSE picture
           IN  /\ (\E f \in Usable(info) : f.kind = "audio") => c.muxed # Nil \/ c.audio # Nil
               /\ ~(picture.kind = "muxed" /\ picture.v = "unknown") =>
                    /\ VideoRank(picture.v, c.container, picture.hdr) # Nil
                    /\ sound.kind # "video" => AudioRank(sound.a, c.container) # Nil

\* A choice shown as accelerable is the choice that gets the accelerated plan, of a video that
\* is not live and with no SponsorBlock removal asked for; all its required streams are plain
\* HTTP files; no two temporary files of a plan share a name; and yt-dlp, when it takes over,
\* is asked for the same formats first (accelerable, accelerated_blocker, format_selector).
PlansHold(info, container, opts) ==
  \A choice \in ToSet(ComputeChoices(info, container)) :
    LET streams == Streams(info, choice, opts)
        blocked == Blocked(info, choice, opts)
    IN  /\ (~info.live /\ opts.sponsorblock # "remove") => (choice.accelerable <=> ~blocked)
        /\ Head(Selector(choice)) = Chosen(choice)
        /\ ~blocked =>
             /\ \A i, j \in DOMAIN streams : streams[i].file = streams[j].file => i = j
             /\ \A i \in DOMAIN streams :
                  ~streams[i].optional => FormatOf(info, streams[i].file[2]).http
             /\ Cardinality({i \in DOMAIN streams : ~streams[i].optional})
                  = Cardinality(Chosen(choice))

\* Every file of the plan that is to be in the output is mapped once, from the input it is; the
\* tags and chapters come from the metadata file and no other input; and a choice offered as
\* the original sound is copied, not encoded again (build_ffmpeg_args).
ArgumentsHold(info, container, opts) ==
  \A choice \in ToSet(ComputeChoices(info, container)) :
    ~Blocked(info, choice, opts) =>
      LET streams == Streams(info, choice, opts)
          args == FfmpegArgs(choice, opts, info, streams)
          FileAt(i) == args.inputs[i + 1]
          Mapped == {FileAt(args.maps[k][1]) : k \in DOMAIN args.maps}
          Wanted == {s.file : s \in {t \in ToSet(streams) :
                       \/ ~t.optional
                       \/ t.role = "subtitle" /\ opts.embedSubs
                       \/ t.role = "thumbnail" /\ opts.embedThumb /\ Covered(choice)}}
      IN  /\ Mapped = Wanted
          /\ \A k \in DOMAIN args.maps : args.maps[k][1] + 1 \in DOMAIN args.inputs
          /\ args.tags # Nil => FileAt(args.tags) = <<"ffmetadata">>
          /\ args.chapters # -1 => FileAt(args.chapters) = <<"ffmetadata">>
          /\ (opts.chapters /\ info.chapters) => args.chapters # -1
          /\ (choice.kind = "audio" /\ choice.kbps = Nil /\ choice.fmt # "flac") => args.copied
=============================================================================
