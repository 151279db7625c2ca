------------------------------ MODULE MCEngine ------------------------------
(***************************************************************************)
(* Small instances of the parts of prism-engine and prism-video for one    *)
(* run of TLC: a behaviour takes one of the machines and keeps to it, so   *)
(* that the run explores the sum of their state spaces.  The video jobs    *)
(* and the streams are extended and have their own variables, at rest in   *)
(* the other machines; the variables of these are the first of x1, x2,     *)
(* ...; the decisions that have no state are evaluated on an input held in *)
(* x1.                                                                     *)
(***************************************************************************)
EXTENDS VideoJob, MediaJob, Integers, TLC

CONSTANTS
  Nil,        \* an absent value
  w1, w2

VARIABLES machine, x1, x2, x3, x4, x5, x6, x7, x8, x9, x10, x11, x12, x13, x14, x15, x16, x17, x18, x19,
          x20, x21, x22, x23, x24, x25, x26, x27
allVars == <<machine, vars, mediaVars, x1, x2, x3, x4, x5, x6, x7, x8, x9, x10, x11, x12, x13, x14, x15, x16, x17, x18, x19,
          x20, x21, x22, x23, x24, x25, x26, x27>>

\* A machine that uses the first k variables leaves the others alone.
Unused(k) ==
  /\ (k < 1 => x1 = Nil) /\ (k < 2 => x2 = Nil) /\ (k < 3 => x3 = Nil) /\ (k < 4 => x4 = Nil)
  /\ (k < 5 => x5 = Nil) /\ (k < 6 => x6 = Nil) /\ (k < 7 => x7 = Nil)
  /\ (k < 8 => x8 = Nil) /\ (k < 9 => x9 = Nil) /\ (k < 10 => x10 = Nil)
  /\ (k < 11 => x11 = Nil) /\ (k < 12 => x12 = Nil) /\ (k < 13 => x13 = Nil)
  /\ (k < 14 => x14 = Nil) /\ (k < 15 => x15 = Nil) /\ (k < 16 => x16 = Nil)
  /\ (k < 17 => x17 = Nil) /\ (k < 18 => x18 = Nil) /\ (k < 19 => x19 = Nil)
  /\ (k < 20 => x20 = Nil) /\ (k < 21 => x21 = Nil) /\ (k < 22 => x22 = Nil)
  /\ (k < 23 => x23 = Nil) /\ (k < 24 => x24 = Nil) /\ (k < 25 => x25 = Nil)
  /\ (k < 26 => x26 = Nil) /\ (k < 27 => x27 = Nil)
Kept(k) ==
  /\ (k < 1 => x1' = x1) /\ (k < 2 => x2' = x2) /\ (k < 3 => x3' = x3) /\ (k < 4 => x4' = x4)
  /\ (k < 5 => x5' = x5) /\ (k < 6 => x6' = x6) /\ (k < 7 => x7' = x7)
  /\ (k < 8 => x8' = x8) /\ (k < 9 => x9' = x9) /\ (k < 10 => x10' = x10)
  /\ (k < 11 => x11' = x11) /\ (k < 12 => x12' = x12) /\ (k < 13 => x13' = x13)
  /\ (k < 14 => x14' = x14) /\ (k < 15 => x15' = x15) /\ (k < 16 => x16' = x16)
  /\ (k < 17 => x17' = x17) /\ (k < 18 => x18' = x18) /\ (k < 19 => x19' = x19)
  /\ (k < 20 => x20' = x20) /\ (k < 21 => x21' = x21) /\ (k < 22 => x22' = x22)
  /\ (k < 23 => x23' = x23) /\ (k < 24 => x24' = x24) /\ (k < 25 => x25' = x25)
  /\ (k < 26 => x26' = x26) /\ (k < 27 => x27' = x27)

------------------------------------------------------------------------------
(* Values of the constants.                                                 *)

\* Workers, tasks or videos that differ in nothing.
Two == {w1, w2}
Interchangeable == Permutations(Two)

\* A plan with the stream of the picture and, the output does without it, one of subtitles.
PictureThenSubtitles == <<"video", "subtitles">>
OneEach == <<1, 2>>           \* segments: one of each of two tracks
Server(ranged, redirects, validator) ==
  [ranged |-> ranged, sized |-> TRUE, redirects |-> redirects, validator |-> validator]
PlainServers == {Server(TRUE, TRUE, "none"), Server(FALSE, FALSE, "etag")}
TwoAndOne == "a" :> 2 @@ "b" :> 1
Offers == {{"basic"}, {"digest"}, {"ntlm"}, {"basic", "digest"}, {"digest", "ntlm"},
           {"basic", "ntlm"}}
OwnNames == "v" :> "clip" @@ "w" :> "film"

Http == INSTANCE HttpDownload WITH
  Workers <- {0, 1}, Blocks <- 2, Servers <- {Server(TRUE, TRUE, "etag")},
  Mirrors <- {"mirror"}, MaxRetries <- 1, MaxVersions <- 2, MaxFaults <- 1, MaxExpiries <- 1,
  MaxStarts <- 2, server <- x1, version <- x2, targets <- x3, dead <- x4, known <- x5,
  probed <- x6, original <- x7, final <- x8, validated <- x9, benched <- x10, generation <- x11,
  meta <- x12, phase <- x13, saved <- x14, disk <- x15, at <- x16, unit <- x17, req <- x18,
  switches <- x19, fails <- x20, got <- x21, checking <- x22, changed <- x23,
  movedAtWork <- x24, faults <- x25, expiries <- x26, starts <- x27

Plain == INSTANCE HttpDownload WITH
  Workers <- {0, 1}, Blocks <- 2, Servers <- PlainServers, Mirrors <- {"mirror"},
  MaxRetries <- 1, MaxVersions <- 2, MaxFaults <- 1, MaxExpiries <- 0, MaxStarts <- 2,
  server <- x1, version <- x2, targets <- x3, dead <- x4, known <- x5, probed <- x6,
  original <- x7, final <- x8, validated <- x9, benched <- x10, generation <- x11, meta <- x12,
  phase <- x13, saved <- x14, disk <- x15, at <- x16, unit <- x17, req <- x18, switches <- x19,
  fails <- x20, got <- x21, checking <- x22, changed <- x23, movedAtWork <- x24, faults <- x25,
  expiries <- x26, starts <- x27

Ftp == INSTANCE FtpDownload WITH
  Workers <- Two, Blocks <- 3, MaxRetries <- 1, MaxVersions <- 2, MaxFaults <- 1,
  MaxStarts <- 2, rest <- x1, dates <- x2, version <- x3, phase <- x4, ranged <- x5,
  saved <- x6, disk <- x7, first <- x8, conn <- x9, owed <- x10, clean <- x11, at <- x12,
  unit <- x13, got <- x14, fails <- x15, faults <- x16, starts <- x17, mixed <- x18,
  movedAtWork <- x19

Host == INSTANCE HostConnections WITH
  Downloads <- {"a", "b"}, Work <- TwoAndOne, Requested <- TwoAndOne, Initial <- 1,
  ConnectionsCap <- 2, ServerSlots <- 2, NoLimit <- 99, MaxUnjoined <- 0, MaxEvents <- 1,
  at <- x1, exits <- x2, active <- x3, requested <- x4, learned <- x5, ramp <- x6, target <- x7,
  hold <- x8, left <- x9, stop <- x10, pass <- x11, outcome <- x12, slots <- x13, limit <- x14,
  hostCap <- x15, events <- x16

Budget == INSTANCE WriteBudget WITH
  Downloads <- {"a", "b"}, FirstBudget <- 4, Budgets <- {3, 6}, Sizes <- {1, 3},
  WriteBuffer <- 4, MaxChannel <- 1, MaxUpdates <- 1, free <- x1, queue <- x2, wanted <- x3,
  got <- x4, channel <- x5, buffer <- x6, phase <- x7, total <- x8, budget <- x9, updates <- x10

Rate == INSTANCE RateLimiter WITH
  Tasks <- Two, Sizes <- {1, 3}, Rates <- {0, 1, 2}, MaxAcquire <- 2, Quarter <- 2,
  MaxTime <- 4, MaxChanges <- 1, rate <- x1, tat <- x2, setting <- x3, tasks <- x4, now <- x5,
  changes <- x6, since <- x7, spent <- x8, made <- x9

Auth == INSTANCE HttpAuth WITH
  Workers <- Two, Schemes <- {"auto", "basic", "digest", "ntlm"}, OfferSets <- Offers,
  MaxSends <- 2, MaxFaults <- 1, scheme <- x1, offers <- x2, client <- x3, ntlm <- x4,
  workers <- x5, conns <- x6, nonces <- x7, used <- x8, replayed <- x9, faults <- x10,
  sends <- x11

Calls == INSTANCE YtDlpRun WITH
  Kinds <- {"probe", "job"}, Sites <- {"youtube", "public", "other"}, MaxSwitches <- 1,
  kind <- x1, site <- x2, cookies <- x3, browser <- x4, at <- x5, page <- x6, used <- x7,
  first <- x8, hops <- x9, procs <- x10, code <- x11, file <- x12, path <- x13, message <- x14,
  shown <- x15, given <- x16, result <- x17, switches <- x18, tries <- x19, rejections <- x20

Tools == INSTANCE VideoTools WITH
  MaxRelease <- 2, Unpacked <- {1, 2}, Custom <- {"deno"}, OnPath <- {"ffmpeg", "ffprobe"},
  PreferSystem <- FALSE, ReplacesRunning <- FALSE, Users <- {"u"}, MaxOps <- 2, MaxKills <- 1,
  MaxDamage <- 1, published <- x1, marker <- x2, tree <- x3, file <- x4, aside <- x5,
  parts <- x6, op <- x7, todo <- x8, at <- x9, rel <- x10, got <- x11, placing <- x12,
  using <- x13, ops <- x14, kills <- x15, damage <- x16

Post == INSTANCE PostProcess WITH
  Videos <- {"v", "w"}, NameOf <- OwnNames, Optional <- {"thumbnail"}, KeepInputs <- {"w"},
  MaxFailures <- 1, MaxKills <- 1, phase <- x1, inputs <- x2, cover <- x3, tags <- x4,
  tmp <- x5, output <- x6, moved <- x7, had <- x8, failures <- x9, kills <- x10

Plans == INSTANCE MediaPlan WITH Absent <- Nil, MaxSegments <- 5
Choices == INSTANCE VideoChoices
Marks == INSTANCE ChapterMarks

------------------------------------------------------------------------------
(* Inputs of the decisions.                                                 *)

KeyTags == {Nil} \cup [method : {"none"}, uri : {Nil}, iv : {Nil}]
  \cup [method : {"aes"}, uri : {"k1", "k2"}, iv : {Nil, 50}]
  \cup [method : {"sample"}, uri : {"k1"}, iv : {Plans!BadVector}]
KeyedEntries ==
  [key : KeyTags, plain : BOOLEAN, map : {Nil} \cup [uri : {"m1", "m2"}, range : {Nil}],
   uri : {"a"}, length : {Nil}, offset : {Nil}]
RangedEntries ==
  [key : {Nil}, plain : {FALSE}, map : {Nil}, uri : {"a", "b"}, length : {Nil, 2, 3},
   offset : {Nil, 1}]
Playlists == [endList : {TRUE}, sequence : {7}, segments : [1 .. 2 -> KeyedEntries]]
  \cup [endList : BOOLEAN, sequence : {0}, segments : [1 .. 3 -> RangedEntries]]
TimelineEntries == [t : {Nil, 2}, d : {1, 2, 3}, r : {Nil, 0, 2, -1}]
Timelines == [entries : UNION {[1 .. n -> TimelineEntries] : n \in 1 .. 2}, end : {Nil, 0, 4, 7}]
VariantLists ==
  UNION {[1 .. n -> [bandwidth : 1 .. 2, height : {Nil, 1, 2}, iframe : BOOLEAN]] : n \in 1 .. 3}

Text(text, uses) == [text |-> text, uses |-> uses]
Open == <<[t |-> Nil, d |-> 2, r |-> -1]>>
\* Attributes beside the media's name: init, start, end, duration, timeline.
Forms == {<<Nil, Nil, Nil, Nil, Nil>>, <<Nil, 0, 3, Nil, Nil>>,
          <<Text("i", {"id"}), Nil, Nil, 2, Nil>>, <<Nil, 4, Nil, 3, Nil>>,
          <<Nil, 4, Nil, Nil, Open>>, <<Text("j", {}), Nil, 5, 2, Nil>>}
Templates ==
  {[media |-> m, init |-> f[1], start |-> f[2], end |-> f[3], duration |-> f[4],
    timeline |-> f[5]] :
     m \in {Nil, Text("a", {"number"}), Text("b", {"id", "time"})}, f \in Forms}
Levels == [period : Templates, set : Templates, rep : Templates, seconds : {Nil, 5}]
Rep(id, bandwidth, protected, template) ==
  [id |-> id, bandwidth |-> bandwidth, height |-> Nil, protected |-> protected, base |-> Nil,
   template |-> template, list |-> Nil]
Set(kind, protected, template, reps) ==
  [kind |-> kind, height |-> Nil, protected |-> protected, base |-> "set", template |-> template,
   list |-> Nil, reps |-> reps]
List == [init |-> [url |-> "li", range |-> <<0, 2>>], urls |-> <<[url |-> "l1", range |-> Nil]>>]
None == Plans!NoTemplate
Mpds ==
  {[dynamic |-> dynamic, duration |-> 5, base |-> Nil,
    periods |-> [k \in 1 .. n |->
      [duration |-> Nil, base |-> "p", template |-> None, list |-> list,
       sets |-> <<Set("video", p, None, <<Rep("v1", 1, FALSE, None), Rep("v2", 2, q, None)>>),
                  Set("text", FALSE, None, <<>>),
                  Set("audio", FALSE, None, <<Rep("a1", x, FALSE, None)>>),
                  Set("audio", q, None, [j \in 1 .. m |-> Rep("a2", y, FALSE, None)])>>]]] :
    dynamic \in BOOLEAN, n \in 0 .. 2, p \in BOOLEAN, q \in BOOLEAN, x \in {Nil, 1, 2},
    y \in {Nil, 1, 2}, m \in 0 .. 1, list \in {Nil, List}}

Raw == [id |-> "f", ext |-> "mp4", vcodec |-> "none", acodec |-> "none", resolution |-> Nil,
        videoExt |-> Nil, audioExt |-> Nil, height |-> 0, hdr |-> FALSE, fps |-> 0, rate |-> 1,
        drc |-> FALSE, preference |-> 0, protocol |-> "https", fragments |-> FALSE, url |-> TRUE,
        manifest |-> FALSE, drm |-> FALSE]
Raws == <<
  [Raw EXCEPT !.vcodec = "h264", !.height = 1080, !.fps = 30],
  [Raw EXCEPT !.vcodec = "vp9", !.ext = "webm", !.height = 1080, !.fps = 60, !.rate = 2],
  [Raw EXCEPT !.vcodec = "vp9", !.ext = "webm", !.height = 1080, !.hdr = TRUE, !.fps = 60],
  [Raw EXCEPT !.vcodec = "h264", !.height = 1080, !.fps = 60, !.protocol = "m3u8"],
  [Raw EXCEPT !.vcodec = "h264", !.acodec = "vorbis", !.height = 720, !.fps = 30],
  [Raw EXCEPT !.vcodec = "h264", !.acodec = "aac", !.height = 1080, !.fps = 30],
  [Raw EXCEPT !.vcodec = Nil, !.acodec = Nil, !.ext = "webm"],
  [Raw EXCEPT !.vcodec = Nil, !.acodec = Nil, !.ext = "m4a"],
  [Raw EXCEPT !.acodec = "aac", !.ext = "m4a", !.preference = 1],
  [Raw EXCEPT !.acodec = "opus", !.ext = "webm", !.rate = 2],
  [Raw EXCEPT !.acodec = "vorbis", !.ext = "ogg", !.protocol = "m3u8", !.rate = 3],
  [Raw EXCEPT !.acodec = "opus", !.ext = "webm", !.drc = TRUE, !.rate = 3, !.drm = TRUE]>>
Formats == {Choices!IntoFormat([Raws[i] EXCEPT !.id = i]) : i \in DOMAIN Raws}
FormatLists(n) == {l \in [1 .. n -> Formats] : \A i, j \in 1 .. n : i # j => l[i].id # l[j].id}
TrackPairs ==
  LET T(base, variant, auto) == [lang |-> <<base, variant>>, auto |-> auto]
  IN  {<<T("en", "", FALSE), T("en", "US", FALSE)>>, <<T("en", "US", FALSE), T("de", "", TRUE)>>,
       <<T("de", "", TRUE), T("de", "orig", TRUE)>>, <<T("de", "orig", TRUE), T("de", "", TRUE)>>}
PatternLists ==
  LET P(all, base) == [all |-> all, lang |-> <<base, "">>]
  IN  {<<P(FALSE, "en"), P(FALSE, "de")>>, <<P(FALSE, "de"), P(FALSE, "de")>>,
       <<P(TRUE, ""), P(FALSE, "en")>>}
Info(l, drm, subs) == [formats |-> l, drm |-> drm, live |-> FALSE, subtitles |-> subs,
                       thumbnail |-> TRUE, chapters |-> TRUE]
Opts(patterns, sb, b) ==
  [patterns |-> patterns, auto |-> TRUE, sponsorblock |-> sb, embedSubs |-> b, writeSubs |-> ~b,
   embedThumb |-> b, writeThumb |-> ~b, metadata |-> b, chapters |-> ~b]

Spans == {s \in [start : {0, 1, 3}, end : {0, 2, 3, 5}] : s.start # s.end}
Marked ==
  {[start |-> s.start, end |-> s.end, category |-> c, video |-> 1] :
     s \in Spans, c \in {"sponsor", "intro"}}
  \cup {[start |-> 0, end |-> 3, category |-> "sponsor", video |-> 2]}
ChapterLists ==
  {<<>>, <<[start |-> 0, end |-> 2], [start |-> 2, end |-> 4]>>,
   <<[start |-> 1, end |-> 4], [start |-> 2, end |-> 5]>>}

------------------------------------------------------------------------------
\* A decision, whose input is yet to be picked.
Blank == x1 = [kind |-> "none"] /\ Unused(1)

\* No video was started, and no stream.
VideosAtRest == Init /\ limit = 1
MediaAtRest == MediaInit /\ \A n \in Names : target[n] = Nothing

OtherInit ==
  \/ machine = "http" /\ Http!Init /\ Unused(27)
  \/ machine = "plain" /\ Plain!Init /\ Unused(27)
  \/ machine = "ftp" /\ Ftp!Init /\ Unused(19)
  \/ machine = "host" /\ Host!Init /\ Unused(16)
  \/ machine = "budget" /\ Budget!Init /\ Unused(10)
  \/ machine = "rate" /\ Rate!Init /\ Unused(9)
  \/ machine = "auth" /\ Auth!Init /\ Unused(11)
  \/ machine = "calls" /\ Calls!Init /\ Unused(20)
  \/ machine = "tools" /\ Tools!Init /\ Unused(16)
  \/ machine = "post" /\ Post!Init /\ Unused(10)
  \/ machine \in {"streams", "choices", "marks"} /\ Blank

EngineInit ==
  \/ machine = "videos" /\ Init /\ MediaAtRest /\ Unused(0)
  \/ machine = "media" /\ MediaInit /\ VideosAtRest /\ Unused(0)
  \/ OtherInit /\ VideosAtRest /\ MediaAtRest

PickStream ==
  \/ \E m \in Playlists : x1' = [kind |-> "playlist", of |-> m]
  \/ \E m \in Timelines : x1' = [kind |-> "timeline", of |-> m]
  \/ \E m \in VariantLists : x1' = [kind |-> "variants", of |-> m]
  \/ \E m \in Levels : x1' = [kind |-> "levels", of |-> m]
  \/ \E m \in Mpds : x1' = [kind |-> "mpd", of |-> m]

PickChoice ==
  \/ \E n \in 1 .. 3, c \in {"mp4", "webm"} : \E l \in FormatLists(n) :
       x1' = [kind |-> "formats", info |-> Info(l, FALSE, <<>>), container |-> c]
  \/ \E l \in FormatLists(2), c \in {"mp4", "mkv"}, p \in PatternLists,
        sb \in {"off", "mark", "remove"}, b \in BOOLEAN, t \in TrackPairs :
       x1' = [kind |-> "options", container |-> c, opts |-> Opts(p, sb, b),
              info |-> Info(l, FALSE, t)]

PickMarks ==
  \E c \in ChapterLists, a, b \in Marked, d \in {{}, {3}, {6}} :
    x1' = [kind |-> "marks", chapters |-> c, marked |-> <<a, b>>, duration |-> d]

Pick ==
  /\ x1.kind = "none"
  /\ \/ machine = "streams" /\ PickStream
     \/ machine = "choices" /\ PickChoice
     \/ machine = "marks" /\ PickMarks
  /\ Kept(1)

OtherNext ==
  /\ \/ machine = "http" /\ Http!Next /\ Kept(27)
     \/ machine = "plain" /\ Plain!Next /\ Kept(27)
     \/ machine = "ftp" /\ Ftp!Next /\ Kept(19)
     \/ machine = "host" /\ Host!Next /\ Kept(16)
     \/ machine = "budget" /\ Budget!Next /\ Kept(10)
     \/ machine = "rate" /\ Rate!Next /\ Kept(9)
     \/ machine = "auth" /\ Auth!Next /\ Kept(11)
     \/ machine = "calls" /\ Calls!Next /\ Kept(20)
     \/ machine = "tools" /\ Tools!Next /\ Kept(16)
     \/ machine = "post" /\ Post!Next /\ Kept(10)
     \/ machine \in {"streams", "choices", "marks"} /\ Pick

EngineNext ==
  /\ machine' = machine
  /\ \/ machine = "videos" /\ Next /\ UNCHANGED mediaVars /\ Kept(0)
     \/ machine = "media" /\ MediaNext /\ UNCHANGED vars /\ Kept(0)
     \/ OtherNext /\ UNCHANGED <<vars, mediaVars>>

\* Every machine may have done all that its bounds let it do.
EngineSpec == EngineInit /\ [][EngineNext]_allVars

------------------------------------------------------------------------------
(* What the run checks.  Each machine's own module says what its part means.*)

\* Every variable of the machine at work keeps its type.
EngineTypeOK ==
  /\ machine = "media" => MediaTypeOK
  /\ machine = "http" => Http!TypeOK
  /\ machine = "plain" => Plain!TypeOK
  /\ machine = "ftp" => Ftp!TypeOK
  /\ machine = "host" => Host!TypeOK
  /\ machine = "rate" => Rate!TypeOK
  /\ machine = "auth" => Auth!TypeOK
  /\ machine = "videos" => TypeOK
  /\ machine = "calls" => Calls!TypeOK
  /\ machine = "tools" => Tools!TypeOK
  /\ machine = "post" => Post!TypeOK

\* HTTP and FTP downloads (http/download.rs, segmented/worker.rs, ftp.rs): a completed file of a
\* server that tells its versions apart is of one version, and one whose length is known holds
\* the bytes of no other answer, across mirrors, expired links, retries, pauses and a file
\* replaced on the server; on an FTP connection kept for the next range, every reply belongs to
\* the command it is read for, and a file that changed during a pause is started over.
OneVersionOK ==
  /\ machine = "http" => Http!OneVersion /\ Http!FileIsOneAnswer
  /\ machine = "plain" => Plain!OneVersion /\ Plain!FileIsOneAnswer
  /\ machine = "ftp" => Ftp!RepliesMatch /\ Ftp!PausedChangeIsFound

\* The connection slots of a host (hostlimits.rs, segmented/supervisor.rs): the counters agree
\* with the workers at work, no waiter sleeps while a slot is free for it, and a download only
\* fails with work left that nobody does.
ConnectionsOK ==
  machine = "host" => /\ Host!CountersAreExact
                      /\ Host!NoWaiterForgotten
                      /\ Host!FailsOnlyWithWorkLeft

\* What all downloads share (segmented/writer.rs, limiter.rs): no byte of the memory budget is
\* lost or counted twice when it is shrunk, lent and given back, and no span of time lets
\* more bytes through than the speed limit, whichever tasks wake in which order.
SharedLimitsOK ==
  /\ machine = "budget" => Budget!BudgetConserved
  /\ machine = "rate" => Rate!WithinRate

\* Authentication (http/auth.rs, http/fetcher.rs): workers that share a Digest nonce never send
\* the same count twice, and a right password is not refused because another worker's
\* challenge, or a connection lost within an NTLM handshake, came in between.
SignInOK == machine = "auth" => Auth!CountsAreFresh /\ Auth!RightPasswordGetsIn

\* Manifests (media/hls.rs, media/dash.rs): every segment is requested once, in order, with the
\* key, byte range and initialization section that hold there; a timeline covers its period;
\* the variant taken is the one listed under that index, and DASH attributes come from the
\* innermost level that gives them.
StreamPlansOK ==
  machine = "streams" =>
    /\ x1.kind = "playlist" => Plans!TrackMatchesPlaylist(x1.of)
    /\ x1.kind = "timeline" => Plans!TimelineCovers(x1.of.entries, 1, x1.of.end)
    /\ x1.kind = "variants" => Plans!ChoiceIsTheListed(x1.of)
    /\ x1.kind = "levels" =>
         LET set == Set("video", FALSE, x1.of.set, <<Rep("r", 1, FALSE, x1.of.rep)>>)
         IN  Plans!TemplateFollowed([template |-> x1.of.period, list |-> Nil], set,
                                      set.reps[1], <<>>, x1.of.seconds)
    /\ x1.kind = "mpd" => Plans!PlanKeepsChoice(x1.of)

\* Processes and files of the video service (prism-video lib.rs, process.rs, ffmpeg.rs and
\* tools.rs, jobs.rs): whatever way a call of yt-dlp ends, no process of it runs on and the file
\* with the user's cookies is gone; the page's cookies are given up only after YouTube rejected
\* them; missing cookies of the browser are explained; until a video's output is in place its
\* streams are kept, whatever fails or is killed; and a tool that is used passed its checks.
VideoFilesOK ==
  /\ machine = "calls" => Calls!CallsOK
  /\ machine = "post" => Post!StreamsOrOutput
  /\ machine = "tools" => Tools!UsableIsVerified

\* Choices of the video service (choices.rs, plan.rs, sponsorblock.rs): what is offered can be
\* had, the formats, subtitles and arguments planned are those of the choice, and every moment
\* of a video with marked segments lies in a chapter named for it.
VideoChoicesOK ==
  /\ machine = "choices" =>
       /\ x1.kind = "formats" => Choices!ChoicesHold(x1.info, x1.container)
       /\ x1.kind = "options" => /\ Choices!PlansHold(x1.info, x1.container, x1.opts)
                                 /\ Choices!ArgumentsHold(x1.info, x1.container, x1.opts)
  /\ (machine = "marks" /\ x1.kind = "marks") =>
       Marks!EveryMomentMarked(x1.chapters, Marks!Segments(x1.marked, 1), x1.duration)

\* Files that were there before (media/mod.rs, tools.rs): under the policy "rename" no step of
\* a stream's download changes a file that the job did not make, and no step of an update or
\* of a start takes away the yt-dlp in use unless what takes its place works.
FilesKept ==
  [][/\ machine = "media" => ForeignFileStep
     /\ machine = "tools" => Tools!YtDlpStep]_allVars

=============================================================================
