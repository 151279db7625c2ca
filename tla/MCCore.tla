------------------------------ MODULE MCCore ------------------------------
(***************************************************************************)
(* Small instances of the parts of prism-core and prism-native-host, and   *)
(* of the desktop app's clipboard monitor, for one run of TLC: a behaviour *)
(* takes one of the machines and keeps to it, so that the run explores the *)
(* sum of their state spaces.  The folder of the downloads is extended and *)
(* has its own variables, at rest in the other machines; the variables of  *)
(* these are the first of x1, x2, ...; the decisions that have no state    *)
(* are evaluated on an input held in x1.                                   *)
(***************************************************************************)
EXTENDS DownloadFolder, Integers, Sequences, TLC

CONSTANTS
  Nil,                                    \* an absent value
  User, Ticker, Handler, Saver, Nobody,   \* threads of the manager
  i1, i2,                                 \* items of the queue, the folder and the torrents,
                                          \* and messages of the browser
  Task                                    \* a capture's

VARIABLES machine, x1, x2, x3, x4, x5, x6, x7, x8, x9, x10, x11, x12, x13, x14, x15, x16, x17, x18, x19,
          x20
allVars == <<machine, vars, x1, x2, x3, x4, x5, x6, x7, x8, x9, x10, x11, x12, x13, x14, x15, x16, x17, x18, x19,
          x20>>

\* A machine that uses the first k variables leaves the others alone.
Unused(k) ==
  /\ (k < 1 => x1 = Nil) /\ (k < 2 => x2 = Nil) /\ (k < 3 => x3 = Nil) /\ (k < 4 => x4 = Nil)
  /\ (k < 5 => x5 = Nil) /\ (k < 6 => x6 = Nil) /\ (k < 7 => x7 = Nil)
  /\ (k < 8 => x8 = Nil) /\ (k < 9 => x9 = Nil) /\ (k < 10 => x10 = Nil)
  /\ (k < 11 => x11 = Nil) /\ (k < 12 => x12 = Nil) /\ (k < 13 => x13 = Nil)
  /\ (k < 14 => x14 = Nil) /\ (k < 15 => x15 = Nil) /\ (k < 16 => x16 = Nil)
  /\ (k < 17 => x17 = Nil) /\ (k < 18 => x18 = Nil) /\ (k < 19 => x19 = Nil)
  /\ (k < 20 => x20 = Nil)
Kept(k) ==
  /\ (k < 1 => x1' = x1) /\ (k < 2 => x2' = x2) /\ (k < 3 => x3' = x3) /\ (k < 4 => x4' = x4)
  /\ (k < 5 => x5' = x5) /\ (k < 6 => x6' = x6) /\ (k < 7 => x7' = x7)
  /\ (k < 8 => x8' = x8) /\ (k < 9 => x9' = x9) /\ (k < 10 => x10' = x10)
  /\ (k < 11 => x11' = x11) /\ (k < 12 => x12' = x12) /\ (k < 13 => x13' = x13)
  /\ (k < 14 => x14' = x14) /\ (k < 15 => x15' = x15) /\ (k < 16 => x16' = x16)
  /\ (k < 17 => x17' = x17) /\ (k < 18 => x18' = x18) /\ (k < 19 => x19' = x19)
  /\ (k < 20 => x20' = x20)

------------------------------------------------------------------------------
(* Values of the constants.                                                 *)

\* In each of these machines the two are interchangeable.
CoreSymmetry == Permutations({i1, i2})
\* Two items of one torrent.
BothTheSame == i1 :> "t" @@ i2 :> "t"
\* One queue with a start on every first day of two, and a stop; one that starts once.
Schedules ==
  [q |-> [start |-> 5, stop |-> 1, days |-> {0}, once |-> Nil, power |-> TRUE],
   r |-> [start |-> 0, stop |-> Nil, days |-> {}, once |-> 1, power |-> TRUE]]
\* The browsers that have a folder of their own on a platform.
Installed == {{}, {"chrome", "brave-origin", "firefox"}, {"opera", "brave", "brave-origin", "zen"}}
\* What is copied: a file's link, three links with a word among them, a page's.
Copied ==
  LET link(kind, ext) == [kind |-> kind, ext |-> ext]
      zip == link("link", "zip")
  IN  {<<zip>>, <<link("word", "none"), link("magnet", "none"), zip, zip>>, <<link("link", "html")>>}
\* A site whose pages lead to one another in circles and by several ways.
Site ==
  LET page(host, domain, below, links, media) ==
        [host |-> host, domain |-> domain, below |-> below, ext |-> "html", serves |-> "html",
         links |-> links, media |-> media]
      here(links) == page("www", "site", TRUE, links, <<>>)
      file(host, ext) ==
        [host |-> host, domain |-> "site", below |-> TRUE, ext |-> ext, serves |-> "file",
         links |-> <<>>, media |-> <<>>]
  IN [start |-> page("www", "site", TRUE, <<"b", "a", "x", "logout", "zip1", "pdf">>, <<"img">>),
      a |-> here(<<"start", "zip2", "out">>), b |-> here(<<"deep", "get", "zip1">>),
      x |-> here(<<"y">>), y |-> here(<<"deep">>), deep |-> here(<<"zip3", "c">>),
      c |-> here(<<"d">>), d |-> here(<<"zip4">>), logout |-> here(<<"zip4">>),
      out |-> page("other", "other", FALSE, <<"zip4">>, <<>>), get |-> file("www", "php"),
      zip1 |-> file("cdn", "zip"), zip2 |-> file("www", "zip"), zip3 |-> file("www", "zip"),
      zip4 |-> file("www", "zip"), pdf |-> file("www", "pdf"), img |-> file("cdn", "zip")]

Queueing == INSTANCE DownloadManager WITH
  Items <- {i1, i2}, NoItem <- Nil, Callers <- {User}, Ticker <- Ticker, Handler <- Handler,
  Saver <- Saver, Nobody <- Nobody, Commands <- {"startQueue", "stopQueue", "pause"},
  MaxConcurrent <- 1, EarlyOutcomes <- FALSE, MaxJobs <- 2, MaxCommands <- 2,
  MaxCheckpoints <- 0, items <- x1, rows <- x2, dirty <- x3, jobs <- x4, job <- x5,
  outcomes <- x6, handler <- x7, saver <- x8, thread <- x9, write <- x10, admission <- x11,
  queue <- x12, commands <- x13

Capturing == INSTANCE Captures WITH
  Tasks <- {Task},
  Links <- {"file", "share", "page", "repo", "watch", "magnet", "torrent", "fake", "blocked"},
  ShowDialog <- BOOLEAN, BatchLinks <- {"file", "share"},
  UserLinks <- {"share", "watch", "fake"}, TryTime <- 1, LaunchTime <- 1,
  KnownTime <- 2, UnknownTime <- 2, MaxIds <- 2, MaxProbes <- 1, MaxFaults <- 1,
  captures <- x1, batches <- x2, videos <- x3, cached <- x4, probes <- x5, torrents <- x6,
  items <- x7, queues <- x8, shown <- x9, dismissed <- x10, faulty <- x11, browser <- x12,
  nextId <- x13

\* One capture asked about twice, with the times of the extension and the host in proportion.
Again == INSTANCE Captures WITH
  Tasks <- {Task}, Links <- {"watch", "share", "fake", "blocked"}, ShowDialog <- BOOLEAN,
  BatchLinks <- {}, UserLinks <- {}, TryTime <- 1, LaunchTime <- 4, KnownTime <- 2,
  UnknownTime <- 5, MaxIds <- 1,
  MaxProbes <- 2, MaxFaults <- 1, captures <- x1, batches <- x2, videos <- x3,
  cached <- x4, probes <- x5, torrents <- x6, items <- x7, queues <- x8, shown <- x9,
  dismissed <- x10, faulty <- x11, browser <- x12, nextId <- x13

Probing == INSTANCE ProbeCache WITH
  Callers <- {"m", "n", "o"}, Pages <- {"p"}, MaxAsks <- 2, MaxLocks <- 4, MaxExpiries <- 1,
  caller <- x1, asks <- x2, probes <- x3, locks <- x4, held <- x5, made <- x6, expired <- x7

List == INSTANCE ItemList WITH
  Count <- 2, Body <- <<"x", "x", "y">>, Group <- {1, 2}, Paths <- {1, 2, 3}, Nil <- Nil,
  MaxCommands <- 2, MaxForeign <- 1, MaxRuns <- 2, up <- x1, items <- x2, jobs <- x3,
  live <- x4, asked <- x5, disk <- x6, outcomes <- x7, handler <- x8, doomed <- x9,
  remembered <- x10, atWork <- x11, announced <- x12, disturbed <- x13, used <- x14

Torrent == INSTANCE Torrents WITH
  Items <- {i1, i2}, TorrentOf <- BothTheSame, Folders <- {"d", "e"}, Nil <- Nil,
  MaxStarts <- 2, MaxMoves <- 1, MaxRefusals <- 0, MaxKills <- 1, MaxDeletes <- 1, item <- x1,
  job <- x2, session <- x3, refused <- x4, carried <- x5, used <- x6

Clock == INSTANCE QueueSchedule WITH
  Queues <- {"q", "r"}, Schedule <- Schedules, DayLength <- 6, WeekLength <- 2, CatchUp <- 3,
  Nil <- Nil, Horizon <- 12, Leaps <- 1 .. 5, MaxBack <- 0, MaxWork <- 2, MaxPower <- 2,
  clock <- x1, seen <- x2, enabled <- x3, running <- x4, busy <- x5, work <- x6, pending <- x7,
  slot <- x8, refused <- x9, done <- x10, fired <- x11, used <- x12

Order == INSTANCE QueueOrder WITH
  Items <- {"a", "b", "c"}, Queues <- {"q"}, Nil <- Nil, Deltas <- {-1, 1, 9}, MaxSteps <- 3,
  queue <- x1, position <- x2, trashed <- x3, exists <- x4, moved <- x5, steps <- x6

Crawl == INSTANCE SiteGrabber WITH
  Projects <- {"p"}, Url <- Site, Excluded <- {"logout"}, StartUrl <- "start", Depth <- 3,
  Scope <- "sameHost", Extensions <- {"zip"}, Embedded <- TRUE, FilesAnyHost <- TRUE,
  PageLimits <- {3, 20}, Concurrency <- 2, FetchSizes <- TRUE, MaxRuns <- 1, MaxErrors <- 1,
  MaxKills <- 1, rows <- x1, flags <- x2, runs <- x3, starts <- x4, errors <- x5, kills <- x6

Browser == INSTANCE BrowserLink WITH
  Messages <- {i1, i2}, MaxInstances <- 2, MaxDeaths <- 1, MaxTimeouts <- 1, app <- x1,
  inst <- x2, file <- x3, stamp <- x4, cached <- x5, lock <- x6, at <- x7, info <- x8,
  quiet <- x9, failure <- x10, reread <- x11, launched <- x12, reply <- x13, host <- x14,
  timeouts <- x15, deaths <- x16, launches <- x17, starts <- x18, handled <- x19, down <- x20

Registry == INSTANCE HostRegistration WITH
  Platforms <- {"windows", "linux", "macos"},
  Browsers <- {"chrome", "opera", "brave", "firefox", "zen"}, Hosts <- {"old", "new"},
  Requests <- {{}, {"chrome"}, {"brave", "zen"}, {"opera"}}, RootSets <- Installed,
  MaxSteps <- 3, platform <- x1, roots <- x2, manifests <- x3, keys <- x4, last <- x5,
  steps <- x6

Settings == INSTANCE SettingsStore WITH
  Callers <- {"window", "tray"}, Limits <- {1}, Connections <- {"c1", "c2"},
  SlotChoices <- {0, 5}, MaxUpdates <- 2, MaxFaults <- 1, settings <- x1, saved <- x2, pc <- x3,
  own <- x4, config <- x5, parts <- x6, ffmpeg <- x7, session <- x8, updates <- x9,
  faults <- x10, stale <- x11

Clipboard == INSTANCE ClipboardMonitor WITH
  Texts <- Copied, Extensions <- {"zip"}, MaxLinks <- 2, Stamped <- TRUE, MaxCopies <- 3,
  MaxFaults <- 1, board <- x1, on <- x2, ask <- x3, pc <- x4, last <- x5, stamp <- x6,
  now <- x7, events <- x8, taken <- x9, read <- x10, early <- x11, faults <- x12

Resolver == INSTANCE LinkResolver WITH GoogleIds <- {"id"}
Hub == INSTANCE HuggingFace WITH LabelOrder <- <<"Q2_K", "Q3_K", "Q4_K_M", "model">>
Posts == INSTANCE PostMedia WITH MaxItems <- 2, Visual <- {"jpg", "mp4"}

------------------------------------------------------------------------------
(* Inputs of the decisions.                                                 *)

Sites == {"drive.google.com", "docs.google.com", "dropbox.com", "pixeldrain.com", "1drv.ms",
          "vik1ngfile.site", "huggingface.co", "github.com", "gitlab.com", "pastebin.com",
          "gist.github.com", "buzzheavier.com", "www.mediafire.com"}
LinkPaths ==
  {<<"file", "d", "id", "view">>, <<"document", "d", "id", "edit">>,
   <<"u", "0", "presentation", "d", "id">>, <<"spreadsheets", "d", "x">>, <<"u", "id">>,
   <<"f", "id">>, <<"id">>, <<"u", "r", "blob", "main", "f">>,
   <<"u", "r", "blob", "main", "blob", "f">>, <<"r", "blob", "main", "f">>,
   <<"u", "r", "-", "blob", "main", "f">>, <<"u", "r", "resolve", "main", "f">>, <<"u", "raw">>}
Queries == {<<>>, <<<<"dl", "0">>, <<"id", "id">>>>, <<<<"id", "x">>, <<"download", "1">>>>}

HubFile == [top |-> "", base |-> "model", mark |-> "", ext |-> "gguf", quant |-> Nil,
            mmproj |-> FALSE, part |-> 0, size |-> 2]
HubFiles == {
  [HubFile EXCEPT !.quant = "Q4_K_M", !.part = 1], [HubFile EXCEPT !.quant = "Q4_K_M", !.part = 2],
  [HubFile EXCEPT !.quant = "Q2_K", !.size = 3], [HubFile EXCEPT !.quant = "Q3_K", !.size = 4],
  [HubFile EXCEPT !.mmproj = TRUE, !.quant = "F16"], [HubFile EXCEPT !.mmproj = TRUE, !.quant = "F32"],
  [HubFile EXCEPT !.ext = "safetensors"], [HubFile EXCEPT !.ext = "safetensors", !.mark = "fp16"],
  [HubFile EXCEPT !.ext = "bin", !.base = "pytorch_model"], [HubFile EXCEPT !.ext = "bin", !.size = 1],
  [HubFile EXCEPT !.ext = "safetensors", !.top = "mlx"], [HubFile EXCEPT !.ext = "onnx", !.top = "onnx"],
  [HubFile EXCEPT !.ext = "json", !.base = "config", !.size = 1]}
ReposOf(sizes) == {r \in SUBSET HubFiles : Cardinality(r) \in sizes}

Address(host, id, ext, size) ==
  [https |-> TRUE, host |-> host, id |-> id, ext |-> ext, format |-> "", size |-> size]
Row(url, ext, id, medium) ==
  [type |-> Posts!File, url |-> url, ext |-> ext, fileId |-> id, medium |-> medium,
   headers |-> {[name |-> "cookie", oneLine |-> TRUE], [name |-> "origin", oneLine |-> TRUE]}]
Rows ==
  {Row(Address("pbs.twimg.com", "a", "jpg", "small"), "jpg", "", 1),
   Row(Address("pbs.twimg.com", "a", "", "large"), "jpg", "", 1),
   Row(Address("cdn", "b", "mp4", ""), "", "", 2), Row(Address("cdn", "b", "mp4", "hd"), "mp4", "", 2),
   Row(Address("cdn", "c", "jpg", "s"), "jpg", "7", 3), Row(Address("cdn2", "d", "jpg", ""), "jpg", "7", 3),
   Row(Address("cdn", "e", "html", ""), "", "", 4),
   [Row(Address("cdn", "f", "jpg", ""), "jpg", "", 5) EXCEPT !.type = 2]}
PostPage == [host |-> "instagram.com", post |-> "p", share |-> FALSE]
Disks == {{<<<<Posts!PostOf(PostPage), 0>>, k>> : k \in 1 .. m} : m \in 0 .. 2}

------------------------------------------------------------------------------
\* Nobody uses the folder.
FolderAtRest == Init /\ \A i \in Items : policy[i] = "rename"

OtherInit ==
  \/ machine = "queueing" /\ Queueing!Init /\ Unused(13)
  \/ machine = "captures" /\ Capturing!Init /\ Unused(13)
  \/ machine = "again" /\ Again!Init /\ Unused(13)
  \/ machine = "probes" /\ Probing!Init /\ Unused(7)
  \/ machine = "list" /\ List!Init /\ Unused(14)
  \/ machine = "torrents" /\ Torrent!Init /\ Unused(6)
  \/ machine = "clock" /\ Clock!Init /\ Unused(12)
  \/ machine = "order" /\ Order!Init /\ Unused(6)
  \/ machine = "crawl" /\ Crawl!Init /\ Unused(6)
  \/ machine = "browser" /\ Browser!Init /\ Unused(20)
  \/ machine = "registry" /\ Registry!Init /\ Unused(6)
  \/ machine = "settings" /\ Settings!Init /\ Unused(11)
  \/ machine = "clipboard" /\ Clipboard!Init /\ Unused(12)
  \/ machine \in {"links", "hub", "posts"} /\ x1 = [kind |-> "none"] /\ Unused(1)

CoreInit ==
  \/ machine = "folder" /\ Init /\ Unused(0)
  \/ OtherInit /\ FolderAtRest

PickLink ==
  \E h \in Sites, p \in LinkPaths, q \in Queries :
    x1' = [kind |-> "link", link |-> Resolver!Link(h, p, q)]

PickRepository ==
  \/ \E r \in ReposOf(1 .. 4), top \in {"", "mlx"} : x1' = [kind |-> "suggest", repo |-> r, top |-> top]
  \/ \E r \in ReposOf({3}), server \in {Hub!DefaultServer, "hub.local"}, n \in {0, 2} :
     \E l \in SUBSET r, d \in SUBSET r :
       x1' = [kind |-> "add", repo |-> r, server |-> server,
              listed |-> {Hub!FileUrl(server, "sha", f) : f \in l},
              disk |-> {[file |-> f, size |-> n] : f \in d}]

PickPost ==
  \E rows \in [1 .. 3 -> Rows] :
    \/ x1' = [kind |-> "rows", rows |-> rows]
    \/ \E s \in [1 .. 2 -> DOMAIN Posts!Entries(rows)], disk \in Disks :
         x1' = [kind |-> "picks", disk |-> disk,
                picks |-> [i \in 1 .. 2 |-> Posts!Numbered(rows)[s[i]]]]

Pick ==
  /\ x1.kind = "none"
  /\ \/ machine = "links" /\ PickLink
     \/ machine = "hub" /\ PickRepository
     \/ machine = "posts" /\ PickPost
  /\ Kept(1)

OtherNext ==
  /\ \/ machine = "queueing" /\ Queueing!Next /\ Kept(13)
     \/ machine = "captures" /\ Capturing!Next /\ Kept(13)
     \/ machine = "again" /\ Again!Next /\ Kept(13)
     \/ machine = "probes" /\ Probing!Next /\ Kept(7)
     \/ machine = "list" /\ List!Next /\ Kept(14)
     \/ machine = "torrents" /\ Torrent!Next /\ Kept(6)
     \/ machine = "clock" /\ Clock!Next /\ Kept(12)
     \/ machine = "order" /\ Order!Next /\ Kept(6)
     \/ machine = "crawl" /\ Crawl!Next /\ Kept(6)
     \/ machine = "browser" /\ Browser!Next /\ Kept(20)
     \/ machine = "registry" /\ Registry!Next /\ Kept(6)
     \/ machine = "settings" /\ Settings!Next /\ Kept(11)
     \/ machine = "clipboard" /\ Clipboard!Next /\ Kept(12)
     \/ machine \in {"links", "hub", "posts"} /\ Pick

CoreNext ==
  /\ machine' = machine
  /\ \/ machine = "folder" /\ Next /\ Kept(0)
     \/ OtherNext /\ UNCHANGED vars

\* Every machine may have done all that its bounds let it do.
CoreSpec == CoreInit /\ [][CoreNext]_allVars

------------------------------------------------------------------------------
(* What the run checks.  Each machine's own module says what its part means.*)

\* Every variable of the machine at work keeps its type; in the manager, each outcome of a job
\* is sent once.
CoreTypeOK ==
  /\ machine = "queueing" => Queueing!TypeOK
  /\ machine = "probes" => Probing!TypeOK
  /\ machine = "folder" => TypeOK
  /\ machine = "list" => List!TypeOK
  /\ machine = "torrents" => Torrent!TypeOK
  /\ machine = "clock" => Clock!TypeOK
  /\ machine = "order" => Order!TypeOK
  /\ machine = "crawl" => Crawl!TypeOK
  /\ machine = "browser" => Browser!TypeOK
  /\ machine = "registry" => Registry!TypeOK
  /\ machine = "settings" => Settings!TypeOK
  /\ machine = "clipboard" => Clipboard!TypeOK

\* Queues (manager/queues.rs): the queue never runs more downloads than it has slots, however
\* the tick, its commands, pauses and outcomes interleave.
AdmittedWithinLimit == machine = "queueing" => Queueing!AdmittedWithinLimit

\* Captures (manager/capture.rs, manager/jobs.rs): a capture that waits for a probe has one, a
\* link that was accepted is shown, downloaded or refused with a word, each is downloaded once
\* whoever answers first, by browser or app, unless the app had to be launched for the answer,
\* and no page is probed twice at once or while a recent answer is there.
CapturesOK ==
  /\ machine = "captures" => /\ Capturing!ProbingHasProbe
                             /\ Capturing!AcceptedIsKept
                             /\ Capturing!DownloadedOnce
  /\ machine = "again" => Again!ProbingHasProbe /\ Again!AcceptedIsKept /\ Again!DownloadedOnce
  /\ machine = "probes" => Probing!ProbedOnce

\* The list (manager/mod.rs, queues.rs, jobs.rs): a row that says at work has a job or an
\* outcome, deleting all duplicates loses no content, a batch is announced once, a torrent
\* whose item has no job is not running, and a move keeps the order of the rest.
ItemListOK ==
  /\ machine = "list" => /\ List!AtWorkHasJob
                         /\ List!DuplicatesHaveOriginal
                         /\ List!BatchCompletesOnce
  /\ machine = "torrents" => Torrent!QuietWithoutJob
  /\ machine = "order" => Order!MoveKeepsOrder

\* What no step may undo (manager/mod.rs, registration.rs): skipping a duplicate keeps its
\* content, what was at work before a restart for an update goes on after it, and registering
\* one browser does not unregister another.
NothingUndone ==
  [][/\ machine = "list" => List!CheckStep /\ List!RestartStep
     /\ machine = "registry" => Registry!OthersStep]_allVars

\* Schedules (scheduler.rs, manager/queues.rs): a tick, however late, starts exactly the queues
\* with a moment since the last one that is young enough, and the next one shown is right.
MomentsFire == [][machine = "clock" => Clock!MomentsStep]_allVars

\* Services beside the manager (ipc.rs, native-host main.rs, registration.rs, settings.rs,
\* clipboard.rs): the app is started once, a message is carried out once and no failure is told
\* of one that was; a registration repairs whatever was there; after updates one at a time the
\* engine runs with the settings that were saved; a copy made while reading fails is not slept
\* through, and a text is offered once.
ServicesOK ==
  /\ machine = "browser" => Browser!LaunchedOnce /\ Browser!HandledOnce /\ Browser!NoFalseAlarm
  /\ machine = "registry" => Registry!RegisterHeals
  /\ machine = "settings" => Settings!AloneInForce
  /\ machine = "clipboard" => Clipboard!NoCopySleptThrough /\ Clipboard!OfferedOnce

\* Where files are found (grabber.rs, resolver.rs, huggingface.rs, gallery.rs, capture.rs): a
\* crawl that ran to its end looked at all it was to look at, within its limit, each page at
\* its distance; a link is resolved to the file it names and no further, one model's files are
\* suggested and what is added is what is missing, and of a post every medium is listed once
\* and every pick has its own file.
AddressesOK ==
  /\ machine = "crawl" => Crawl!CrawlIsComplete /\ Crawl!DepthIsDistance /\ Crawl!LimitIsKept
  /\ (machine = "links" /\ x1.kind = "link") => Resolver!SameFile(x1.link) /\ Resolver!Settled(x1.link)
  /\ machine = "hub" =>
       /\ x1.kind = "suggest" => Hub!SuggestionIsOneModel(x1.repo, x1.top)
       /\ x1.kind = "add" => Hub!AddedIsDownloaded(x1.repo, x1.server, x1.listed, x1.disk)
  /\ machine = "posts" =>
       /\ x1.kind = "rows" => Posts!EachMediumListed(x1.rows)
       /\ x1.kind = "picks" => Posts!EachPickHasItsFile(PostPage, x1.picks, x1.disk, 0)

=============================================================================
