------------------------------ MODULE Captures ------------------------------
(***************************************************************************)
(* How downloads get into the list (prism-core, manager/capture.rs): links *)
(* handed over by the browser extension, typed or copied by the user, in   *)
(* batches, videos and torrents; the dialogs that wait for an answer, and  *)
(* the probes that fill them in meanwhile.                                 *)
(*                                                                         *)
(* A link is one of its class (Classes); what a capture came from, `by`,   *)
(* is the browser's download or the number the app gave the capture.       *)
(***************************************************************************)
EXTENDS Naturals, FiniteSets

CONSTANTS
  Tasks,        \* downloads the browser starts
  Links,        \* the links that occur, a subset of Classes
  UserLinks,    \* those the user captures
  BatchLinks,   \* those of batches
  ShowDialog,   \* the values settings.general.show_capture_dialog may have
  TryTime,      \* TRY_LINK_TIME of the app
  LaunchTime,   \* LAUNCH_WAIT of the native host, its look at the app's health included
  KnownTime, UnknownTime,   \* actionTimeout of the extension: the app is known to be up, or not
  MaxIds,       \* bound: captures and windows
  MaxProbes,    \* bound: probes of one capture
  MaxFaults     \* bound: database and disk failures

(* "share" is a link the resolver turns into "file"; "page" and "repo" are *)
(* a file's page and a model on Hugging Face; the torrent engine finds     *)
(* nothing behind "fake"; "blocked" answers only the browser.              *)
Classes == {"file", "share", "page", "repo", "watch", "magnet", "torrent", "fake", "blocked"}
TorrentLinks == {"magnet", "torrent", "fake"}
Resolved(link) == IF link = "share" THEN "file" ELSE link
FileOf(link) == IF link = "page" THEN "file" ELSE link

NotOffered == [at |-> "none", link |-> "none", age |-> 0, asked |-> 0, patience |-> 0,
               launched |-> FALSE, gaveUp |-> FALSE]
Ids == 1 .. MaxIds
None == [link |-> "none"]
New(link, kind, get, by) == [link |-> link, kind |-> kind, get |-> get, by |-> by]

VARIABLES
  captures,   \* State::captures
  batches,    \* State::batches: the links of each
  videos,     \* State::videos: the page of each, or "none"
  cached,     \* the pages State::video_probes has formats of
  probes,     \* probes under way, and of which capture
  torrents,   \* tasks of open_torrent_link
  items,      \* the downloads added
  queues,     \* queues made for playlists, and whether they run
  shown,      \* windows opened for a capture
  dismissed,  \* captures the user has turned down
  faulty,     \* captures whose database or disk write failed
  browser,    \* the browser's downloads: what was asked of the app, for how long
  nextId

stored == <<items, queues, faulty>>
vars == <<captures, batches, videos, cached, probes, torrents, stored, shown, dismissed, browser, nextId>>

NewIds(k) == nextId + k - 1 <= MaxIds /\ nextId' = nextId + k
Failing == Cardinality(faulty) < MaxFaults

Init ==
  /\ captures = [id \in Ids |-> None] /\ batches = [id \in Ids |-> {}]
  /\ videos = [id \in Ids |-> "none"] /\ cached = {}
  /\ probes = {} /\ torrents = {} /\ items = {} /\ queues = {} /\ faulty = {}
  /\ shown = {} /\ dismissed = {}
  /\ browser = [t \in Tasks |-> NotOffered]
  /\ nextId = 1

---------------------------------------------------------------------------
(* Adding items: the rows are stored first; the whole call may fail.       *)

Item(id, n, entry, queue) ==
  [id |-> id, by |-> n.by, link |-> n.link, entry |-> entry, queue |-> queue,
   kind |-> IF n.kind # "any" THEN n.kind ELSE IF n.link \in TorrentLinks THEN "torrent" ELSE "http"]

NextItem == Cardinality(items) + 1
AddOne(n) == items' = items \cup {Item(NextItem, n, 1, "none")} /\ UNCHANGED <<queues, faulty>>
AddFails(by) == Failing /\ faulty' = faulty \cup {by} /\ UNCHANGED <<items, queues>>

---------------------------------------------------------------------------
(* The dialogs.                                                            *)

OpenVideo(id, page) == videos' = [videos EXCEPT ![id] = page]

Pending(n, probing) ==
  [link |-> n.link, kind |-> n.kind, by |-> n.by, probing |-> probing,
   error |-> FALSE, needsAuth |-> FALSE, asked |-> 1]

Answered(c, answer) ==
  [c EXCEPT !.probing = FALSE,
            !.error = @ \/ answer # "ok",
            !.needsAuth = IF answer = "ok" THEN @ ELSE answer = "auth"]

(* capture_probed: a model, a video page and a torrent have windows of     *)
(* their own; everything else gets the Download File dialog, filled in by  *)
(* the answer the link gave already (`probed`) or by a probe.              *)
CaptureProbed(id, n, source, probed) ==
  LET free == n.kind = "any" /\ n.get
      resolved == IF free THEN Resolved(n.link) ELSE n.link
      link == IF free THEN FileOf(resolved) ELSE resolved
      m == [n EXCEPT !.link = link]
      answer == IF link = n.link THEN probed ELSE "none"
  IN CASE free /\ link = "repo" ->
            shown' = shown \cup {n.by} /\ UNCHANGED <<captures, videos, probes, torrents>>
       [] source # "browser" /\ link = "watch" ->
            OpenVideo(id, link) /\ shown' = shown \cup {n.by}
            /\ UNCHANGED <<captures, probes, torrents>>
       [] free /\ link \in TorrentLinks ->
            torrents' = torrents \cup {[n |-> m, source |-> source, mode |-> "ask"]}
            /\ UNCHANGED <<captures, videos, probes, shown>>
       [] OTHER ->
            LET c == Pending(m, m.kind = "http" \/ (m.kind = "any" /\ link \notin TorrentLinks)) IN
            /\ captures' = [captures EXCEPT ![id] =
                              IF c.probing /\ answer # "none" THEN Answered(c, answer) ELSE c]
            /\ probes' = IF c.probing /\ answer = "none"
                         THEN probes \cup {[id |-> id, nth |-> 1]} ELSE probes
            /\ UNCHANGED <<videos, torrents, shown>>

(* A link typed, dropped or copied by the user.                            *)
CaptureByUser(link) ==
  /\ NewIds(1)
  /\ CaptureProbed(nextId, New(link, "any", TRUE, nextId), "manual", "none")
  /\ UNCHANGED <<batches, cached, stored, dismissed, browser>>

(* probe_capture and apply_probe: what the server said of the link, if     *)
(* the dialog is still there.                                              *)
\* Mutant: an answer that is an error leaves the dialog waiting.
ApplyProbe_KeepsWaiting(c, answer) == IF answer = "ok" THEN Answered(c, answer) ELSE c
ApplyProbe(c, answer) == Answered(c, answer)

ProbeAnswers(p) ==
  /\ p \in probes
  /\ probes' = probes \ {p}
  /\ IF captures[p.id] = None THEN UNCHANGED captures
     ELSE \E answer \in {"ok", "error", "auth"} :
            captures' = [captures EXCEPT ![p.id] = ApplyProbe(@, answer)]
  /\ UNCHANGED <<batches, videos, cached, torrents, stored, shown, dismissed, browser, nextId>>

ReprobeCapture(id) ==
  /\ captures[id] # None /\ captures[id].asked < MaxProbes
  /\ captures' = [captures EXCEPT ![id].probing = TRUE, ![id].error = FALSE, ![id].asked = @ + 1]
  /\ probes' = probes \cup {[id |-> id, nth |-> captures[id].asked + 1]}
  /\ UNCHANGED <<batches, videos, cached, torrents, stored, shown, dismissed, browser, nextId>>

CancelCapture(id) ==
  /\ captures[id] # None
  /\ captures' = [captures EXCEPT ![id] = None]
  /\ dismissed' = dismissed \cup {captures[id].by}
  /\ UNCHANGED <<batches, videos, cached, probes, torrents, stored, shown, browser, nextId>>

(* The capture is taken out of the list first: the answer of a second      *)
(* dialog finds it expired.                                                *)
\* Mutant: the capture is read and forgotten only by the dialog's closing.
Taken_Read(id) == UNCHANGED captures
Taken(id) == captures' = [captures EXCEPT ![id] = None]

ConfirmCapture(id) ==
  /\ captures[id] # None
  /\ Taken(id)
  /\ LET n == New(captures[id].link, captures[id].kind, TRUE, captures[id].by) IN
     AddOne(n) \/ AddFails(n.by)
  /\ UNCHANGED <<batches, videos, cached, probes, torrents, shown, dismissed, browser, nextId>>

---------------------------------------------------------------------------
(* Batches.                                                                *)

\* Mutant: links are compared before they are resolved.
Entries_AsGiven(links) == {<<l, Resolved(l)>> : l \in links}
Entries(links) == {<<Resolved(l), Resolved(l)>> : l \in links}

OpenBatch(links) ==
  /\ links # {} /\ NewIds(1)
  /\ batches' = [batches EXCEPT ![nextId] = Entries(links)]
  /\ UNCHANGED <<captures, videos, cached, probes, torrents, stored, shown, dismissed, browser>>

CancelBatch(id) ==
  /\ batches[id] # {}
  /\ batches' = [batches EXCEPT ![id] = {}]
  /\ UNCHANGED <<captures, videos, cached, probes, torrents, stored, shown, dismissed, browser, nextId>>

Numbered(S) == CHOOSE f \in [S -> 1 .. Cardinality(S)] : \A x, y \in S : x # y => f[x] # f[y]

ConfirmBatch(id, wanted) ==
  LET chosen == {e \in batches[id] : e[2] \in wanted}
      number == Numbered(chosen)
  IN /\ batches[id] # {}
     /\ batches' = [batches EXCEPT ![id] = {}]
     /\ \/ /\ items' = items \cup {Item(NextItem + number[e] - 1, New(e[2], "any", TRUE, id), 1, "none")
                                     : e \in chosen}
           /\ UNCHANGED <<queues, faulty>>
        \/ AddFails(id)
     /\ UNCHANGED <<captures, videos, cached, probes, torrents, shown, dismissed, browser, nextId>>

(* Copied links with the question turned off: files go straight into the   *)
(* list, video pages still ask.                                            *)
AddCopiedLinks(link) ==
  /\ NewIds(1)
  /\ IF link = "watch"
     THEN CaptureProbed(nextId, New(link, "any", TRUE, nextId), "clipboard", "none") /\ UNCHANGED stored
     ELSE /\ AddOne(New(link, "any", TRUE, nextId)) \/ AddFails(nextId)
          /\ UNCHANGED <<captures, videos, probes, torrents, shown>>
  /\ UNCHANGED <<batches, cached, dismissed, browser>>

---------------------------------------------------------------------------
(* Torrents: a link is fetched first; one that gives no torrent is an      *)
(* ordinary download after all.                                            *)

\* Mutant: a link without a torrent behind it is only logged.
NoTorrent_Logged(id, task) == UNCHANGED <<captures, videos, probes, shown, stored>>
NoTorrent(id, task) ==
  LET n == [task.n EXCEPT !.kind = "http"] IN
  IF task.mode = "ask"
  THEN /\ captures' = [captures EXCEPT ![id] = Pending(n, TRUE)]
       /\ probes' = probes \cup {[id |-> id, nth |-> 1]}
       /\ UNCHANGED <<videos, shown, stored>>
  ELSE /\ AddOne(n) \/ AddFails(n.by)
       /\ UNCHANGED <<captures, videos, probes, shown>>

AddTorrent(n) == AddOne([n EXCEPT !.kind = "torrent"]) \/ AddFails(n.by)

OpenTorrentLink(task) ==
  /\ task \in torrents
  /\ IF task.n.link = "fake" /\ task.mode = "ask" THEN NewIds(1) ELSE UNCHANGED nextId
  /\ torrents' = torrents \ {task}
  /\ IF task.n.link = "fake" THEN NoTorrent(nextId, task)
     ELSE /\ UNCHANGED <<captures, videos, probes>>
          /\ IF task.mode = "ask"
             THEN \/ shown' = shown \cup {task.n.by} /\ UNCHANGED stored
                  \/ task.n.link = "torrent" /\ AddFails(task.n.by) /\ UNCHANGED shown
             ELSE AddTorrent(task.n) /\ UNCHANGED shown
  /\ UNCHANGED <<batches, cached, dismissed, browser>>

---------------------------------------------------------------------------
(* Videos.                                                                 *)

ProbeVideo(page) ==
  /\ cached' = cached \cup {page}
  /\ UNCHANGED <<captures, batches, videos, probes, torrents, stored, shown, dismissed, browser, nextId>>

CancelVideo(id) ==
  /\ videos[id] # "none"
  /\ videos' = [videos EXCEPT ![id] = "none"]
  /\ UNCHANGED <<captures, batches, cached, probes, torrents, stored, shown, dismissed, browser, nextId>>

PlaylistQueue(oneAtATime) ==
  IF oneAtATime THEN [name |-> "one-at-a-time", max |-> 1] ELSE [name |-> "playlist-downloads", max |-> 2]

(* A single video, or the picked entries of a playlist in a bounded queue. *)
ConfirmVideo(id, entries, oneAtATime, mode) ==
  /\ videos[id] # "none"
  /\ videos' = [videos EXCEPT ![id] = "none"]
  /\ LET n == New(videos[id], "video", TRUE, id)
         q == PlaylistQueue(oneAtATime)
     IN \/ entries = 0 /\ AddOne(n)
        \/ /\ entries > 0
           /\ queues' = {r \in queues : r.name # q.name}
                        \cup {[name |-> q.name, max |-> q.max,
                               running |-> mode = "now" \/ \E r \in queues : r.name = q.name /\ r.running]}
           /\ items' = items \cup {Item(NextItem + k - 1, n, k, q.name)
                                     : k \in 1 .. entries}
           /\ UNCHANGED faulty
        \/ AddFails(id)
  /\ UNCHANGED <<captures, batches, cached, probes, torrents, shown, dismissed, browser, nextId>>

---------------------------------------------------------------------------
(* Messages of the browser extension (handle_message).                     *)

(* The extension holds the browser's download and asks the app.  How long  *)
(* it waits for the answer depends on the state of the connection it has   *)
(* in mind; whether the app is up is another matter, and if it is not, the *)
(* native host launches it first.                                          *)
Offer(t, link) ==
  /\ browser[t].at = "none" /\ link \in Links
  /\ \E patience \in {KnownTime, UnknownTime}, up \in BOOLEAN :
       browser' = [browser EXCEPT ![t] =
                     [NotOffered EXCEPT !.at = IF up THEN "trying" ELSE "launching",
                                        !.link = link, !.patience = patience, !.launched = ~up]]
  /\ UNCHANGED <<captures, batches, videos, cached, probes, torrents, stored, shown, dismissed, nextId>>

(* The answer.  The link and the clock are not looked at after it.         *)
Reply(t, accepted) ==
  browser' = [browser EXCEPT ![t] =
                [NotOffered EXCEPT !.at = IF accepted THEN "handed" ELSE "kept",
                                   !.gaveUp = browser[t].gaveUp,
                                   !.launched = browser[t].gaveUp /\ browser[t].launched]]

(* ensure_running: the app is up and gets the message, or does not start.  *)
LaunchEnds(t) ==
  /\ browser[t].at = "launching"
  /\ \/ Reply(t, FALSE)
     \/ browser' = [browser EXCEPT ![t].at = "trying", ![t].asked = browser[t].age]
  /\ UNCHANGED <<captures, batches, videos, cached, probes, torrents, stored, shown, dismissed, nextId>>

(* The link is tried before the browser is told; no answer within TryTime  *)
(* is no answer.                                                           *)
Outcomes(t, get) ==
  IF ~get \/ browser[t].link = "magnet" THEN {"none"}
  ELSE IF browser[t].link = "blocked" THEN {"blocked", "none"} ELSE {"ok", "error", "none"}

Download(t, tried, get, dialog) ==
  /\ browser[t].at = "trying" /\ tried \in Outcomes(t, get) /\ NewIds(1)
  /\ LET n == New(browser[t].link, "any", get, t) IN
     CASE get /\ n.link = "repo" ->
            shown' = shown \cup {t} /\ Reply(t, TRUE)
            /\ UNCHANGED <<captures, videos, probes, torrents, stored>>
       [] tried = "blocked" ->
            Reply(t, FALSE) /\ UNCHANGED <<captures, videos, probes, torrents, shown, stored>>
       [] get /\ n.link \in TorrentLinks ->
            torrents' = torrents \cup {[n |-> n, source |-> "browser", mode |-> IF dialog THEN "ask" ELSE "now"]}
            /\ Reply(t, TRUE) /\ UNCHANGED <<captures, videos, probes, shown, stored>>
       [] OTHER ->
            IF dialog
            THEN CaptureProbed(nextId, n, "browser", tried) /\ Reply(t, TRUE) /\ UNCHANGED stored
            ELSE /\ UNCHANGED <<captures, videos, probes, torrents, shown>>
                 /\ \/ AddOne(n) /\ Reply(t, TRUE)
                    \/ AddFails(t) /\ Reply(t, FALSE)
  /\ UNCHANGED <<batches, cached, dismissed>>

(* Time passes, of which launching and trying the link take only so much.  *)
\* Mutant: the link is tried for as long as the server takes.
MayWait_Forever(t) == browser[t].age < UnknownTime
MayWait(t) ==
  browser[t].age < IF browser[t].at = "launching" THEN LaunchTime ELSE browser[t].asked + TryTime

Wait(t) ==
  /\ browser[t].at \in {"launching", "trying"} /\ MayWait(t)
  /\ browser' = [browser EXCEPT ![t].age = @ + 1]
  /\ UNCHANGED <<captures, batches, videos, cached, probes, torrents, stored, shown, dismissed, nextId>>

(* The extension lets the browser go on by itself.  Nobody tells the host  *)
(* or the app.                                                             *)
GiveUp(t) ==
  /\ browser[t].at \in {"launching", "trying"} /\ ~browser[t].gaveUp
  /\ browser[t].age >= browser[t].patience
  /\ browser' = [browser EXCEPT ![t].gaveUp = TRUE]
  /\ UNCHANGED <<captures, batches, videos, cached, probes, torrents, stored, shown, dismissed, nextId>>

(* A choice made in the page's menu: the dialog, or straight into the list.*)
FromMenu(n, dialog) ==
  /\ IF dialog
     THEN CaptureProbed(nextId, n, "browser", "none") /\ UNCHANGED stored
     ELSE /\ AddOne(n) \/ AddFails(n.by)
          /\ UNCHANGED <<captures, videos, probes, torrents, shown>>
  /\ UNCHANGED <<batches, cached, dismissed, browser>>

(* "video" with a format: of the formats cached for the page, or by its    *)
(* number alone; with a stream seen on the page: that stream.              *)
FormatMessage(dialog) ==
  /\ NewIds(1)
  /\ FromMenu(New("watch", "video", TRUE, nextId), dialog)

StreamMessage(kind, dialog) ==
  /\ NewIds(1)
  /\ FromMenu(New("file", kind, TRUE, nextId), dialog)

BatchMessage(links) == OpenBatch({l \in links : l \in Links})

(* "addPostMedia": the selected files of one post, each once.              *)
AddPostMedia(count) ==
  /\ NewIds(1)
  /\ \/ /\ items' = items \cup {Item(NextItem + k - 1, New("file", "http", TRUE, nextId), k, "none")
                                  : k \in 1 .. count}
        /\ UNCHANGED <<queues, faulty>>
     \/ AddFails(nextId)
  /\ UNCHANGED <<captures, batches, videos, cached, probes, torrents, shown, dismissed, browser>>

OpenVideoUrl ==
  /\ NewIds(1)
  /\ OpenVideo(nextId, "watch") /\ shown' = shown \cup {nextId}
  /\ UNCHANGED <<captures, batches, cached, probes, torrents, stored, dismissed, browser>>

---------------------------------------------------------------------------
Next ==
  \/ \E link \in UserLinks : CaptureByUser(link) \/ AddCopiedLinks(link)
  \/ \E p \in probes : ProbeAnswers(p)
  \/ \E id \in Ids : \/ ReprobeCapture(id)
                     \/ ConfirmCapture(id) \/ CancelCapture(id) \/ CancelBatch(id) \/ CancelVideo(id)
                     \/ \E wanted \in SUBSET BatchLinks : ConfirmBatch(id, wanted)
                     \/ \E entries \in {0, 2}, one \in BOOLEAN, mode \in {"now", "later"} :
                          ConfirmVideo(id, entries, one, mode)
  \/ \E links \in SUBSET BatchLinks : BatchMessage(links)
  \/ \E task \in torrents : OpenTorrentLink(task)
  \/ ProbeVideo("watch") \/ OpenVideoUrl
  \/ \E dialog \in ShowDialog :
       FormatMessage(dialog) \/ \E kind \in {"hls", "dash", "http"} : StreamMessage(kind, dialog)
  \/ \E count \in 1 .. 2 : AddPostMedia(count)
  \/ \E t \in Tasks : \/ \E link \in Links : Offer(t, link)
                      \/ \E tried \in {"ok", "error", "none", "blocked"}, get \in BOOLEAN, dialog \in ShowDialog :
                           Download(t, tried, get, dialog)
                      \/ Wait(t) \/ LaunchEnds(t) \/ GiveUp(t)
Spec == Init /\ [][Next]_vars

---------------------------------------------------------------------------
(* A dialog that says it is asking the server has a probe under way that   *)
(* will answer it, whatever probes were retried, failed or overtaken.      *)
ProbingHasProbe ==
  \A id \in Ids : captures[id] # None =>
    (captures[id].probing => \E p \in probes : p.id = id)

HasCapture(t) == \/ \E id \in Ids : captures[id] # None /\ captures[id].by = t
                 \/ \E task \in torrents : task.n.by = t
                 \/ t \in shown \/ \E i \in items : i.by = t

(* What the app accepted is not lost: it is in the list, in a dialog or    *)
(* window that was opened, or on its way there, unless the user turned it  *)
(* down or a write failed.                                                 *)
AcceptedIsKept ==
  \A t \in Tasks : browser[t].at = "handed" => HasCapture(t) \/ t \in dismissed \cup faulty

(* What the app refused, or never got, is the browser's alone; what the    *)
(* browser went on with because no answer came in time is the app's too    *)
(* only if the host had to launch the app for it.  No two answers to one   *)
(* dialog add it twice, and a batch has each link once after resolving.    *)
DownloadedOnce ==
  /\ \A t \in Tasks : browser[t].at = "kept" => ~HasCapture(t)
  /\ \A t \in Tasks : browser[t].gaveUp /\ HasCapture(t) => browser[t].launched
  /\ \A i, j \in items : <<i.by, i.link, i.entry>> = <<j.by, j.link, j.entry>> => i.id = j.id

(* "so the extension's hand-off still answers in time": not while the app  *)
(* is launched.                                                            *)
AnswersInTime == \A t \in Tasks : browser[t].gaveUp => ~HasCapture(t)
=============================================================================
