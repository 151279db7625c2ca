----------------------------- MODULE SiteGrabber -----------------------------
(***************************************************************************)
(* The site grabber (prism-core, grabber.rs and manager/grab.rs): the      *)
(* breadth-first crawl of a site in batches of concurrent requests, the    *)
(* collector that stores what a crawl found, and the commands on projects, *)
(* which share one stop flag per project and one row in the database.      *)
(***************************************************************************)
EXTENDS Naturals, SequencesExt

CONSTANTS
  Projects,
  Url,           \* the site: for each URL its host, domain, path, extension, what it
                 \* serves, and the links and embedded media of its page
  Excluded,      \* the URLs with a substring of config.exclude
  StartUrl, Depth, Scope, Extensions, Embedded, FilesAnyHost, Concurrency, FetchSizes,
  PageLimits,    \* values of max_pages
  MaxRuns,       \* bound: crawls started
  MaxErrors,     \* bound: requests that fail, over all crawls
  MaxKills       \* bound: times the app dies

VARIABLES
  rows,     \* the projects in the database: the crawl that wrote the row, 0 for no row,
            \* and whether the row says it runs
  flags,    \* State::grabbers: the crawl a project's CancelFlag belongs to, 0 for none
  runs,     \* the crawls
  starts, errors, kills

vars == <<rows, flags, runs, starts, errors, kills>>

HtmlExtensions == {"html", "htm", "php", "asp", "aspx", "jsp", "shtml", "cgi", ""}

InScope(u) ==
  CASE Scope = "any"        -> TRUE
    [] Scope = "sameHost"   -> Url[u].host = Url[StartUrl].host
    [] Scope = "sameDomain" -> Url[u].domain = Url[StartUrl].domain
    [] Scope = "subPath"    -> Url[u].host = Url[StartUrl].host /\ Url[u].below

IsWantedFile(u) ==
  IF Extensions = {} THEN Url[u].ext \notin HtmlExtensions ELSE Url[u].ext \in Extensions

Follows(u) == u \notin Excluded /\ ~IsWantedFile(u) /\ Url[u].ext \in HtmlExtensions /\ InScope(u)

\* Mutant: the links of the last level are followed.
Deeper_Always(depth) == TRUE
Deeper(depth) == depth < Depth

Collects(u) == IsWantedFile(u) /\ (FilesAnyHost \/ InScope(u))

Candidates(u) ==
  (IF Embedded THEN Url[u].media ELSE <<>>)
    \o SelectSeq(Url[u].links, LAMBDA l : l \notin Excluded /\ IsWantedFile(l))

Urls(visits) == {visits[i].url : i \in DOMAIN visits}

\* Mutant: pages are taken up depth first.
Enqueued_Front(queue, visit) == <<visit>> \o queue
Enqueued(queue, visit) == Append(queue, visit)

(* A page joins the queue at most once, at the depth it is first seen at.  *)
Queued(crawl, page, u) ==
  IF Follows(u) /\ Deeper(page.depth) /\ u \notin crawl.seen
  THEN [crawl EXCEPT !.seen = @ \union {u}, !.queue = Enqueued(@, [url |-> u, depth |-> page.depth + 1])]
  ELSE crawl

Found(crawl, page, u) ==
  IF u \in Urls(crawl.found) THEN crawl
  ELSE [crawl EXCEPT !.found = Append(@, [url |-> u, depth |-> page.depth])]

Visited(crawl, page, failed) ==
  LET counted == [crawl EXCEPT !.pages = @ + 1]
      followed == FoldLeft(LAMBDA c, u : Queued(c, page, u), counted, Url[page.url].links)
  IN  CASE page.url \in failed -> [counted EXCEPT !.cut = TRUE]
        [] page.url \notin failed /\ Url[page.url].serves = "file" -> Found(counted, page, page.url)
        [] OTHER -> FoldLeft(LAMBDA c, u : Found(c, page, u), followed,
                             SelectSeq(Candidates(page.url), Collects))

NoCrawl == [project |-> "", limit |-> 0, at |-> "none", stop |-> FALSE, queue |-> <<>>, batch |-> <<>>,
            seen |-> {}, found |-> <<>>, pages |-> 0, cut |-> FALSE]

TypeOK ==
  /\ rows \in [Projects -> [run : 0..MaxRuns, running : BOOLEAN]]
  /\ flags \in [Projects -> 0..MaxRuns]
  /\ \A r \in 1..MaxRuns :
       /\ runs[r].at \in {"none", "crawl", "fetch", "sizes", "save", "unlist", "done"}
       /\ runs[r].seen \subseteq DOMAIN Url /\ Urls(runs[r].found) \subseteq DOMAIN Url

Init ==
  /\ rows = [p \in Projects |-> [run |-> 0, running |-> FALSE]]
  /\ flags = [p \in Projects |-> 0]
  /\ runs = [r \in 1..MaxRuns |-> NoCrawl]
  /\ starts = 0 /\ errors = 0 /\ kills = 0

Stopped(r) == IF r = 0 THEN runs ELSE [runs EXCEPT ![r].stop = TRUE]

(* start_grabber: the project is new or run again; an invalid start URL    *)
(* or a client that cannot be built ends the crawl before its first page.  *)
StartGrabber(p) ==
  /\ starts < MaxRuns /\ starts' = starts + 1
  /\ rows' = [rows EXCEPT ![p] = [run |-> starts', running |-> TRUE]]
  /\ flags' = [flags EXCEPT ![p] = starts']
  /\ \E valid \in BOOLEAN, limit \in PageLimits :
       runs' = [Stopped(flags[p]) EXCEPT ![starts'] =
                 [NoCrawl EXCEPT !.project = p, !.limit = limit, !.at = "crawl", !.cut = ~valid,
                    !.seen = IF valid THEN {StartUrl} ELSE {},
                    !.queue = IF valid THEN <<[url |-> StartUrl, depth |-> 0]>> ELSE <<>>]]
  /\ UNCHANGED <<errors, kills>>

GoesOn(r) == runs[r].queue # <<>> /\ ~runs[r].stop /\ runs[r].pages < runs[r].limit

(* The next batch leaves the front of the queue.                           *)
Fetch(r) ==
  /\ runs[r].at = "crawl" /\ GoesOn(r)
  /\ LET n == IF Len(runs[r].queue) < Concurrency THEN Len(runs[r].queue) ELSE Concurrency
     IN  runs' = [runs EXCEPT ![r].at = "fetch", ![r].batch = SubSeq(runs[r].queue, 1, n),
                               ![r].queue = SubSeq(@, n + 1, Len(@))]
  /\ UNCHANGED <<rows, flags, starts, errors, kills>>

(* All requests of the batch have ended: their pages are read in order.    *)
Fetched(r) ==
  /\ runs[r].at = "fetch"
  /\ \E failed \in SUBSET Urls(runs[r].batch) :
       /\ errors + Cardinality(failed) <= MaxErrors
       /\ errors' = errors + Cardinality(failed)
       /\ runs' = [runs EXCEPT ![r] =
            FoldLeft(LAMBDA c, page : Visited(c, page, failed), [@ EXCEPT !.at = "crawl", !.batch = <<>>], @.batch)]
  /\ UNCHANGED <<rows, flags, starts, kills>>

(* Finished reached the collector.                                         *)
CrawlEnds(r) ==
  /\ runs[r].at = "crawl" /\ ~GoesOn(r)
  /\ runs' = [runs EXCEPT ![r].at = IF FetchSizes /\ runs[r].found # <<>> THEN "sizes" ELSE "save"]
  /\ UNCHANGED <<rows, flags, starts, errors, kills>>

Sized(r) ==
  /\ runs[r].at = "sizes" /\ runs' = [runs EXCEPT ![r].at = "save"]
  /\ UNCHANGED <<rows, flags, starts, errors, kills>>

Save(r) ==
  /\ runs[r].at = "save"
  /\ rows' = [rows EXCEPT ![runs[r].project] = [run |-> r, running |-> FALSE]]
  /\ runs' = [runs EXCEPT ![r].at = "unlist"]
  /\ UNCHANGED <<flags, starts, errors, kills>>

(* The flag is removed by the project's id, whoever it belongs to.         *)
Unlist(r) ==
  /\ runs[r].at = "unlist"
  /\ flags' = [flags EXCEPT ![runs[r].project] = 0]
  /\ runs' = [runs EXCEPT ![r].at = "done"]
  /\ UNCHANGED <<rows, starts, errors, kills>>

StopGrabber(p) ==
  /\ flags[p] # 0 /\ runs' = Stopped(flags[p])
  /\ UNCHANGED <<rows, flags, starts, errors, kills>>

DeleteProject(p) ==
  /\ rows[p].run # 0
  /\ rows' = [rows EXCEPT ![p] = [run |-> 0, running |-> FALSE]]
  /\ runs' = Stopped(flags[p])
  /\ UNCHANGED <<flags, starts, errors, kills>>

Kill ==
  /\ kills < MaxKills /\ kills' = kills + 1
  /\ flags' = [p \in Projects |-> 0]
  /\ runs' = [r \in 1..MaxRuns |-> IF runs[r].at = "none" THEN runs[r] ELSE [runs[r] EXCEPT !.at = "done", !.cut = TRUE]]
  /\ UNCHANGED <<rows, starts, errors>>

Next ==
  \/ \E p \in Projects : StartGrabber(p) \/ StopGrabber(p) \/ DeleteProject(p)
  \/ \E r \in 1..MaxRuns : Fetch(r) \/ Fetched(r) \/ CrawlEnds(r) \/ Sized(r) \/ Save(r) \/ Unlist(r)
  \/ Kill

Spec == Init /\ [][Next]_vars

-----------------------------------------------------------------------------
(* The pages within n links of the start page, by the definition of        *)
(* distance rather than by a queue.                                        *)
Within[n \in 0..Depth] ==
  IF n = 0 THEN {StartUrl}
  ELSE LET nearer == Within[n - 1]
       IN  nearer \union {u \in UNION {Range(Url[page].links) : page \in {q \in nearer : Url[q].serves = "html"}} : Follows(u)}

FilesWithin ==
  {u \in Within[Depth] : Url[u].serves = "file"} \union
  UNION {{u \in Range(Candidates(page)) : Collects(u)} : page \in {q \in Within[Depth] : Url[q].serves = "html"}}

Uncut(r) == runs[r].at \in {"sizes", "save", "unlist", "done"} /\ ~runs[r].cut /\ runs[r].queue = <<>>

(* A crawl that was neither stopped nor met an error or its page limit     *)
(* lists every file that a page within the depth limit links to, no other  *)
(* file, and none twice (crawl: queue, seen_pages and seen_files).         *)
CrawlIsComplete ==
  \A r \in 1..MaxRuns : Uncut(r) =>
    /\ Urls(runs[r].found) = FilesWithin
    /\ Cardinality(FilesWithin) = Len(runs[r].found)

(* The batches keep the order of a breadth-first search: without errors,   *)
(* a page is queued at its distance from the start page.                   *)
DepthIsDistance ==
  \A r \in 1..MaxRuns : ~runs[r].cut =>
    \A visit \in Range(runs[r].queue) \union Range(runs[r].batch) :
      visit.url \in Within[visit.depth] /\ (visit.depth > 0 => visit.url \notin Within[visit.depth - 1])

(* The page limit, read before each batch, is passed by less than a batch. *)
LimitIsKept == \A r \in 1..MaxRuns : runs[r].at # "none" => runs[r].pages < runs[r].limit + Concurrency

(* A crawl that still asks for pages can be stopped: its flag is the one   *)
(* the project's stop command sets, or it is set already (CancelFlag,      *)
(* "Handle to stop a running crawl").                                      *)
RunningCrawlStops ==
  \A r \in 1..MaxRuns :
    runs[r].at \in {"crawl", "fetch"} /\ ~runs[r].stop => flags[runs[r].project] = r
=============================================================================
