------------------------------ MODULE YtDlpRun ------------------------------
(***************************************************************************)
(* One call of prism-video's service that runs yt-dlp (lib.rs, probe.rs,   *)
(* process.rs): reading a page, or downloading it.  A call may take        *)
(* several attempts: without the cookies of the browser chosen in the      *)
(* settings when yt-dlp cannot read them, without the page's cookies when  *)
(* YouTube rejects the session.  The settings may change and the call be   *)
(* given up at any point; yt-dlp is a process with a child of its own.     *)
(***************************************************************************)
EXTENDS Naturals, FiniteSets

CONSTANTS
  Kinds,      \* of {"probe", "job"}: VideoService::probe or run_ytdlp
  Sites,      \* of {"youtube", "public", "other"}; "public": public_page_only
  MaxSwitches \* bound: changes of the setting "Cookies from browser"

NoError == [tool |-> FALSE, says |-> {}]
Says == {"unreadable", "rejected", "other"}   \* what yt-dlp's last error line is about

VARIABLES
  kind, site,
  cookies,    \* RequestContext::cookies: "none", "empty" (no pair in it) or "some"
  browser,    \* VideoOptions::cookies_from_browser is set
  at,         \* where the call is
  page,       \* this attempt's context still has cookies
  used,       \* this attempt passes --cookies-from-browser
  first,      \* the error the attempt without browser cookies follows, NoError for none
  hops,       \* redirects this attempt of a probe followed
  procs,      \* processes alive
  code,       \* yt-dlp's exit status was a success
  file,       \* the cookies.txt of the attempt is on disk
  path,       \* run_job's final_path, or the JSON of a probe, has come
  message,    \* what the last error line says
  shown,      \* the status apply_yt_progress gave the item
  given,      \* the call has been given up: cancelled, or its future dropped
  result,     \* what the call returned
  switches,
  tries, rejections   \* history: attempts, and whether one with cookies was rejected

call == <<kind, site, cookies>>
attempt == <<page, used, first, hops>>
heard == <<path, message, shown>>
past == <<tries, rejections>>
vars == <<call, browser, at, attempt, procs, code, file, heard, given, result, switches, past>>

Init ==
  /\ kind \in Kinds /\ site \in Sites /\ cookies \in {"none", "empty", "some"}
  /\ browser \in BOOLEAN
  /\ at = "options" /\ page = (cookies # "none") /\ used = FALSE /\ first = NoError /\ hops = 0
  /\ procs = {} /\ code = FALSE /\ file = FALSE
  /\ path = FALSE /\ message = "other" /\ shown = "Downloading"
  /\ given = FALSE /\ result = [is |-> "none", error |-> NoError]
  /\ switches = 0 /\ tries = 0 /\ rejections = FALSE

---------------------------------------------------------------------------
(* How an attempt ends.                                                    *)

IsCookieReadFailure(e) == e.tool /\ "unreadable" \in e.says
IsRejectedSession(e) == e.tool /\ "rejected" \in e.says
AfterCookieReadFailure(e) ==
  IF e.tool /\ first.tool THEN [e EXCEPT !.says = @ \cup first.says] ELSE e
WithoutPageCookies(e) == page /\ site = "youtube" /\ IsRejectedSession(e)

Return(is, e) == at' = "ended" /\ result' = [is |-> is, error |-> e]

(* An error leads to the next attempt or is the call's.                    *)
Failed(e) ==
  LET full == AfterCookieReadFailure(e) IN
  /\ rejections' = (rejections \/ (page /\ IsRejectedSession(e)))
  /\ IF IsCookieReadFailure(e) /\ used /\ ~first.tool
     THEN at' = "again" /\ first' = e /\ UNCHANGED <<page, result>>
     ELSE IF WithoutPageCookies(full)
     THEN at' = "options" /\ page' = FALSE /\ first' = NoError /\ UNCHANGED result
     ELSE Return("failed", full) /\ UNCHANGED <<page, first>>

---------------------------------------------------------------------------
(* An attempt: the tool is looked up, the cookies are written for it and   *)
(* it is spawned, or one of these fails.                                   *)

WriteCookieFile == page /\ cookies = "some" /\ site # "public"
Spawn ==
  /\ at' = "reading" /\ procs' = {"yt-dlp"} /\ file' = WriteCookieFile
  /\ path' = FALSE /\ message' = "other"
  /\ UNCHANGED <<page, first, result, rejections>>
NotSpawned ==
  Failed([tool |-> FALSE, says |-> {"other"}]) /\ UNCHANGED <<procs, file, path, message>>
Launch ==
  /\ at \in {"options", "again"}
  /\ used' = (at = "options" /\ browser)
  /\ tries' = tries + 1 /\ hops' = 0
  /\ Spawn \/ NotSpawned
  /\ UNCHANGED <<call, browser, code, shown, given, switches>>

(* A line of yt-dlp's output: a stage, the path of the file, an error.     *)
Events == ({"stage"} \X {"Downloading", "Processing"}) \cup {<<"path", "">>} \cup ({"error"} \X Says)
Applied(e) == IF e[1] = "stage" THEN e[2] ELSE shown
Listening == at = "reading" /\ "yt-dlp" \in procs /\ ~(kind = "job" /\ given)
Line ==
  /\ Listening
  /\ \E e \in Events :
       /\ e[1] = "stage" => kind = "job"
       /\ shown' = Applied(e)
       /\ path' = (path \/ e[1] = "path")
       /\ message' = IF e[1] = "error" THEN e[2] ELSE message
  /\ UNCHANGED <<call, browser, at, attempt, procs, code, file, given, result, switches, past>>

(* yt-dlp starts ffmpeg, which normally ends before it, and exits.         *)
StartsFfmpeg ==
  /\ kind = "job" /\ "yt-dlp" \in procs /\ procs' = procs \cup {"ffmpeg"}
  /\ UNCHANGED <<call, browser, at, attempt, code, file, heard, given, result, switches, past>>
Exits(p) ==
  /\ p \in procs /\ procs' = procs \ {p}
  /\ IF p = "yt-dlp" THEN code' \in BOOLEAN /\ (code' => procs' = {}) ELSE UNCHANGED code
  /\ UNCHANGED <<call, browser, at, attempt, file, heard, given, result, switches, past>>

(* The output ends with the last process that holds it, and the status is  *)
(* read.  A probe follows one redirect to another address.                 *)
Closed ==
  /\ at = "reading" /\ procs = {} /\ ~(kind = "job" /\ given)
  /\ at' = "waiting"
  /\ UNCHANGED <<call, browser, attempt, procs, code, file, heard, given, result, switches, past>>
RemoveCookieFile == file' = FALSE
Done == code /\ path /\ Return("done", NoError) /\ UNCHANGED <<page, first, hops, rejections>>
Redirected ==
  /\ kind = "probe" /\ code /\ path /\ hops = 0
  /\ hops' = 1 /\ at' = "redirected"
  /\ UNCHANGED <<page, first, result, rejections>>
(* A second redirect, an answer that is no video's, or a file not named.   *)
Unusable ==
  /\ code /\ path = (kind = "probe")
  /\ Failed([tool |-> FALSE, says |-> {"other"}]) /\ UNCHANGED hops
ToolFailed ==
  /\ ~code \/ (kind = "probe" /\ ~path)
  /\ Failed([tool |-> TRUE, says |-> {message}]) /\ UNCHANGED hops
Status ==
  /\ at = "waiting" /\ ~given
  /\ RemoveCookieFile
  /\ Done \/ Redirected \/ Unusable \/ ToolFailed
  /\ UNCHANGED <<call, browser, used, procs, code, heard, given, switches, tries>>
Redirect ==
  /\ at = "redirected" /\ ~given
  /\ Spawn \/ NotSpawned
  /\ UNCHANGED <<call, browser, used, hops, code, shown, given, switches, tries>>

---------------------------------------------------------------------------
(* Giving up.                                                              *)

\* Mutant: only the direct child is killed.
KillTree_ChildOnly == procs' = procs \ {"yt-dlp"}
KillTree == procs' = {}

GiveUp ==
  /\ ~given /\ at # "ended" /\ given' = TRUE
  /\ UNCHANGED <<call, browser, at, attempt, procs, code, file, heard, result, switches, past>>
(* A job's token is looked at while its output and its status are waited   *)
(* for, before either of them.                                             *)
Cancelled ==
  /\ kind = "job" /\ given /\ at \in {"reading", "waiting"}
  /\ KillTree /\ RemoveCookieFile /\ Return("cancelled", NoError)
  /\ UNCHANGED <<call, browser, attempt, code, heard, given, switches, past>>
(* A probe's future is dropped wherever it is.                             *)
Dropped ==
  /\ kind = "probe" /\ given /\ at # "ended"
  /\ KillTree /\ RemoveCookieFile /\ Return("dropped", NoError)
  /\ UNCHANGED <<call, browser, attempt, code, heard, given, switches, past>>
(* A probe waits five minutes for the output.                              *)
TimedOut ==
  /\ kind = "probe" /\ ~given /\ at = "reading"
  /\ KillTree /\ RemoveCookieFile /\ Failed([tool |-> TRUE, says |-> {"other"}])
  /\ UNCHANGED <<call, browser, used, hops, code, heard, given, switches, tries>>

SetOptions ==
  /\ switches < MaxSwitches /\ browser' = ~browser /\ switches' = switches + 1
  /\ UNCHANGED <<call, at, attempt, procs, code, file, heard, given, result, past>>

---------------------------------------------------------------------------
Service == Launch \/ Closed \/ Status \/ Redirect \/ Cancelled \/ Dropped \/ TimedOut
Next == Service \/ Line \/ StartsFfmpeg \/ (\E p \in procs : Exits(p)) \/ GiveUp \/ SetOptions
Spec == Init /\ [][Next]_vars
(* The call's task is polled; nothing is assumed of yt-dlp.                *)
Fairness == WF_vars(Service)

---------------------------------------------------------------------------
TypeOK ==
  /\ at \in {"options", "again", "reading", "waiting", "redirected", "ended"}
  /\ procs \subseteq {"yt-dlp", "ffmpeg"} /\ hops \in 0 .. 1
  /\ first.says \subseteq Says /\ result.error.says \subseteq Says
  /\ result.is \in {"none", "done", "failed", "cancelled", "dropped"}

(* Nothing of a call outlives it: whatever way it ends, no process of its  *)
(* tree runs on (process.rs: "yt-dlp itself spawns ffmpeg") and the file   *)
(* with the user's cookies is gone (probe.rs: "gone when the job is done").*)
NothingOutlivesCall == at \in {"options", "again", "ended"} => procs = {} /\ ~file

(* An attempt goes without the page's cookies only after YouTube rejected  *)
(* them, and a call ends after four attempts at most.                      *)
SessionGivenUpForCause ==
  /\ ~page /\ cookies # "none" => site = "youtube" /\ rejections
  /\ tries <= 4

(* Who got an error of the attempt without the browser's cookies is told   *)
(* why they were missing (error.rs: "keep both").                          *)
MissingCookiesExplained ==
  result.is = "failed" /\ result.error.tool /\ first.tool => "unreadable" \in result.error.says

CallsOK ==
  /\ NothingOutlivesCall /\ SessionGivenUpForCause /\ MissingCookiesExplained

(* A call that is given up ends, whatever yt-dlp does.                     *)
GivenUp == given
Ended == at = "ended"
GivenUpEnds == GivenUp ~> Ended
=============================================================================
