---------------------------- MODULE HttpDownload ----------------------------
(***************************************************************************)
(* The requests of an HTTP download (prism-engine, http/download.rs,       *)
(* http/fetcher.rs and http/mod.rs): the first request or the validated    *)
(* resume, the source each worker's request goes to (the link, the target  *)
(* it redirects to, a mirror), what is accepted of the answers, retries,   *)
(* a change of the address and the end of the body.                        *)
(*                                                                         *)
(* The part file is a number of blocks and a block holds the version of    *)
(* the resource it was received from.  Who works on which block in general *)
(* is SegmentedTransfer's matter: here a worker takes any missing block.   *)
(***************************************************************************)
EXTENDS Naturals, FiniteSets

CONSTANTS
  Workers,      \* worker ids; 0 makes the first request
  Blocks,       \* blocks of the resource
  Servers,      \* the servers to consider (below)
  Mirrors,      \* {} or {"mirror"}: DownloadRequest::mirrors
  MaxRetries,   \* max_retries
  MaxVersions,  \* bound: versions of the resource
  MaxFaults,    \* bound: answers and connections that fail
  MaxExpiries,  \* bound: redirect targets and links that expire
  MaxStarts     \* bound: runs of the download

ServerKinds == [ranged : BOOLEAN, sized : BOOLEAN, redirects : BOOLEAN,
                validator : {"etag", "date", "none"}]

Links == {"old", "new"}
Own(l) == <<l, 0>>                \* the link itself; <<l, n>> is its n-th target
NoUrl == <<"none", 0>>
MaxSwitches == 2 + Cardinality(Mirrors)

VARIABLES
  server, version, targets, dead,      \* the server's: its current state
  known,       \* the version the Validators are of, or that the run began with if there are none
  probed,      \* HttpCtx::probed
  original, final,                     \* Sources
  validated, benched,                  \* its mirrors
  generation,  \* SegCtx::source_generation
  meta,        \* JobShared::meta and so the resume state: url, final_url
  phase,       \* "off", "probe", "overlap", "first", "run", "done", "failed"
  saved,       \* there is a resume state
  disk,        \* the part file; 0 where nothing was written
  at, unit, req, switches, fails, got, \* the workers'
  checking,    \* the supervisor awaits change_url
  changed, movedAtWork,                \* history: change_url succeeded; the resource changed meanwhile
  faults, expiries, starts

environment == <<server, version, targets, dead>>
sources == <<original, final, validated, benched>>
worker == <<at, unit, req, switches, fails, got>>
history == <<changed, movedAtWork>>
counts == <<faults, expiries, starts>>
vars == <<environment, known, probed, sources, generation, meta, phase, saved, disk, worker,
          checking, history, counts>>

LengthOf(v) == IF server.sized \/ v = 1 THEN Blocks ELSE Blocks - 1
IsMirror(u) == u[1] \in Mirrors
Setup == {"probe", "overlap", "first"}
Missing == {b \in 1..Blocks : disk[b] = 0} \ {unit[w] : w \in Workers}
OthersConnected(w) == \E o \in Workers \ {w} : at[o] = "streaming"

TypeOK ==
  /\ server \in ServerKinds /\ version \in 1..MaxVersions /\ known \in 0..MaxVersions
  /\ disk \in [1..Blocks -> 0..MaxVersions]
  /\ phase \in Setup \cup {"off", "run", "done", "failed"}
  /\ at \in [Workers -> {"idle", "picking", "opening", "streaming", "over"}]
  /\ unit \in [Workers -> 0..(Blocks + 1)] /\ fails \in [Workers -> 0..MaxRetries]
  /\ switches \in [Workers -> 0..MaxSwitches]

Init ==
  /\ server \in Servers /\ version = 1 /\ targets = [l \in Links |-> 1] /\ dead = {}
  /\ known = 0 /\ probed = FALSE /\ original = Own("old") /\ final = NoUrl
  /\ validated = {} /\ benched = {} /\ generation = 0
  /\ meta = [url |-> Own("old"), final |-> NoUrl]
  /\ phase = "off" /\ saved = FALSE /\ disk = [b \in 1..Blocks |-> 0]
  /\ at = [w \in Workers |-> "idle"] /\ unit = [w \in Workers |-> 0]
  /\ req = [w \in Workers |-> NoUrl] /\ switches = [w \in Workers |-> 0]
  /\ fails = [w \in Workers |-> 0] /\ got = [w \in Workers |-> [version |-> 0, generation |-> 0]]
  /\ checking = FALSE /\ changed = FALSE /\ movedAtWork = FALSE
  /\ faults = 0 /\ expiries = 0 /\ starts = 0
-----------------------------------------------------------------------------
(* The server.                                                             *)
Moves ==
  /\ version < MaxVersions
  /\ version' = version + 1
  /\ movedAtWork' = (movedAtWork \/ phase \in Setup \cup {"run"})
  /\ UNCHANGED <<server, targets, dead, known, probed, sources, generation, meta, phase, saved,
                 disk, worker, checking, changed, counts>>

Expires(l) ==
  /\ expiries < MaxExpiries /\ expiries' = expiries + 1
  /\ \/ server.redirects /\ targets' = [targets EXCEPT ![l] = @ + 1] /\ UNCHANGED dead
     \/ l = "old" /\ dead' = dead \cup {l} /\ UNCHANGED targets
  /\ UNCHANGED <<server, version, known, probed, sources, generation, meta, phase, saved, disk,
                 worker, checking, history, faults, starts>>

(* What a request that arrives now is answered: a mirror of the same size  *)
(* is taken to have the content the run began with.                        *)
Serves(u) == u[1] \in Links => u[1] \notin dead /\ u[2] \in {0, targets[u[1]]}
EndsAt(u) == IF server.redirects /\ ~IsMirror(u) THEN <<u[1], targets[u[1]]>> ELSE u
Content(u) == IF IsMirror(u) THEN known ELSE version
IfRange(p) == p = "first" /\ server.validator # "none"
Partial(u, p) == server.ranged /\ (IfRange(p) => Content(u) = known)
Fault == faults < MaxFaults /\ faults' = faults + 1 /\ UNCHANGED <<expiries, starts>>
-----------------------------------------------------------------------------
(* The start of a run: with a resume state the part file is continued,     *)
(* without one (or when byte ranges do not work) it is started over.       *)
Start ==
  /\ phase \in {"off", "failed"} /\ starts < MaxStarts
  /\ starts' = starts + 1
  /\ probed' = FALSE /\ validated' = {} /\ benched' = {} /\ changed' = FALSE
  /\ at' = [w \in Workers |-> IF w = 0 THEN "picking" ELSE "idle"]
  /\ unit' = [w \in Workers |-> 0] /\ fails' = [w \in Workers |-> 0]
  /\ switches' = [w \in Workers |-> 0]
  /\ original' = meta.url
  /\ \/ /\ saved
        /\ final' = meta.final
        /\ phase' = IF server.validator = "none" /\ \E b \in 1..Blocks : disk[b] # 0
                    THEN "overlap" ELSE "first"
        /\ UNCHANGED <<known, disk>>
     \/ /\ ~saved
        /\ final' = NoUrl
        /\ phase' = "probe" /\ known' = 0 /\ disk' = [b \in 1..Blocks |-> 0]
  /\ UNCHANGED <<environment, generation, meta, saved, req, got, checking, movedAtWork,
                 faults, expiries>>

(* Pause: the workers end, a request of change_url is dropped.             *)
Pause ==
  /\ phase \in Setup \cup {"run"}
  /\ phase' = "off" /\ checking' = FALSE
  /\ saved' = IF phase = "run" THEN server.ranged ELSE saved
  /\ at' = [w \in Workers |-> "idle"] /\ unit' = [w \in Workers |-> 0]
  /\ UNCHANGED <<environment, known, probed, sources, generation, meta, disk, req, switches,
                 fails, got, history, counts>>

(* ResumeState::with_url, the new address of a download that does not run. *)
WithUrl ==
  /\ phase \in {"off", "failed"} /\ saved /\ meta.url # Own("new")
  /\ meta' = [url |-> Own("new"), final |-> NoUrl]
  /\ UNCHANGED <<environment, known, probed, sources, generation, phase, saved, disk, worker,
                 checking, history, counts>>

(* A worker that has nothing to do takes a block.                          *)
Take(w) ==
  /\ phase = "run" /\ at[w] = "idle" /\ server.ranged
  /\ \E b \in Missing : unit' = [unit EXCEPT ![w] = b]
  /\ at' = [at EXCEPT ![w] = "picking"]
  /\ switches' = [switches EXCEPT ![w] = 0]
  /\ UNCHANGED <<environment, known, probed, sources, generation, meta, phase, saved, disk, req,
                 fails, got, checking, history, counts>>

(* Sources::pick: the workers are spread over the link and the mirrors in  *)
(* use.  The first request of a fresh download goes to the link itself.    *)
Usable == validated \ benched
Picked(w) ==
  IF phase = "probe" THEN original
  ELSE IF Usable # {} /\ w % 2 = 1 THEN Own("mirror")
  ELSE IF final # NoUrl THEN final ELSE original
Pick(w) ==
  /\ at[w] = "picking"
  /\ at' = [at EXCEPT ![w] = "opening"]
  /\ req' = [req EXCEPT ![w] = Picked(w)]
  /\ UNCHANGED <<environment, known, probed, sources, generation, meta, phase, saved, disk, unit,
                 switches, fails, got, checking, history, counts>>

(* on_redirected: the target is remembered when it is not the link.        *)
Redirected(u) == IF ~IsMirror(u) /\ EndsAt(u) # original THEN EndsAt(u) ELSE final

MaySwitch(w) == switches[w] < MaxSwitches
Switch(w) ==
  /\ MaySwitch(w)
  /\ at' = [at EXCEPT ![w] = "picking"]
  /\ switches' = [switches EXCEPT ![w] = @ + 1]
  /\ UNCHANGED <<unit, req, fails, got>>

(* An error ends the whole run: its segments are kept to resume from.      *)
Fatal ==
  /\ phase' = "failed" /\ checking' = FALSE
  /\ saved' = IF phase = "run" THEN server.ranged ELSE saved
  /\ at' = [w \in Workers |-> "idle"] /\ unit' = [w \in Workers |-> 0]
  /\ UNCHANGED <<req, switches, fails, got>>

\* Mutant: the restarted body is appended to the one before.
Restarted_Appends(w) == unit
(* A stream without byte ranges can only restart from zero.                *)
Restarted(w) == IF server.ranged \/ phase # "run" THEN unit ELSE [unit EXCEPT ![w] = 1]

(* with_retries and Worker::on_failure for an error that may pass.         *)
Retry(w) ==
  /\ fails[w] < MaxRetries
  /\ fails' = [fails EXCEPT ![w] = @ + 1]
  /\ at' = [at EXCEPT ![w] = "picking"]
  /\ switches' = [switches EXCEPT ![w] = 0]
  /\ unit' = Restarted(w)
  /\ UNCHANGED <<req, got, phase, saved, checking>>
GiveUp(w) ==
  /\ fails[w] = MaxRetries
  /\ IF phase = "run" /\ server.ranged /\ \E o \in Workers \ {w} : at[o] # "over"
     THEN /\ at' = [at EXCEPT ![w] = "over"] /\ unit' = [unit EXCEPT ![w] = 0]
          /\ UNCHANGED <<req, switches, fails, got, phase, saved, checking>>
     ELSE Fatal
(* A refused connection is given back while another one works.             *)
Refused(w) ==
  /\ phase = "run" /\ OthersConnected(w)
  /\ at' = [at EXCEPT ![w] = "idle"] /\ unit' = [unit EXCEPT ![w] = 0]
  /\ UNCHANGED <<req, switches, fails, got, phase, saved, checking>>
-----------------------------------------------------------------------------
(* The answer to a request.                                                *)
Opening(w) == at[w] = "opening"
SourcesAfter(u) == final' = Redirected(u) /\ UNCHANGED <<original, validated>>
Bench(w) == benched' = benched \cup {"mirror"}

(* accept_partial compares the strong ETag of the primary source; the      *)
(* answer to a conditional request is complete when the resource changed.  *)
\* Mutant: only the total size is compared.
SameTag_Any(u) == TRUE
SameTag(u) == server.validator = "etag" /\ ~IsMirror(u) => version = known

Stream(w, u) ==
  /\ at' = [at EXCEPT ![w] = "streaming"]
  /\ got' = [got EXCEPT ![w] = [version |-> Content(u), generation |-> generation]]
  /\ probed' = TRUE

(* The first answer of a fresh download decides how it is downloaded.      *)
ProbeAnswered == Opening(0) /\ phase = "probe" /\ Serves(req[0])
Probed ==
  /\ ProbeAnswered
  /\ SourcesAfter(req[0]) /\ UNCHANGED benched
  /\ known' = version
  /\ meta' = [meta EXCEPT !.final = Redirected(req[0])]
  /\ Stream(0, req[0])
  /\ phase' = "run" /\ unit' = [unit EXCEPT ![0] = 1] /\ fails' = [fails EXCEPT ![0] = 0]
  /\ UNCHANGED <<environment, generation, saved, disk, req, switches, checking, history, counts>>

(* A partial answer.  verify_overlap only compares it with the part file.  *)
Accepted(w) ==
  LET u == req[w] IN
  /\ Opening(w) /\ phase # "probe" /\ Serves(u) /\ Partial(u, phase) /\ SameTag(u)
  /\ SourcesAfter(u) /\ UNCHANGED benched
  /\ \/ /\ phase = "overlap"
        /\ \E b \in {b \in 1..Blocks : disk[b] # 0} :
             IF disk[b] = version
             THEN /\ phase' = "first" /\ at' = [at EXCEPT ![w] = "picking"]
                  /\ switches' = [switches EXCEPT ![w] = 0] /\ fails' = [fails EXCEPT ![w] = 0]
                  /\ UNCHANGED <<unit, req, got, saved, checking>>
             ELSE Fatal
        /\ probed' = TRUE /\ UNCHANGED <<known, meta>>
     \/ /\ phase = "first"
        /\ known' = version /\ phase' = "run" /\ meta' = [meta EXCEPT !.final = Redirected(u)]
        /\ IF Missing = {}
           THEN at' = [at EXCEPT ![w] = "idle"] /\ UNCHANGED <<unit, got, probed>>
           ELSE Stream(w, u) /\ \E b \in Missing : unit' = [unit EXCEPT ![w] = b]
        /\ fails' = [fails EXCEPT ![w] = 0]
        /\ UNCHANGED <<req, switches, saved, checking>>
     \/ /\ phase = "run" /\ Stream(w, u)
        /\ UNCHANGED <<known, phase, meta, unit, req, switches, fails, saved, checking>>
  /\ UNCHANGED <<environment, generation, disk, history, counts>>

(* Another version: its ETag differs.                                      *)
Mismatch(w) ==
  LET u == req[w] IN
  /\ Opening(w) /\ phase # "probe" /\ Serves(u) /\ Partial(u, phase) /\ ~SameTag(u)
  /\ SourcesAfter(u) /\ Fatal
  /\ UNCHANGED <<environment, known, probed, benched, generation, meta, disk, history, counts>>

(* The whole resource: a conditional request finds that it changed; a      *)
(* stream without ranges starts over if the size is the same.              *)
Complete(w) ==
  LET u == req[w] IN
  /\ Opening(w) /\ phase # "probe" /\ Serves(u) /\ ~Partial(u, phase)
  /\ SourcesAfter(u) /\ UNCHANGED benched
  /\ IF server.ranged \/ (server.sized /\ LengthOf(version) # LengthOf(known))
     THEN Fatal /\ UNCHANGED probed
     ELSE Stream(w, u) /\ UNCHANGED <<phase, unit, req, switches, fails, saved, checking>>
  /\ UNCHANGED <<environment, known, generation, meta, disk, history, counts>>

(* 403, 404, 410: an expired target is given up for the link; without one, *)
(* 403 is a refusal and the others end the run, whoever else is at work.   *)
Gone(w) ==
  LET u == req[w] IN
  /\ Opening(w) /\ ~Serves(u)
  /\ UNCHANGED <<original, validated, benched>>
  /\ \/ /\ phase # "probe" /\ u[2] # 0 /\ Switch(w)
        /\ final' = NoUrl
        /\ UNCHANGED <<phase, saved, checking>>
     \/ /\ phase = "probe" \/ u[2] = 0 \/ ~MaySwitch(w)
        /\ final' = IF u # original THEN u ELSE final
        /\ Fatal \/ Refused(w)
  /\ UNCHANGED <<environment, known, probed, generation, meta, disk, history, counts>>

(* 408, 429, 5xx, a time-out or a lost connection.                         *)
Disturbed(w) ==
  /\ Opening(w) /\ Fault
  /\ UNCHANGED <<original, final, validated>>
  /\ \/ /\ IsMirror(req[w]) /\ Switch(w) /\ Bench(w)
        /\ UNCHANGED <<phase, saved, checking>>
     \/ /\ IsMirror(req[w]) => ~MaySwitch(w)
        /\ UNCHANGED benched
        /\ Retry(w) \/ GiveUp(w) \/ Refused(w)
  /\ UNCHANGED <<environment, known, probed, generation, meta, disk, history>>

BenchOver ==
  /\ benched # {} /\ benched' = {}
  /\ UNCHANGED <<environment, known, probed, original, final, validated, generation, meta, phase,
                 saved, disk, worker, checking, history, counts>>

(* spawn_mirror_validation: a mirror of the same size joins.               *)
ValidateMirror ==
  /\ phase = "run" /\ server.ranged /\ Mirrors \ validated # {}
  /\ validated' = Mirrors
  /\ UNCHANGED <<environment, known, probed, original, final, benched, generation, meta, phase,
                 saved, disk, worker, checking, history, counts>>
-----------------------------------------------------------------------------
(* pump.  When the address changed the stream is opened again.             *)
Reopen(w) ==
  /\ at[w] = "streaming" /\ got[w].generation # generation
  /\ at' = [at EXCEPT ![w] = "picking"] /\ switches' = [switches EXCEPT ![w] = 0]
  /\ UNCHANGED <<environment, known, probed, sources, generation, meta, phase, saved, disk, unit,
                 req, fails, got, checking, history, counts>>

EndOfBody(w) == ~server.ranged /\ unit[w] > LengthOf(got[w].version)

Receive(w) ==
  /\ at[w] = "streaming" /\ got[w].generation = generation /\ ~EndOfBody(w)
  /\ disk' = [disk EXCEPT ![unit[w]] = got[w].version]
  /\ fails' = [fails EXCEPT ![w] = 0]
  /\ IF server.ranged
     THEN at' = [at EXCEPT ![w] = "idle"] /\ unit' = [unit EXCEPT ![w] = 0]
     ELSE unit' = [unit EXCEPT ![w] = @ + 1] /\ UNCHANGED at
  /\ UNCHANGED <<environment, known, probed, sources, generation, meta, phase, saved, req,
                 switches, got, checking, history, counts>>

Dropped(w) ==
  /\ at[w] = "streaming" /\ Fault
  /\ Retry(w) \/ GiveUp(w)
  /\ UNCHANGED <<environment, known, probed, sources, generation, meta, disk, history>>

(* All blocks are there, or the only stream ended: the file is in place.   *)
Finish ==
  /\ phase = "run"
  /\ \/ server.ranged /\ \A b \in 1..Blocks : disk[b] # 0
     \/ at[0] = "streaming" /\ EndOfBody(0)
  /\ phase' = "done" /\ checking' = FALSE /\ saved' = FALSE
  /\ at' = [w \in Workers |-> "idle"] /\ unit' = [w \in Workers |-> 0]
  /\ UNCHANGED <<environment, known, probed, sources, generation, meta, disk, req, switches, fails,
                 got, history, counts>>

(* change_url: the new link is checked and becomes the primary source.     *)
ChangeUrl ==
  /\ phase = "run" /\ server.ranged /\ ~checking /\ original # Own("new")
  /\ checking' = TRUE
  /\ UNCHANGED <<environment, known, probed, sources, generation, meta, phase, saved, disk, worker,
                 history, counts>>
UrlChecked ==
  LET u == Own("new") IN
  /\ checking /\ checking' = FALSE
  /\ \/ /\ SameTag(u)
        /\ original' = u
        /\ final' = IF EndsAt(u) # u THEN EndsAt(u) ELSE NoUrl
        /\ generation' = generation + 1
        /\ meta' = [url |-> u, final |-> EndsAt(u)]
        /\ changed' = TRUE
     \/ UNCHANGED <<original, final, generation, meta, changed>>     \* refused, or it fails
  /\ UNCHANGED <<environment, known, probed, validated, benched, phase, saved, disk, worker,
                 movedAtWork, counts>>

Next ==
  \/ Moves \/ (\E l \in Links : Expires(l))
  \/ Start \/ Pause \/ WithUrl \/ Probed \/ Finish \/ ChangeUrl \/ UrlChecked
  \/ BenchOver \/ ValidateMirror
  \/ \E w \in Workers :
       \/ Take(w) \/ Pick(w) \/ Accepted(w) \/ Mismatch(w) \/ Complete(w) \/ Gone(w)
       \/ Disturbed(w) \/ Reopen(w) \/ Receive(w) \/ Dropped(w)

Spec == Init /\ [][Next]_vars
-----------------------------------------------------------------------------
(* The part file of a download with byte ranges never mixes two versions   *)
(* of the resource when the server sends strong ETags; with weaker         *)
(* validators, or none, a change while the download is paused is found.    *)
OneVersion ==
  server.ranged /\ (server.validator = "etag" \/ ~movedAtWork) =>
    \A a, b \in 1..Blocks : disk[a] = 0 \/ disk[b] = 0 \/ disk[a] = disk[b]

(* A file that came in one stream, however often it was restarted, is one  *)
(* answer of the server from its first to its last byte.                   *)
FileIsOneAnswer ==
  phase = "done" /\ ~server.ranged =>
    \E v \in 1..MaxVersions :
      \A b \in 1..Blocks : disk[b] = IF b <= LengthOf(v) THEN v ELSE 0

(* After change_url succeeded no request goes to the link it replaced.     *)
NewLinkUsed ==
  [][\A w \in Workers : changed /\ Pick(w) => req'[w][1] # "old"]_vars
==============================================================================
