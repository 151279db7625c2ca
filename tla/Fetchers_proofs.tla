--------------------------- MODULE Fetchers_proofs ---------------------------
(***************************************************************************)
(* What the fetchers of segmented downloads keep, for every value of the   *)
(* constants: HttpDownload, its authentication HttpAuth, and FtpDownload.  *)
(*                                                                         *)
(* HTTP.                                                                   *)
(* For any number of workers, blocks, versions, faults and expiries: the   *)
(* part file of a download with byte ranges holds one version of the       *)
(* resource, as far as the server's validators can tell versions apart;    *)
(* and a file that came in one stream of known size is one answer of the   *)
(* server, however often the stream was restarted.                         *)
(*                                                                         *)
(* Neither property says anything of the requests on their way, so neither *)
(* is inductive.  The invariant ties every body being received to the      *)
(* version the run knows, and says what is checked before that version may *)
(* change: while a run is set up one worker is at work, its request goes   *)
(* to the link and not to a mirror, and a server without validators is     *)
(* only believed after a block of the part file was compared.  Of a stream *)
(* it says that the blocks behind it are of the answer being read, and     *)
(* that whoever asks again asks for the first block.                       *)
(***************************************************************************)
EXTENDS HttpDownload, FiniteSetTheorems, TLAPS

\* The first worker makes the first request; a mirror is not one of the links.
HttpConstants ==
  /\ 0 \in Workers /\ Workers \subseteq Nat /\ Blocks \in Nat \ {0}
  /\ Servers \subseteq ServerKinds /\ Mirrors \subseteq {"mirror"}
  /\ MaxRetries \in Nat /\ MaxVersions \in Nat \ {0}

LinkUrls == Links \X Nat
MirrorUrls == Mirrors \X Nat
OnTheWay == {"picking", "opening", "streaming"}

\* The types, and which addresses are no mirror's.
HttpTypes ==
  /\ TypeOK
  /\ got \in [Workers -> [version : 0 .. MaxVersions, generation : Nat]] /\ generation \in Nat
  /\ req \in [Workers -> {NoUrl} \cup LinkUrls \cup MirrorUrls]
  /\ \A w \in Workers : at[w] = "opening" => req[w] # NoUrl
  /\ original \in LinkUrls /\ final \in {NoUrl} \cup LinkUrls
  /\ meta \in [url : LinkUrls, final : {NoUrl} \cup LinkUrls]
  /\ validated \subseteq Mirrors /\ targets \in [Links -> Nat]
  /\ movedAtWork \in BOOLEAN /\ saved \in BOOLEAN /\ checking \in BOOLEAN

\* A run is set up by the first worker, with requests to the link; between runs nobody works;
\* a fresh download begins with an empty part file, and without byte ranges none is continued.
SetUpAlone ==
  /\ phase \in Setup =>
       /\ validated = {} /\ at[0] \in {"picking", "opening"}
       /\ \A w \in Workers \ {0} : at[w] = "idle"
       /\ at[0] = "opening" => req[0] \in LinkUrls
  /\ phase \in {"off", "done", "failed"} => \A w \in Workers : at[w] = "idle"
  /\ phase = "probe" => \A b \in 1 .. Blocks : disk[b] = 0
  /\ ~server.ranged => ~saved /\ phase \notin {"overlap", "first"}

\* The server can be asked for a range, and its versions can be told apart.
Distinct == server.ranged /\ (server.validator = "etag" \/ ~movedAtWork)

\* What was received and what is being received is of the known version.
OfKnownVersion ==
  Distinct =>
    /\ \A b \in 1 .. Blocks : disk[b] \in {0, known}
    /\ \A w \in Workers : at[w] = "streaming" => got[w].version = known
    /\ phase = "run" /\ server.validator # "etag" => version = known
    /\ phase = "first" /\ server.validator = "none" => \A b \in 1 .. Blocks : disk[b] \in {0, version}

\* A stream of known size: only the first worker works, it keeps to its link, and the blocks
\* behind it are of the answer it reads.
OneStream ==
  ~server.ranged /\ server.sized =>
    /\ ~checking /\ validated = {}
    /\ \A w \in Workers \ {0} : at[w] = "idle"
    /\ at[0] = "opening" => req[0] \in LinkUrls
    /\ phase = "run" /\ at[0] \in {"picking", "opening"} => unit[0] = 1
    /\ at[0] = "streaming" =>
         /\ got[0].version # 0 /\ got[0].generation = generation /\ unit[0] # 0
         /\ \A b \in 1 .. Blocks : b < unit[0] => disk[b] = got[0].version
    /\ phase = "done" => \E v \in 1 .. MaxVersions : \A b \in 1 .. Blocks : disk[b] = v

HttpInvariant == HttpTypes /\ SetUpAlone /\ OfKnownVersion /\ OneStream

-----------------------------------------------------------------------------
(* Addresses.                                                              *)

\* The addresses of the links and of the mirrors are told apart, and no address is NoUrl.
LEMMA Addresses ==
  ASSUME HttpConstants
  PROVE  /\ Own("old") \in LinkUrls /\ Own("new") \in LinkUrls
         /\ NoUrl \notin LinkUrls /\ NoUrl \notin MirrorUrls
         /\ \A u \in LinkUrls : ~IsMirror(u) /\ u[1] \in Links /\ u[2] \in Nat
         /\ \A u \in MirrorUrls : IsMirror(u) /\ u[1] \notin Links
BY DEF HttpConstants, Own, LinkUrls, MirrorUrls, Links, NoUrl, IsMirror

\* The number of times a worker may change its source is a number.
LEMMA SwitchesBounded == ASSUME HttpConstants PROVE MaxSwitches \in Nat
<1>1. IsFiniteSet({"mirror"})
  BY FS_Singleton
<1>2. IsFiniteSet(Mirrors)
  BY <1>1, FS_Subset DEF HttpConstants
<1>3. Cardinality(Mirrors) \in Nat
  BY <1>2, FS_CardinalityType
<1>. QED  BY <1>3 DEF MaxSwitches

\* A link's request ends at the link or a target of it; that is what is remembered.
LEMMA TargetIsLink ==
  ASSUME HttpConstants, HttpTypes
  PROVE  /\ \A u \in LinkUrls : EndsAt(u) \in LinkUrls
         /\ \A u \in LinkUrls \cup MirrorUrls : Redirected(u) \in {NoUrl} \cup LinkUrls
<1>1. ASSUME NEW u \in LinkUrls PROVE EndsAt(u) \in LinkUrls
  <2>1. <<u[1], targets[u[1]]>> \in LinkUrls
    BY Addresses DEF HttpTypes, LinkUrls
  <2>. QED  BY <2>1 DEF EndsAt
<1>2. ASSUME NEW u \in MirrorUrls PROVE Redirected(u) = final
  BY <1>2, Addresses DEF Redirected
<1>. QED  BY <1>1, <1>2 DEF Redirected, HttpTypes

\* A request goes to a link or a mirror, and to a link as long as no mirror joined.
LEMMA PickedSource ==
  ASSUME HttpConstants, HttpTypes, NEW w \in Workers
  PROVE  Picked(w) \in LinkUrls \cup MirrorUrls /\ (validated = {} => Picked(w) \in LinkUrls)
<1>1. Usable # {} => "mirror" \in Mirrors
  BY DEF HttpConstants, HttpTypes, Usable
<1>2. "mirror" \in Mirrors => Own("mirror") \in MirrorUrls
  BY DEF Own, MirrorUrls
<1>3. validated = {} => Usable = {}
  BY DEF Usable
<1>. QED  BY <1>1, <1>2, <1>3 DEF Picked, HttpTypes

-----------------------------------------------------------------------------
(* What several steps have in common.                                      *)

\* What HttpTypes says of the workers, and that a block may be none, the first, or the end.
Places == {"idle", "picking", "opening", "streaming", "over"}
LEMMA WorkersTyped ==
  ASSUME HttpConstants, HttpInvariant
  PROVE  /\ at \in [Workers -> Places] /\ unit \in [Workers -> 0 .. Blocks + 1]
         /\ fails \in [Workers -> 0 .. MaxRetries] /\ switches \in [Workers -> 0 .. MaxSwitches]
         /\ req \in [Workers -> {NoUrl} \cup LinkUrls \cup MirrorUrls]
         /\ \A w \in Workers : at[w] = "opening" => req[w] # NoUrl
         /\ 0 \in Workers /\ 0 \in 0 .. Blocks + 1 /\ 1 \in 0 .. Blocks + 1
BY DEF HttpInvariant, HttpTypes, TypeOK, HttpConstants, Places

\* The server tells its versions apart less and less.
LEMMA DistinctBefore ==
  ASSUME server' = server, movedAtWork => movedAtWork', Distinct'
  PROVE  Distinct
BY DEF Distinct

\* A run that ends, by a pause or an error, leaves the part file to be continued.
LEMMA RunEnded ==
  ASSUME HttpConstants, HttpInvariant,
         phase' \in {"off", "failed"}, checking' = FALSE,
         saved' = IF phase = "run" THEN server.ranged ELSE saved,
         at' = [w \in Workers |-> "idle"], unit' = [w \in Workers |-> 0],
         final' \in {NoUrl} \cup LinkUrls,
         UNCHANGED <<environment, known, original, validated, generation, meta, disk, req,
                     switches, fails, got, movedAtWork>>
  PROVE  HttpInvariant'
<1>. USE DEF HttpInvariant, environment
<1>1. server.ranged \in BOOLEAN
  BY DEF HttpTypes, TypeOK, ServerKinds
<1>2. HttpTypes'
  <2>1. /\ at' \in [Workers -> {"idle", "picking", "opening", "streaming", "over"}]
        /\ unit' \in [Workers -> 0 .. Blocks + 1]
    BY DEF HttpConstants
  <2>2. \A w \in Workers : at'[w] = "opening" => req'[w] # NoUrl
    OBVIOUS
  <2>. QED  BY <1>1, <2>1, <2>2 DEF HttpTypes, TypeOK
<1>3. SetUpAlone'
  BY DEF SetUpAlone, Setup
<1>4. OfKnownVersion'
  BY DEF OfKnownVersion, Distinct, HttpConstants
<1>5. OneStream'
  BY DEF OneStream, HttpConstants
<1>. QED  BY <1>2, <1>3, <1>4, <1>5

\* A worker whose request or body failed asks again; a stream from its beginning.
LEMMA AsksAgain ==
  ASSUME HttpConstants, HttpInvariant, NEW w \in Workers,
         at[w] \in OnTheWay, at' = [at EXCEPT ![w] = "picking"],
         unit' \in {unit, Restarted(w)},
         ~server.ranged /\ server.sized /\ at[w] = "streaming" => unit' = Restarted(w),
         switches' \in [Workers -> 0 .. MaxSwitches], fails' \in [Workers -> 0 .. MaxRetries],
         final' \in {NoUrl} \cup LinkUrls,
         UNCHANGED <<environment, known, original, validated, generation, meta, phase, saved, disk,
                     req, got, checking, movedAtWork>>
  PROVE  HttpInvariant'
<1>. USE DEF HttpInvariant, environment, OnTheWay
<1>1. unit' \in [Workers -> 0 .. Blocks + 1]
  BY WorkersTyped DEF Restarted
<1>2. HttpTypes'
  <2>1. at' \in [Workers -> Places] /\ \A v \in Workers : at'[v] = "opening" => req'[v] # NoUrl
    BY WorkersTyped DEF Places
  <2>. QED  BY <1>1, <2>1 DEF HttpTypes, TypeOK, Places
<1>3. at \in [Workers -> Places]
  BY WorkersTyped
<1>4. SetUpAlone'
  BY <1>3 DEF SetUpAlone, Setup, HttpConstants
<1>5. OfKnownVersion'
  BY <1>3 DEF OfKnownVersion, Distinct
<1>6. OneStream'
  <2>. SUFFICES ASSUME ~server.ranged, server.sized PROVE OneStream'
    BY DEF OneStream
  <2>1. w = 0
    BY DEF OneStream
  <2>2. phase = "run" => unit'[0] = 1
    BY <2>1, WorkersTyped DEF OneStream, Restarted
  <2>. QED  BY <1>3, <2>1, <2>2 DEF OneStream, HttpConstants
<1>. QED  BY <1>2, <1>4, <1>5, <1>6

\* A worker that gives its block back while others work.
LEMMA GivesBack ==
  ASSUME HttpConstants, HttpInvariant, NEW w \in Workers,
         phase = "run", server.ranged \/ ~server.sized,
         at' \in {[at EXCEPT ![w] = "idle"], [at EXCEPT ![w] = "over"]},
         unit' = [unit EXCEPT ![w] = 0], fails' \in [Workers -> 0 .. MaxRetries],
         final' \in {NoUrl} \cup LinkUrls,
         UNCHANGED <<environment, known, original, validated, generation, meta, phase, saved, disk,
                     req, switches, got, checking, movedAtWork>>
  PROVE  HttpInvariant'
<1>. USE DEF HttpInvariant, environment
<1>1. at \in [Workers -> Places]
  BY WorkersTyped
<1>2. HttpTypes'
  <2>1. at' \in [Workers -> Places] /\ \A v \in Workers : at'[v] = "opening" => req'[v] # NoUrl
    BY WorkersTyped DEF Places
  <2>2. unit' \in [Workers -> 0 .. Blocks + 1]
    BY WorkersTyped
  <2>. QED  BY <2>1, <2>2 DEF HttpTypes, TypeOK, Places
<1>3. SetUpAlone'
  BY DEF SetUpAlone, Setup
<1>4. OfKnownVersion'
  BY <1>1 DEF OfKnownVersion, Distinct
<1>5. OneStream'
  BY DEF OneStream
<1>. QED  BY <1>2, <1>3, <1>4, <1>5

\* The body of an answer begins in the middle of a run.
LEMMA BodyBegins ==
  ASSUME HttpConstants, HttpInvariant, NEW w \in Workers,
         phase = "run", at[w] = "opening", Stream(w, req[w]),
         Distinct => Content(req[w]) = known,
         final' \in {NoUrl} \cup LinkUrls,
         UNCHANGED <<environment, known, original, validated, generation, meta, phase, saved, disk,
                     unit, req, switches, fails, checking, movedAtWork>>
  PROVE  HttpInvariant'
<1>. USE DEF HttpInvariant, environment
<1>1. at \in [Workers -> Places] /\ got \in [Workers -> [version : 0 .. MaxVersions, generation : Nat]]
  BY WorkersTyped DEF HttpTypes
<1>2. /\ Content(req[w]) \in 0 .. MaxVersions /\ generation \in Nat
      /\ at' = [at EXCEPT ![w] = "streaming"]
      /\ got' = [got EXCEPT ![w] = [version |-> Content(req[w]), generation |-> generation]]
  BY DEF HttpTypes, TypeOK, Content, HttpConstants, Stream
<1>3. HttpTypes'
  <2>1. at' \in [Workers -> Places] /\ \A v \in Workers : at'[v] = "opening" => req'[v] # NoUrl
    BY <1>2, WorkersTyped DEF Places
  <2>2. got' \in [Workers -> [version : 0 .. MaxVersions, generation : Nat]]
    BY <1>1, <1>2
  <2>. QED  BY <2>1, <2>2 DEF HttpTypes, TypeOK, Places
<1>4. SetUpAlone'
  BY DEF SetUpAlone, Setup
<1>5. OfKnownVersion'
  BY <1>1, <1>2 DEF OfKnownVersion, Distinct
<1>6. OneStream'
  <2>. SUFFICES ASSUME ~server.ranged, server.sized PROVE OneStream'
    BY DEF OneStream
  <2>1. w = 0 /\ req[0] \in LinkUrls /\ unit[0] = 1
    BY DEF OneStream
  <2>2. Content(req[0]) = version /\ version # 0
    BY <2>1, Addresses DEF Content, HttpTypes, TypeOK, HttpConstants
  <2>. QED  BY <1>1, <1>2, <2>1, <2>2 DEF OneStream, HttpConstants
<1>. QED  BY <1>3, <1>4, <1>5, <1>6

\* An error that may pass: the worker asks again, gives its block back or ends the run.
LEMMA Fails ==
  ASSUME HttpConstants, HttpInvariant, NEW w \in Workers, at[w] \in {"opening", "streaming"},
         Retry(w) \/ GiveUp(w) \/ Refused(w),
         UNCHANGED <<environment, known, original, final, validated, generation, meta, disk,
                     movedAtWork>>
  PROVE  HttpInvariant'
<1>1. final' \in {NoUrl} \cup LinkUrls
  BY DEF HttpInvariant, HttpTypes
<1>2. CASE Retry(w)
  <2>1. fails' \in [Workers -> 0 .. MaxRetries] /\ switches' \in [Workers -> 0 .. MaxSwitches]
    BY <1>2, WorkersTyped, SwitchesBounded DEF Retry, HttpConstants
  <2>. QED  BY <1>1, <1>2, <2>1, AsksAgain DEF Retry, OnTheWay
<1>3. CASE GiveUp(w)
  <2>1. CASE phase = "run" /\ server.ranged /\ \E o \in Workers \ {w} : at[o] # "over"
    BY <1>1, <1>3, <2>1, WorkersTyped, GivesBack DEF GiveUp
  <2>2. CASE ~(phase = "run" /\ server.ranged /\ \E o \in Workers \ {w} : at[o] # "over")
    BY <1>1, <1>3, <2>2, RunEnded DEF GiveUp, Fatal
  <2>. QED  BY <2>1, <2>2
<1>4. CASE Refused(w)
  <2>1. server.ranged \/ ~server.sized
    BY <1>4 DEF Refused, OthersConnected, HttpInvariant, OneStream
  <2>. QED  BY <1>1, <1>4, <2>1, WorkersTyped, GivesBack DEF Refused
<1>. QED  BY <1>2, <1>3, <1>4
-----------------------------------------------------------------------------
(* The actions.                                                            *)

LEMMA HttpStarts == ASSUME HttpConstants, Init PROVE HttpInvariant
<1>1. HttpTypes
  <2>1. /\ 1 \in 1 .. MaxVersions /\ 0 \in 0 .. MaxVersions /\ 0 \in 0 .. Blocks + 1
        /\ 0 \in 0 .. MaxRetries /\ 0 \in 0 .. MaxSwitches
    BY SwitchesBounded DEF HttpConstants
  <2>. QED  BY <2>1, Addresses DEF Init, HttpTypes, TypeOK, HttpConstants
<1>. QED  BY <1>1 DEF Init, HttpInvariant, SetUpAlone, Setup, OfKnownVersion, OneStream, HttpConstants

LEMMA MovesKeeps == ASSUME HttpConstants, HttpInvariant, Moves PROVE HttpInvariant'
<1>. USE DEF HttpInvariant, Moves, environment, sources, worker, counts
<1>1. HttpTypes'
  <2>1. version' \in 1 .. MaxVersions /\ movedAtWork' \in BOOLEAN
    BY DEF HttpTypes, TypeOK, HttpConstants
  <2>. QED  BY <2>1 DEF HttpTypes, TypeOK
<1>2. SetUpAlone'
  BY DEF SetUpAlone, Setup
<1>3. OfKnownVersion'
  BY DEF OfKnownVersion, Distinct, Setup
<1>4. OneStream'
  BY DEF OneStream
<1>. QED  BY <1>1, <1>2, <1>3, <1>4

LEMMA ExpiresKeeps ==
  ASSUME HttpConstants, HttpInvariant, NEW l \in Links, Expires(l)
  PROVE  HttpInvariant'
<1>. USE DEF HttpInvariant, Expires, sources, worker, history
<1>1. HttpTypes'
  <2>1. targets' \in [Links -> Nat]
    BY DEF HttpTypes
  <2>. QED  BY <2>1 DEF HttpTypes, TypeOK
<1>2. SetUpAlone' /\ OneStream'
  BY DEF SetUpAlone, OneStream
<1>3. OfKnownVersion'
  BY DEF OfKnownVersion, Distinct
<1>. QED  BY <1>1, <1>2, <1>3

LEMMA StartKeeps == ASSUME HttpConstants, HttpInvariant, Start PROVE HttpInvariant'
<1>. USE DEF HttpInvariant, Start, environment
<1>1. HttpTypes'
  <2>1. at' \in [Workers -> Places] /\ \A v \in Workers : at'[v] # "opening"
    BY DEF Places
  <2>2. /\ unit' \in [Workers -> 0 .. Blocks + 1] /\ fails' \in [Workers -> 0 .. MaxRetries]
        /\ switches' \in [Workers -> 0 .. MaxSwitches]
    BY SwitchesBounded DEF HttpConstants
  <2>3. known' \in 0 .. MaxVersions /\ disk' \in [1 .. Blocks -> 0 .. MaxVersions]
    BY DEF HttpTypes, TypeOK, HttpConstants
  <2>4. phase' \in Setup /\ original' \in LinkUrls /\ final' \in {NoUrl} \cup LinkUrls
    BY DEF HttpTypes, Setup
  <2>. QED  BY <2>1, <2>2, <2>3, <2>4 DEF HttpTypes, TypeOK, Places
<1>2. SetUpAlone'
  BY DEF SetUpAlone, Setup, HttpConstants
<1>3. OfKnownVersion'
  <2>1. CASE saved
    BY <2>1 DEF OfKnownVersion, Distinct, history
  <2>2. CASE ~saved
    BY <2>2 DEF OfKnownVersion, Distinct
  <2>. QED  BY <2>1, <2>2
<1>4. OneStream'
  BY DEF OneStream, SetUpAlone, HttpConstants
<1>. QED  BY <1>1, <1>2, <1>3, <1>4

LEMMA PauseKeeps == ASSUME HttpConstants, HttpInvariant, Pause PROVE HttpInvariant'
BY RunEnded DEF Pause, HttpInvariant, HttpTypes, sources, history

LEMMA WithUrlKeeps == ASSUME HttpConstants, HttpInvariant, WithUrl PROVE HttpInvariant'
<1>. USE DEF HttpInvariant, WithUrl, environment, sources, worker, history
<1>1. HttpTypes'
  BY Addresses DEF HttpTypes, TypeOK
<1>2. SetUpAlone' /\ OfKnownVersion' /\ OneStream'
  BY DEF SetUpAlone, OfKnownVersion, Distinct, OneStream
<1>. QED  BY <1>1, <1>2

LEMMA TakeKeeps ==
  ASSUME HttpConstants, HttpInvariant, NEW w \in Workers, Take(w)
  PROVE  HttpInvariant'
<1>. USE DEF HttpInvariant, Take, environment, sources, history
<1>1. HttpTypes'
  <2>1. at' \in [Workers -> Places] /\ \A v \in Workers : at'[v] = "opening" => req'[v] # NoUrl
    BY WorkersTyped DEF Places
  <2>2. unit' \in [Workers -> 0 .. Blocks + 1]
    BY WorkersTyped DEF Missing, HttpConstants
  <2>3. switches' \in [Workers -> 0 .. MaxSwitches]
    BY WorkersTyped, SwitchesBounded
  <2>. QED  BY <2>1, <2>2, <2>3 DEF HttpTypes, TypeOK, Places
<1>2. SetUpAlone' /\ OneStream'
  BY DEF SetUpAlone, OneStream, Setup
<1>3. OfKnownVersion'
  BY WorkersTyped DEF OfKnownVersion, Distinct
<1>. QED  BY <1>1, <1>2, <1>3

LEMMA PickKeeps ==
  ASSUME HttpConstants, HttpInvariant, NEW w \in Workers, Pick(w)
  PROVE  HttpInvariant'
<1>. USE DEF HttpInvariant, Pick, environment, sources, history
<1>1. Picked(w) \in LinkUrls \cup MirrorUrls /\ (validated = {} => Picked(w) \in LinkUrls)
  BY PickedSource
<1>2. HttpTypes'
  <2>1. at' \in [Workers -> Places] /\ req' \in [Workers -> {NoUrl} \cup LinkUrls \cup MirrorUrls]
    BY <1>1, WorkersTyped DEF Places
  <2>2. \A v \in Workers : at'[v] = "opening" => req'[v] # NoUrl
    BY <1>1, WorkersTyped, Addresses
  <2>. QED  BY <2>1, <2>2 DEF HttpTypes, TypeOK, Places
<1>3. SetUpAlone'
  BY <1>1, WorkersTyped DEF SetUpAlone, Setup
<1>4. OfKnownVersion'
  BY WorkersTyped DEF OfKnownVersion, Distinct
<1>5. OneStream'
  BY <1>1, WorkersTyped DEF OneStream
<1>. QED  BY <1>2, <1>3, <1>4, <1>5
\* A request that is on its way goes to a link or a mirror, and what is remembered of it is a link.
LEMMA RequestSource ==
  ASSUME HttpConstants, HttpInvariant, NEW w \in Workers, at[w] = "opening"
  PROVE  req[w] \in LinkUrls \cup MirrorUrls /\ Redirected(req[w]) \in {NoUrl} \cup LinkUrls
BY WorkersTyped, TargetIsLink DEF HttpInvariant

LEMMA ProbedKeeps == ASSUME HttpConstants, HttpInvariant, Probed PROVE HttpInvariant'
<1>. USE DEF HttpInvariant, Probed, ProbeAnswered, Opening, SourcesAfter, environment, history
<1>1. /\ at[0] = "opening" /\ phase = "probe" /\ req[0] \in LinkUrls /\ 0 \in Workers
      /\ Redirected(req[0]) \in {NoUrl} \cup LinkUrls
  BY RequestSource DEF SetUpAlone, Setup, HttpConstants
<1>2. Content(req[0]) = version /\ version \in 1 .. MaxVersions /\ generation \in Nat
  BY <1>1, Addresses DEF Content, HttpTypes, TypeOK
<1>3. /\ at' = [at EXCEPT ![0] = "streaming"]
      /\ got' = [got EXCEPT ![0] = [version |-> version, generation |-> generation]]
  BY <1>2 DEF Stream
<1>4. got \in [Workers -> [version : 0 .. MaxVersions, generation : Nat]]
  BY DEF HttpTypes
<1>5. HttpTypes'
  <2>1. at' \in [Workers -> Places] /\ \A v \in Workers : at'[v] = "opening" => req'[v] # NoUrl
    BY <1>3, WorkersTyped DEF Places
  <2>2. unit' \in [Workers -> 0 .. Blocks + 1] /\ fails' \in [Workers -> 0 .. MaxRetries]
    BY WorkersTyped DEF HttpConstants
  <2>3. got' \in [Workers -> [version : 0 .. MaxVersions, generation : Nat]]
    <3>1. [version |-> version, generation |-> generation] \in [version : 0 .. MaxVersions, generation : Nat]
      BY <1>2 DEF HttpConstants
    <3>. QED  BY <1>3, <1>4, <3>1
  <2>4. known' \in 0 .. MaxVersions
    BY <1>2
  <2>5. meta' \in [url : LinkUrls, final : {NoUrl} \cup LinkUrls]
    BY <1>1 DEF HttpTypes
  <2>. QED  BY <1>1, <2>1, <2>2, <2>3, <2>4, <2>5 DEF HttpTypes, TypeOK, Places
<1>6. SetUpAlone'
  BY DEF SetUpAlone, Setup
<1>7. OfKnownVersion'
  <2>1. \A v \in Workers : at'[v] = "streaming" => got'[v].version = version
    BY <1>1, <1>3, <1>4, WorkersTyped DEF SetUpAlone, Setup
  <2>2. \A b \in 1 .. Blocks : disk'[b] = 0
    BY <1>1 DEF SetUpAlone
  <2>. QED  BY <2>1, <2>2 DEF OfKnownVersion
<1>8. OneStream'
  BY <1>1, <1>2, <1>3, <1>4, WorkersTyped DEF OneStream
<1>. QED  BY <1>5, <1>6, <1>7, <1>8

\* A partial answer in the middle of a run is of the known version.
LEMMA ContentKnown ==
  ASSUME HttpConstants, HttpInvariant, NEW w \in Workers, phase = "run", SameTag(req[w])
  PROVE  Distinct => Content(req[w]) = known
BY DEF HttpInvariant, OfKnownVersion, Distinct, Content, SameTag

\* A part file that is continued is of the version of the answer that continues it.
LEMMA ContinuedKnown ==
  ASSUME HttpConstants, HttpInvariant, at[0] = "opening", phase = "first",
         Partial(req[0], phase), SameTag(req[0]), Distinct
  PROVE  \A b \in 1 .. Blocks : disk[b] \in {0, version}
<1>. USE DEF HttpInvariant
<1>1. req[0] \in LinkUrls /\ server.validator \in {"etag", "date", "none"}
  BY DEF SetUpAlone, Setup, HttpTypes, TypeOK, ServerKinds
<1>2. ~IsMirror(req[0])
  BY <1>1, Addresses
<1>3. CASE server.validator = "none"
  BY <1>3 DEF OfKnownVersion
<1>4. CASE server.validator # "none"
  BY <1>2, <1>4 DEF Partial, IfRange, Content, OfKnownVersion
<1>. QED  BY <1>3, <1>4

LEMMA OverlapKeeps ==
  ASSUME HttpConstants, HttpInvariant, NEW w \in Workers, Accepted(w), phase = "overlap"
  PROVE  HttpInvariant'
<1>. USE DEF HttpInvariant, environment, history
<1>1. /\ at[w] = "opening" /\ final' \in {NoUrl} \cup LinkUrls
      /\ UNCHANGED <<environment, generation, disk, history, counts, original, validated, known, meta>>
  BY RequestSource DEF Accepted, Opening, SourcesAfter
<1>2. PICK b \in 1 .. Blocks :
        /\ disk[b] # 0
        /\ IF disk[b] = version
           THEN /\ phase' = "first" /\ at' = [at EXCEPT ![w] = "picking"]
                /\ switches' = [switches EXCEPT ![w] = 0] /\ fails' = [fails EXCEPT ![w] = 0]
                /\ UNCHANGED <<unit, req, got, saved, checking>>
           ELSE Fatal
  BY DEF Accepted
<1>3. CASE disk[b] # version
  BY <1>1, <1>2, <1>3, RunEnded DEF Fatal
<1>4. CASE disk[b] = version
  <2>1. HttpTypes'
    <3>1. at' \in [Workers -> Places] /\ \A v \in Workers : at'[v] = "opening" => req'[v] # NoUrl
      BY <1>2, <1>4, WorkersTyped DEF Places
    <3>2. /\ fails' \in [Workers -> 0 .. MaxRetries]
          /\ switches' \in [Workers -> 0 .. MaxSwitches]
      BY <1>2, <1>4, WorkersTyped, SwitchesBounded DEF HttpConstants
    <3>3. phase' \in Setup
      BY <1>2, <1>4 DEF Setup
    <3>. QED  BY <1>1, <1>2, <1>4, <3>1, <3>2, <3>3 DEF HttpTypes, TypeOK, Places
  <2>2. w = 0
    BY <1>1 DEF SetUpAlone, Setup
  <2>3. SetUpAlone'
    BY <1>1, <1>2, <1>4, <2>2, WorkersTyped DEF SetUpAlone, Setup
  <2>4. OfKnownVersion'
    BY <1>1, <1>2, <1>4, WorkersTyped DEF OfKnownVersion, Distinct
  <2>5. OneStream'
    BY <1>1, <1>2, <1>4, <2>2, <2>3, WorkersTyped DEF OneStream, SetUpAlone
  <2>. QED  BY <2>1, <2>3, <2>4, <2>5
<1>. QED  BY <1>3, <1>4

LEMMA FirstKeeps ==
  ASSUME HttpConstants, HttpInvariant, NEW w \in Workers, Accepted(w), phase = "first"
  PROVE  HttpInvariant'
<1>. USE DEF HttpInvariant, environment, history
<1>1. /\ at[w] = "opening" /\ Partial(req[w], phase) /\ SameTag(req[w])
      /\ final' = Redirected(req[w])
      /\ UNCHANGED <<environment, generation, disk, history, counts, original, validated>>
      /\ known' = version /\ phase' = "run" /\ meta' = [meta EXCEPT !.final = Redirected(req[w])]
      /\ fails' = [fails EXCEPT ![w] = 0] /\ UNCHANGED <<req, switches, saved, checking>>
  BY DEF Accepted, Opening, SourcesAfter
<1>2. w = 0 /\ req[0] \in LinkUrls
  BY <1>1 DEF SetUpAlone, Setup
<1>3. Content(req[0]) = version /\ version \in 1 .. MaxVersions /\ generation \in Nat
  BY <1>2, Addresses DEF Content, HttpTypes, TypeOK
<1>4. \/ at' = [at EXCEPT ![0] = "idle"] /\ UNCHANGED <<unit, got>>
      \/ /\ at' = [at EXCEPT ![0] = "streaming"]
         /\ got' = [got EXCEPT ![0] = [version |-> version, generation |-> generation]]
         /\ \E b \in 1 .. Blocks : unit' = [unit EXCEPT ![0] = b]
  BY <1>2, <1>3 DEF Accepted, Stream, Missing
<1>5. got \in [Workers -> [version : 0 .. MaxVersions, generation : Nat]]
  BY DEF HttpTypes
<1>6. HttpTypes'
  <2>1. at' \in [Workers -> Places] /\ \A v \in Workers : at'[v] = "opening" => req'[v] # NoUrl
    BY <1>1, <1>4, WorkersTyped DEF Places
  <2>2. unit' \in [Workers -> 0 .. Blocks + 1]
    BY <1>4, WorkersTyped DEF HttpConstants
  <2>3. fails' \in [Workers -> 0 .. MaxRetries]
    BY <1>1, WorkersTyped DEF HttpConstants
  <2>4. got' \in [Workers -> [version : 0 .. MaxVersions, generation : Nat]]
    BY <1>3, <1>4, <1>5
  <2>5. known' \in 0 .. MaxVersions
    BY <1>1, <1>3
  <2>6. final' \in {NoUrl} \cup LinkUrls /\ meta' \in [url : LinkUrls, final : {NoUrl} \cup LinkUrls]
    BY <1>1, RequestSource DEF HttpTypes
  <2>. QED  BY <1>1, <2>1, <2>2, <2>3, <2>4, <2>5, <2>6 DEF HttpTypes, TypeOK, Places
<1>7. SetUpAlone'
  BY <1>1 DEF SetUpAlone, Setup
<1>8. OfKnownVersion'
  <2>. SUFFICES ASSUME Distinct' PROVE OfKnownVersion'
    BY DEF OfKnownVersion
  <2>1. \A b \in 1 .. Blocks : disk[b] \in {0, version}
    BY <1>1, <1>2, ContinuedKnown DEF Distinct
  <2>2. \A v \in Workers : at'[v] = "streaming" => got'[v].version = version
    BY <1>2, <1>4, <1>5, WorkersTyped DEF SetUpAlone, Setup
  <2>. QED  BY <1>1, <2>1, <2>2 DEF OfKnownVersion
<1>9. OneStream'
  BY <1>1 DEF OneStream, SetUpAlone
<1>. QED  BY <1>6, <1>7, <1>8, <1>9

LEMMA AcceptedKeeps ==
  ASSUME HttpConstants, HttpInvariant, NEW w \in Workers, Accepted(w)
  PROVE  HttpInvariant'
<1>1. CASE phase = "run"
  <2>1. /\ at[w] = "opening" /\ final' \in {NoUrl} \cup LinkUrls /\ Stream(w, req[w])
        /\ UNCHANGED <<environment, known, original, validated, generation, meta, phase, saved, disk,
                       unit, req, switches, fails, checking, movedAtWork>>
    BY <1>1, RequestSource DEF Accepted, Opening, SourcesAfter, history
  <2>2. Distinct => Content(req[w]) = known
    BY <1>1, ContentKnown DEF Accepted
  <2>. QED  BY <1>1, <2>1, <2>2, BodyBegins
<1>2. phase \in {"overlap", "first", "run"}
  BY DEF Accepted
<1>. QED  BY <1>1, <1>2, OverlapKeeps, FirstKeeps
LEMMA MismatchKeeps ==
  ASSUME HttpConstants, HttpInvariant, NEW w \in Workers, Mismatch(w)
  PROVE  HttpInvariant'
<1>1. final' \in {NoUrl} \cup LinkUrls
  BY RequestSource DEF Mismatch, Opening, SourcesAfter
<1>. QED  BY <1>1, RunEnded DEF Mismatch, SourcesAfter, Fatal, history

LEMMA CompleteKeeps ==
  ASSUME HttpConstants, HttpInvariant, NEW w \in Workers, Complete(w)
  PROVE  HttpInvariant'
<1>1. final' \in {NoUrl} \cup LinkUrls /\ at[w] = "opening"
  BY RequestSource DEF Complete, Opening, SourcesAfter
<1>2. CASE server.ranged \/ (server.sized /\ LengthOf(version) # LengthOf(known))
  BY <1>1, <1>2, RunEnded DEF Complete, SourcesAfter, Fatal, history
<1>3. CASE ~(server.ranged \/ (server.sized /\ LengthOf(version) # LengthOf(known)))
  <2>1. phase = "run"
    BY <1>1, <1>3 DEF Complete, HttpInvariant, SetUpAlone, HttpTypes, TypeOK, Setup
  <2>. QED  BY <1>1, <1>3, <2>1, BodyBegins DEF Complete, SourcesAfter, Distinct, history
<1>. QED  BY <1>2, <1>3

LEMMA GoneKeeps ==
  ASSUME HttpConstants, HttpInvariant, NEW w \in Workers, Gone(w)
  PROVE  HttpInvariant'
<1>1. /\ at[w] = "opening" /\ req[w] \in LinkUrls
      /\ UNCHANGED <<original, validated, environment, known, generation, meta, disk, movedAtWork>>
  <2>1. req[w][1] \in Links
    BY DEF Gone, Serves
  <2>. QED  BY <2>1, RequestSource, Addresses DEF Gone, Opening, history
<1>2. final \in {NoUrl} \cup LinkUrls
  BY DEF HttpInvariant, HttpTypes
<1>3. CASE Switch(w) /\ final' = NoUrl /\ UNCHANGED <<phase, saved, checking>>
  <2>1. switches' \in [Workers -> 0 .. MaxSwitches]
    BY <1>3, WorkersTyped, SwitchesBounded DEF Switch, MaySwitch
  <2>. QED  BY <1>1, <1>3, <2>1, WorkersTyped, AsksAgain DEF Switch, OnTheWay
<1>4. CASE Fatal /\ final' = (IF req[w] # original THEN req[w] ELSE final)
  BY <1>1, <1>2, <1>4, RunEnded DEF Fatal
<1>5. CASE Refused(w) /\ final' = (IF req[w] # original THEN req[w] ELSE final)
  <2>1. server.ranged \/ ~server.sized
    BY <1>1, <1>5 DEF Refused, OthersConnected, HttpInvariant, OneStream
  <2>. QED  BY <1>1, <1>2, <1>5, <2>1, WorkersTyped, GivesBack DEF Refused
<1>. QED  BY <1>3, <1>4, <1>5 DEF Gone

LEMMA DisturbedKeeps ==
  ASSUME HttpConstants, HttpInvariant, NEW w \in Workers, Disturbed(w)
  PROVE  HttpInvariant'
<1>1. /\ at[w] = "opening"
      /\ UNCHANGED <<original, final, validated, environment, known, generation, meta, disk, movedAtWork>>
  BY DEF Disturbed, Opening, history
<1>2. CASE Switch(w) /\ UNCHANGED <<phase, saved, checking>>
  <2>1. /\ switches' \in [Workers -> 0 .. MaxSwitches]
        /\ final' \in {NoUrl} \cup LinkUrls
    BY <1>1, <1>2, WorkersTyped, SwitchesBounded DEF Switch, MaySwitch, HttpInvariant, HttpTypes
  <2>. QED  BY <1>1, <1>2, <2>1, WorkersTyped, AsksAgain DEF Switch, OnTheWay
<1>3. CASE Retry(w) \/ GiveUp(w) \/ Refused(w)
  BY <1>1, <1>3, Fails
<1>. QED  BY <1>2, <1>3 DEF Disturbed

LEMMA MirrorsKeep ==
  ASSUME HttpConstants, HttpInvariant, BenchOver \/ ValidateMirror
  PROVE  HttpInvariant'
<1>. USE DEF HttpInvariant, BenchOver, ValidateMirror, environment, worker, history
<1>1. validated' \subseteq Mirrors
  BY DEF HttpTypes
<1>2. HttpTypes'
  BY <1>1 DEF HttpTypes, TypeOK
<1>3. SetUpAlone' /\ OfKnownVersion' /\ OneStream'
  BY DEF SetUpAlone, Setup, OfKnownVersion, Distinct, OneStream
<1>. QED  BY <1>2, <1>3

LEMMA ReopenKeeps ==
  ASSUME HttpConstants, HttpInvariant, NEW w \in Workers, Reopen(w)
  PROVE  HttpInvariant'
<1>1. server.ranged \/ ~server.sized
  BY DEF Reopen, HttpInvariant, OneStream
<1>2. /\ switches' \in [Workers -> 0 .. MaxSwitches] /\ fails' \in [Workers -> 0 .. MaxRetries]
      /\ final' \in {NoUrl} \cup LinkUrls
  BY WorkersTyped, SwitchesBounded DEF Reopen, HttpInvariant, HttpTypes, sources
<1>. QED  BY <1>1, <1>2, AsksAgain DEF Reopen, OnTheWay, sources, history

LEMMA ReceiveKeeps ==
  ASSUME HttpConstants, HttpInvariant, NEW w \in Workers, Receive(w)
  PROVE  HttpInvariant'
<1>. USE DEF HttpInvariant, Receive, environment, sources, history
<1>1. got \in [Workers -> [version : 0 .. MaxVersions, generation : Nat]]
  BY DEF HttpTypes
<1>2. ~server.ranged => unit[w] <= Blocks
  <2>1. LengthOf(got[w].version) \in {Blocks, Blocks - 1} /\ unit[w] \in 0 .. Blocks + 1
    BY WorkersTyped DEF LengthOf
  <2>. QED  BY <2>1 DEF EndOfBody, HttpConstants
<1>3. unit' \in [Workers -> 0 .. Blocks + 1]
  BY <1>2, WorkersTyped DEF HttpConstants
<1>4. disk \in [1 .. Blocks -> 0 .. MaxVersions] /\ disk' = [disk EXCEPT ![unit[w]] = got[w].version]
  BY DEF HttpTypes, TypeOK
<1>5. phase = "run"
  BY DEF SetUpAlone, HttpTypes, TypeOK, Setup
<1>6. HttpTypes'
  <2>1. at' \in [Workers -> Places] /\ \A v \in Workers : at'[v] = "opening" => req'[v] # NoUrl
    BY WorkersTyped DEF Places
  <2>2. fails' \in [Workers -> 0 .. MaxRetries]
    BY WorkersTyped DEF HttpConstants
  <2>3. disk' \in [1 .. Blocks -> 0 .. MaxVersions]
    BY <1>1, <1>4
  <2>. QED  BY <1>3, <2>1, <2>2, <2>3 DEF HttpTypes, TypeOK, Places
<1>7. SetUpAlone'
  BY <1>5 DEF SetUpAlone, Setup
<1>8. OfKnownVersion'
  <2>. SUFFICES ASSUME Distinct PROVE OfKnownVersion'
    BY DEF OfKnownVersion, Distinct
  <2>1. got[w].version = known
    BY DEF OfKnownVersion
  <2>2. \A b \in 1 .. Blocks : disk'[b] \in {0, known}
    BY <1>4, <2>1 DEF OfKnownVersion
  <2>3. \A v \in Workers : at'[v] = "streaming" => got'[v].version = known
    BY WorkersTyped DEF OfKnownVersion
  <2>. QED  BY <1>5, <2>2, <2>3 DEF OfKnownVersion
<1>9. OneStream'
  <2>. SUFFICES ASSUME ~server.ranged, server.sized PROVE OneStream'
    BY DEF OneStream
  <2>1. w = 0 /\ at' = at /\ got' = got /\ unit' = [unit EXCEPT ![0] = @ + 1]
    BY DEF OneStream
  <2>2. unit'[0] = unit[0] + 1 /\ unit[0] \in Nat \ {0}
    BY <2>1, WorkersTyped DEF OneStream, HttpConstants
  <2>3. \A b \in 1 .. Blocks : b < unit'[0] => disk'[b] = got[0].version
    BY <1>4, <2>1, <2>2 DEF OneStream
  <2>. QED  BY <1>5, <2>1, <2>2, <2>3 DEF OneStream
<1>. QED  BY <1>6, <1>7, <1>8, <1>9

LEMMA DroppedKeeps ==
  ASSUME HttpConstants, HttpInvariant, NEW w \in Workers, Dropped(w)
  PROVE  HttpInvariant'
BY Fails DEF Dropped, sources, history

LEMMA FinishKeeps == ASSUME HttpConstants, HttpInvariant, Finish PROVE HttpInvariant'
<1>. USE DEF HttpInvariant, Finish, environment, sources, history
<1>1. HttpTypes'
  <2>1. /\ at' \in [Workers -> Places] /\ \A v \in Workers : at'[v] # "opening"
        /\ unit' \in [Workers -> 0 .. Blocks + 1]
    BY DEF Places, HttpConstants
  <2>. QED  BY <2>1 DEF HttpTypes, TypeOK, Places
<1>2. SetUpAlone'
  BY DEF SetUpAlone, Setup
<1>3. OfKnownVersion'
  BY DEF OfKnownVersion, Distinct
<1>4. OneStream'
  <2>. SUFFICES ASSUME ~server.ranged, server.sized PROVE OneStream'
    BY DEF OneStream
  <2>1. at[0] = "streaming" /\ unit[0] > Blocks
    BY DEF EndOfBody, LengthOf
  <2>2. \A b \in 1 .. Blocks : disk[b] = got[0].version
    BY <2>1, WorkersTyped DEF OneStream, HttpConstants
  <2>3. got[0].version \in 1 .. MaxVersions
    BY <2>1 DEF OneStream, HttpTypes, HttpConstants
  <2>. QED  BY <2>2, <2>3 DEF OneStream, HttpConstants
<1>. QED  BY <1>1, <1>2, <1>3, <1>4

LEMMA ChangeUrlKeeps == ASSUME HttpConstants, HttpInvariant, ChangeUrl PROVE HttpInvariant'
<1>. USE DEF HttpInvariant, ChangeUrl, environment, sources, worker, history
<1>1. HttpTypes'
  BY DEF HttpTypes, TypeOK
<1>2. SetUpAlone' /\ OfKnownVersion' /\ OneStream'
  BY DEF SetUpAlone, OfKnownVersion, Distinct, OneStream
<1>. QED  BY <1>1, <1>2

LEMMA UrlCheckedKeeps == ASSUME HttpConstants, HttpInvariant, UrlChecked PROVE HttpInvariant'
<1>. USE DEF HttpInvariant, UrlChecked, environment, worker
<1>1. Own("new") \in LinkUrls /\ EndsAt(Own("new")) \in LinkUrls
  BY Addresses, TargetIsLink
<1>2. HttpTypes'
  <2>1. /\ original' \in LinkUrls /\ final' \in {NoUrl} \cup LinkUrls
        /\ meta' \in [url : LinkUrls, final : {NoUrl} \cup LinkUrls] /\ generation' \in Nat
    BY <1>1 DEF HttpTypes
  <2>. QED  BY <2>1 DEF HttpTypes, TypeOK
<1>3. SetUpAlone' /\ OfKnownVersion'
  BY DEF SetUpAlone, OfKnownVersion, Distinct
<1>4. OneStream'
  BY DEF OneStream
<1>. QED  BY <1>2, <1>3, <1>4

-----------------------------------------------------------------------------
(* The invariant and what follows from it.                                 *)

LEMMA HttpInductive == ASSUME HttpConstants PROVE Spec => []HttpInvariant
<1>1. HttpInvariant /\ [Next]_vars => HttpInvariant'
  <2>. SUFFICES ASSUME HttpInvariant, [Next]_vars PROVE HttpInvariant'
    OBVIOUS
  <2>1. CASE Next
    <3>1. CASE Moves \/ Start \/ Pause \/ WithUrl \/ Probed
      BY <3>1, MovesKeeps, StartKeeps, PauseKeeps, WithUrlKeeps, ProbedKeeps
    <3>2. CASE Finish \/ ChangeUrl \/ UrlChecked \/ BenchOver \/ ValidateMirror
      BY <3>2, FinishKeeps, ChangeUrlKeeps, UrlCheckedKeeps, MirrorsKeep
    <3>3. CASE \E l \in Links : Expires(l)
      BY <3>3, ExpiresKeeps
    <3>4. ASSUME NEW w \in Workers, Take(w) \/ Pick(w) \/ Accepted(w) \/ Mismatch(w) \/ Complete(w)
          PROVE  HttpInvariant'
      BY <3>4, TakeKeeps, PickKeeps, AcceptedKeeps, MismatchKeeps, CompleteKeeps
    <3>5. ASSUME NEW w \in Workers, Gone(w) \/ Disturbed(w) \/ Reopen(w) \/ Receive(w) \/ Dropped(w)
          PROVE  HttpInvariant'
      BY <3>5, GoneKeeps, DisturbedKeeps, ReopenKeeps, ReceiveKeeps, DroppedKeeps
    <3>. QED  BY <2>1, <3>1, <3>2, <3>3, <3>4, <3>5 DEF Next
  <2>2. CASE UNCHANGED vars
    <3>1. HttpTypes'
      BY <2>2 DEF vars, environment, sources, worker, history, HttpInvariant, HttpTypes, TypeOK
    <3>2. SetUpAlone' /\ OfKnownVersion' /\ OneStream'
      BY <2>2 DEF vars, environment, sources, worker, history, HttpInvariant, SetUpAlone,
                  OfKnownVersion, Distinct, OneStream
    <3>. QED  BY <3>1, <3>2 DEF HttpInvariant
  <2>. QED  BY <2>1, <2>2
<1>. QED  BY <1>1, HttpStarts, PTL DEF Spec

\* Every variable of an HTTP download keeps its type, over all runs, answers and changes of
\* address (http/download.rs, http/fetcher.rs).
THEOREM HttpTypeCorrect == ASSUME HttpConstants PROVE Spec => []TypeOK
<1>1. HttpInvariant => TypeOK
  BY DEF HttpInvariant, HttpTypes
<1>. QED  BY <1>1, HttpInductive, PTL

\* The part file of a download with byte ranges never mixes two versions of the resource
\* (http/fetcher.rs accept_partial, http/download.rs verify_overlap): with strong ETags whenever
\* the resource changes, and with a date or without validators unless it changes at work.
THEOREM OneVersionKept == ASSUME HttpConstants PROVE Spec => []OneVersion
<1>1. HttpInvariant => OneVersion
  BY DEF HttpInvariant, OfKnownVersion, Distinct, OneVersion
<1>. QED  BY <1>1, HttpInductive, PTL

\* A file of known size that came in one stream is one answer of the server from its first to
\* its last byte, however often the stream was restarted (segmented/worker.rs on_failure).
THEOREM StreamIsOneAnswer ==
  ASSUME HttpConstants PROVE Spec => [](server.sized => FileIsOneAnswer)
<1>1. HttpInvariant => (server.sized => FileIsOneAnswer)
  <2>. SUFFICES ASSUME HttpInvariant, server.sized, phase = "done", ~server.ranged
                PROVE  \E v \in 1 .. MaxVersions :
                         \A b \in 1 .. Blocks : disk[b] = IF b <= LengthOf(v) THEN v ELSE 0
    BY DEF FileIsOneAnswer
  <2>1. PICK v \in 1 .. MaxVersions : \A b \in 1 .. Blocks : disk[b] = v
    BY DEF HttpInvariant, OneStream
  <2>2. LengthOf(v) = Blocks
    BY DEF LengthOf
  <2>. QED  BY <2>1, <2>2 DEF HttpConstants
<1>. QED  BY <1>1, HttpInductive, PTL

------------------------------------------------------------------------------
(***************************************************************************)
(* Authentication, for any number of fetchers, schemes and faults.  That   *)
(* no stamp, a nonce with its count, was used twice is not inductive: the  *)
(* invariant follows it from the moment it is made.  The stamps on their   *)
(* way and those the server saw are apart, and none is ahead of the count  *)
(* of the shared client.  It also needs that only a fetcher whose server   *)
(* offers NTLM comes to the third leg, where a refusal brings no nonce.    *)
(***************************************************************************)
CONSTANTS Schemes, OfferSets, MaxSends
VARIABLES scheme, offers, client, ntlm, workers, conns, nonces, used, replayed, sends

\* Its fetchers and its count of faults go by the names they have above.
Auth == INSTANCE HttpAuth

\* A request with Digest credentials is on its way; its nonce and count.
Pending(w) == workers[w].at = "sent" /\ workers[w].header.is = "digest"
Stamp(w) == <<workers[w].header.nonce, workers[w].header.count>>

Headers == [is : {"none", "basic", "digest", "negotiate"}, nonce : Nat, count : Nat]
Fetchers == [at : {"idle", "build", "sent", "leg1", "leg3", "done", "refused"},
             rounds : Nat, ready : BOOLEAN, header : Headers]
AuthTypes ==
  /\ client \in [is : {"none", "basic", "digest"}, nonce : Nat, count : Nat]
  /\ workers \in [Workers -> Fetchers]
  /\ nonces.given \in Nat /\ used \subseteq Nat \X Nat /\ ntlm \in BOOLEAN

\* Who is in a handshake wants NTLM, which the server offers once it answered the first leg.
HandshakeWanted ==
  /\ ntlm => Auth!WantsNtlm
  /\ \A w \in Workers : /\ workers[w].at \in {"leg1", "leg3"} => ntlm
                        /\ workers[w].at = "leg3" => "ntlm" \in offers

\* The nonce was given out, and the shared client has counted this far with it.
Behind(s) ==
  s[1] <= nonces.given /\ (client.is = "digest" /\ s[1] = client.nonce => s[2] <= client.count)

\* What was sent, and what is being sent, was counted; no two requests have one stamp.
StampsApart ==
  /\ client.is = "digest" => client.nonce <= nonces.given
  /\ \A s \in used : Behind(s)
  /\ \A w \in Workers : Pending(w) => Behind(Stamp(w)) /\ Stamp(w) \notin used
  /\ \A v, w \in Workers : Pending(v) /\ Pending(w) /\ Stamp(v) = Stamp(w) => v = w

AuthInvariant == AuthTypes /\ HandshakeWanted /\ StampsApart /\ ~replayed

LEMMA AuthStarts == ASSUME Auth!Init PROVE AuthInvariant
<1>1. AuthTypes
  BY DEF Auth!Init, AuthTypes, Auth!NoClient, Auth!Nothing, Auth!Idle, Fetchers, Headers
<1>2. HandshakeWanted
  BY DEF Auth!Init, HandshakeWanted, Auth!Idle, Auth!WantsNtlm
<1>3. StampsApart /\ ~replayed
  BY DEF Auth!Init, StampsApart, Auth!Idle, Auth!NoClient, Pending
<1>. QED  BY <1>1, <1>2, <1>3 DEF AuthInvariant

\* A step of one fetcher that sends nothing with Digest credentials and leaves the client alone.
LEMMA AuthQuietStep ==
  ASSUME AuthInvariant, NEW w \in Workers, workers' \in [Workers -> Fetchers],
         \A v \in Workers \ {w} : workers'[v] = workers[v],
         ~Pending(w)', workers'[w].at \in {"leg1", "leg3"} => ntlm,
         workers'[w].at = "leg3" => "ntlm" \in offers,
         UNCHANGED <<scheme, client, ntlm, offers, nonces, used, replayed>>
  PROVE  AuthInvariant'
<1>. USE DEF AuthInvariant
<1>1. AuthTypes'
  BY DEF AuthTypes
<1>2. HandshakeWanted'
  BY DEF HandshakeWanted, Auth!WantsNtlm
<1>3. StampsApart'
  BY DEF StampsApart, Behind, Pending, Stamp
<1>. QED  BY <1>1, <1>2, <1>3

LEMMA AuthSend == ASSUME AuthInvariant, NEW w \in Workers, Auth!Send(w) PROVE AuthInvariant'
<1>1. workers' = [workers EXCEPT ![w].at = "build", ![w].rounds = 0] /\ workers \in [Workers -> Fetchers]
  BY DEF Auth!Send, AuthInvariant, AuthTypes
<1>2. workers' \in [Workers -> Fetchers] /\ workers'[w].at = "build"
  BY <1>1 DEF Fetchers
<1>. QED  BY <1>1, <1>2, AuthQuietStep DEF Auth!Send, Auth!server, Pending

\* A request on its way carries the header made for it; the others' requests stay as they are.
LEMMA SentWith ==
  ASSUME NEW w \in Workers, workers \in [Workers -> Fetchers], NEW h \in Headers,
         workers' = [workers EXCEPT ![w].at = "sent", ![w].header = h]
  PROVE  /\ workers' \in [Workers -> Fetchers] /\ workers'[w].at = "sent" /\ workers'[w].header = h
         /\ \A v \in Workers \ {w} : workers'[v] = workers[v]
<1>. DEFINE new == [[workers[w] EXCEPT !.at = "sent"] EXCEPT !.header = h]
<1>1. new \in Fetchers /\ new.at = "sent" /\ new.header = h
  BY DEF Fetchers
<1>2. workers' = [workers EXCEPT ![w] = new]
  BY DEF Fetchers
<1>. HIDE DEF new
<1>. QED  BY <1>1, <1>2

LEMMA AuthBuild == ASSUME AuthInvariant, NEW w \in Workers, Auth!Build(w) PROVE AuthInvariant'
<1>1. workers \in [Workers -> Fetchers] /\ client \in [is : {"none", "basic", "digest"}, nonce : Nat, count : Nat]
  BY DEF AuthInvariant, AuthTypes
<1>2. CASE ntlm /\ ~workers[w].ready
  <2>1. workers' = [workers EXCEPT ![w].at = "leg1", ![w].header = [Auth!Nothing EXCEPT !.is = "negotiate"]]
        /\ client' = client
    BY <1>2 DEF Auth!Build
  <2>2. [Auth!Nothing EXCEPT !.is = "negotiate"] \in Headers
    BY DEF Auth!Nothing, Headers
  <2>3. workers' \in [Workers -> Fetchers] /\ workers'[w].at = "leg1"
    BY <1>1, <2>1, <2>2 DEF Fetchers
  <2>. QED  BY <1>2, <2>1, <2>3, AuthQuietStep DEF Auth!Build, Auth!server, Pending
<1>3. CASE ~(ntlm /\ ~workers[w].ready) /\ client.is # "digest"
  <2>. DEFINE h == Auth!Authorization
  <2>1. workers' = [workers EXCEPT ![w].at = "sent", ![w].header = h] /\ client' = client
    BY <1>3 DEF Auth!Build, Auth!Counted
  <2>2. h \in Headers /\ h.is # "digest"
    BY <1>1, <1>3 DEF Auth!Authorization, Auth!Counted, Auth!Nothing, Headers
  <2>. HIDE DEF h
  <2>3. /\ workers' \in [Workers -> Fetchers] /\ workers'[w].at = "sent" /\ workers'[w].header = h
        /\ \A v \in Workers \ {w} : workers'[v] = workers[v]
    BY <1>1, <2>1, <2>2, SentWith
  <2>. QED  BY <2>1, <2>2, <2>3, AuthQuietStep DEF Auth!Build, Auth!server, Pending
<1>4. CASE ~(ntlm /\ ~workers[w].ready) /\ client.is = "digest"
  <2>. [client EXCEPT !.count = @ + 1] \in Headers
    BY <1>1, <1>4 DEF Headers
  <2>. PICK h \in Headers : h = [client EXCEPT !.count = @ + 1]
    OBVIOUS
  <2>1. /\ workers' = [workers EXCEPT ![w].at = "sent", ![w].header = h] /\ client' = h
        /\ UNCHANGED <<scheme, ntlm, offers, nonces, used, replayed>>
    BY <1>4 DEF Auth!Build, Auth!Counted, Auth!Authorization, Auth!server
  <2>2. /\ h \in [is : {"none", "basic", "digest"}, nonce : Nat, count : Nat]
        /\ h.is = "digest" /\ h.nonce = client.nonce /\ h.count = client.count + 1
    BY <1>1, <1>4 DEF Headers
  <2>3. /\ workers' \in [Workers -> Fetchers] /\ workers'[w].at = "sent" /\ workers'[w].header = h
        /\ \A v \in Workers \ {w} : workers'[v] = workers[v]
    BY <1>1, <2>1, <2>2, SentWith
  <2>4. AuthTypes'
    BY <2>1, <2>2, <2>3 DEF AuthInvariant, AuthTypes
  <2>5. HandshakeWanted'
    BY <2>1, <2>3 DEF AuthInvariant, HandshakeWanted, Auth!WantsNtlm
  <2>6. \A s \in Nat \X Nat : Behind(s) => Behind(s)' /\ s # <<h.nonce, h.count>>
    BY <1>1, <1>4, <2>1, <2>2 DEF Behind
  <2>7. Behind(<<h.nonce, h.count>>)'
    BY <1>1, <1>4, <2>1, <2>2 DEF Behind, AuthInvariant, StampsApart
  <2>8. \A v \in Workers \ {w} : /\ Pending(v)' <=> Pending(v)
                                 /\ Stamp(v)' = Stamp(v) /\ Stamp(v) \in Nat \X Nat
    BY <1>1, <2>3 DEF Pending, Stamp, Fetchers, Headers
  <2>9. Stamp(w)' = <<h.nonce, h.count>>
    BY <2>3 DEF Stamp
  <2>10. StampsApart'
    <3>1. client'.is = "digest" => client'.nonce <= nonces'.given
      BY <1>4, <2>1, <2>2 DEF AuthInvariant, StampsApart
    <3>2. \A s \in used' : Behind(s)'
      BY <2>1, <2>6 DEF AuthInvariant, AuthTypes, StampsApart
    <3>3. \A v \in Workers : Pending(v)' => Behind(Stamp(v))' /\ Stamp(v)' \notin used'
      BY <2>1, <2>6, <2>7, <2>8, <2>9 DEF AuthInvariant, AuthTypes, StampsApart
    <3>4. \A v \in Workers \ {w} : Pending(v)' => Stamp(v)' # Stamp(w)'
      BY <2>6, <2>8, <2>9 DEF AuthInvariant, StampsApart
    <3>5. \A u, v \in Workers : Pending(u)' /\ Pending(v)' /\ Stamp(u)' = Stamp(v)' => u = v
      BY <2>8, <3>4 DEF AuthInvariant, StampsApart
    <3>. QED  BY <3>1, <3>2, <3>3, <3>5 DEF StampsApart
  <2>. QED  BY <2>1, <2>4, <2>5, <2>10 DEF AuthInvariant
<1>. QED  BY <1>2, <1>3, <1>4

\* What an answer may do to the shared client: leave it, replace it by one without Digest, or
\* start a count with the nonce just given out.
Rechallenged ==
  /\ nonces'.given \in {nonces.given, nonces.given + 1}
  /\ \/ client' = client
     \/ client'.is \in {"none", "basic"}
     \/ client'.is = "digest" /\ client'.nonce = nonces'.given /\ nonces'.given = nonces.given + 1

\* A request's stamp is seen once: the step that answers it takes it off the way.
LEMMA AuthAnsweredStep ==
  ASSUME AuthInvariant, NEW w \in Workers, workers' \in [Workers -> Fetchers],
         \A v \in Workers \ {w} : workers'[v] = workers[v],
         workers'[w].at \in {"build", "done", "refused"},
         client' \in [is : {"none", "basic", "digest"}, nonce : Nat, count : Nat], Rechallenged,
         (workers[w].at = "sent" /\ Auth!Note(w)) \/ UNCHANGED <<used, replayed>>,
         ntlm' = ntlm \/ (ntlm' = TRUE /\ Auth!WantsNtlm), UNCHANGED <<scheme, offers>>
  PROVE  AuthInvariant'
<1>1. AuthTypes /\ HandshakeWanted /\ StampsApart /\ ~replayed
  BY DEF AuthInvariant
<1>2. /\ ~Pending(w)'
      /\ \A v \in Workers \ {w} : /\ Pending(v)' <=> Pending(v)
                                  /\ Stamp(v)' = Stamp(v) /\ Stamp(v) \in Nat \X Nat
  BY <1>1 DEF AuthTypes, Pending, Stamp, Fetchers, Headers
<1>3. /\ used' \in {used, used \cup {Stamp(w)}} /\ ~replayed'
      /\ used' # used => Pending(w)
  <2>1. CASE UNCHANGED <<used, replayed>>
    BY <1>1, <2>1
  <2>2. CASE Pending(w) /\ Auth!Note(w)
    <3>1. Stamp(w) \notin used
      BY <1>1, <2>2 DEF StampsApart
    <3>. QED  BY <1>1, <2>2, <3>1 DEF Auth!Note, Pending, Stamp
  <2>3. CASE workers[w].header.is # "digest" /\ Auth!Note(w)
    BY <1>1, <2>3 DEF Auth!Note
  <2>. QED  BY <2>1, <2>2, <2>3 DEF Pending
<1>4. Stamp(w) \in Nat \X Nat
  BY <1>1 DEF AuthTypes, Stamp, Fetchers, Headers
<1>5. AuthTypes'
  <2>1. ntlm' \in BOOLEAN
    BY <1>1 DEF AuthTypes
  <2>2. nonces'.given \in Nat /\ used' \subseteq Nat \X Nat
    BY <1>1, <1>3, <1>4 DEF AuthTypes, Rechallenged
  <2>. QED  BY <2>1, <2>2 DEF AuthTypes
<1>6. HandshakeWanted'
  BY <1>1 DEF HandshakeWanted, Auth!WantsNtlm, AuthTypes
<1>7. \A s \in Nat \X Nat : Behind(s) => Behind(s)'
  BY <1>1 DEF Behind, Rechallenged, AuthTypes
<1>8. StampsApart'
  <2>1. client'.is = "digest" => client'.nonce <= nonces'.given
    BY <1>1 DEF StampsApart, Rechallenged, AuthTypes
  <2>2. \A s \in used' : Behind(s)'
    BY <1>1, <1>3, <1>4, <1>7 DEF AuthTypes, StampsApart
  <2>3. \A v \in Workers : Pending(v)' => Behind(Stamp(v))'
    BY <1>1, <1>2, <1>7 DEF StampsApart
  <2>4. \A v \in Workers : Pending(v)' => Stamp(v)' \notin used'
    BY <1>1, <1>2, <1>3 DEF StampsApart
  <2>5. \A u, v \in Workers : Pending(u)' /\ Pending(v)' /\ Stamp(u)' = Stamp(v)' => u = v
    BY <1>1, <1>2 DEF StampsApart
  <2>. QED  BY <2>1, <2>2, <2>3, <2>4, <2>5 DEF StampsApart
<1>. QED  BY <1>3, <1>5, <1>6, <1>8 DEF AuthInvariant

\* What on_challenge leaves behind, whatever the scheme: a worker that tries again or gave up.
LEMMA RefusedStep ==
  ASSUME AuthInvariant, NEW w \in Workers, NEW nonce \in Nat, Auth!Refused(w, nonce)
  PROVE  /\ workers' \in [Workers -> Fetchers] /\ workers'[w].at \in {"build", "refused"}
         /\ \A v \in Workers \ {w} : workers'[v] = workers[v]
         /\ ntlm' = ntlm \/ (ntlm' = TRUE /\ Auth!WantsNtlm)
         /\ client' \in [is : {"none", "basic", "digest"}, nonce : Nat, count : Nat]
         /\ client' = client \/ (client' = Auth!ClientFor(nonce) /\ ~(Auth!WantsNtlm /\ "ntlm" \in offers))
<1>1. workers \in [Workers -> Fetchers]
      /\ client \in [is : {"none", "basic", "digest"}, nonce : Nat, count : Nat]
  BY DEF AuthInvariant, AuthTypes
<1>2. Auth!ClientFor(nonce) \in [is : {"none", "basic", "digest"}, nonce : Nat, count : Nat]
  BY DEF Auth!ClientFor, Auth!NoClient
<1>3. CASE workers' = [workers EXCEPT ![w].at = "build", ![w].rounds = @ + 1, ![w].ready = Auth!Unready(@)]
  <2>1. workers' \in [Workers -> Fetchers] /\ workers'[w].at = "build"
        /\ \A v \in Workers \ {w} : workers'[v] = workers[v]
    BY <1>1, <1>3 DEF Fetchers, Auth!Unready
  <2>. QED  BY <1>1, <1>2, <2>1 DEF Auth!Refused, Auth!Fails
<1>4. CASE Auth!Fails(w)
  <2>1. workers' \in [Workers -> Fetchers] /\ workers'[w].at = "refused"
        /\ \A v \in Workers \ {w} : workers'[v] = workers[v]
    BY <1>1, <1>4 DEF Fetchers, Auth!Fails
  <2>. QED  BY <1>1, <1>4, <2>1 DEF Auth!Fails
<1>. QED  BY <1>3, <1>4 DEF Auth!Refused

LEMMA AnsweredStep ==
  ASSUME AuthInvariant, NEW w \in Workers, Auth!Answered(w)
  PROVE  /\ workers' \in [Workers -> Fetchers] /\ workers'[w].at = "done"
         /\ \A v \in Workers \ {w} : workers'[v] = workers[v]
         /\ UNCHANGED <<client, ntlm>>
BY DEF AuthInvariant, AuthTypes, Auth!Answered, Fetchers

LEMMA AuthAnswer == ASSUME AuthInvariant, NEW w \in Workers, Auth!Answer(w) PROVE AuthInvariant'
<1>1. /\ workers[w].at = "sent" /\ Auth!Note(w) /\ UNCHANGED <<scheme, offers>>
      /\ nonces.given \in Nat
      /\ client \in [is : {"none", "basic", "digest"}, nonce : Nat, count : Nat]
  BY DEF Auth!Answer, AuthInvariant, AuthTypes
<1>2. CASE Auth!Accepts(w)
  <2>1. Auth!Answered(w) /\ UNCHANGED nonces
    BY <1>2 DEF Auth!Answer
  <2>. QED  BY <1>1, <2>1, AnsweredStep, AuthAnsweredStep DEF Rechallenged
<1>3. CASE ~Auth!Accepts(w)
  <2>1. Auth!Refused(w, nonces.given + 1) /\ nonces.given + 1 \in Nat
    BY <1>1, <1>3 DEF Auth!Answer
  <2>2. /\ "digest" \in offers => nonces'.given = nonces.given + 1
        /\ "digest" \notin offers => nonces' = nonces
    BY <1>3 DEF Auth!Answer
  <2>3. LET c == Auth!ClientFor(nonces.given + 1)
        IN c.is = "basic" \/ (c.is = "digest" /\ c.nonce = nonces.given + 1 /\ "digest" \in offers)
    BY DEF Auth!ClientFor, Auth!NoClient, Auth!Allowed
  <2>4. Rechallenged
    BY <2>1, <2>2, <2>3, RefusedStep DEF Rechallenged
  <2>. QED  BY <1>1, <2>1, <2>4, RefusedStep, AuthAnsweredStep
<1>. QED  BY <1>2, <1>3

LEMMA AuthLeg1 == ASSUME AuthInvariant, NEW w \in Workers, Auth!Leg1(w) PROVE AuthInvariant'
<1>1. /\ workers[w].at = "leg1" /\ ntlm /\ workers \in [Workers -> Fetchers]
      /\ client \in [is : {"none", "basic", "digest"}, nonce : Nat, count : Nat]
      /\ UNCHANGED <<scheme, offers, nonces, used, replayed>>
  BY DEF Auth!Leg1, AuthInvariant, AuthTypes, HandshakeWanted
<1>2. CASE Auth!Answered(w)
  BY <1>1, <1>2, AnsweredStep, AuthAnsweredStep DEF Rechallenged
<1>3. CASE Auth!Fails(w)
  <2>1. workers' \in [Workers -> Fetchers] /\ workers'[w].at = "refused" /\ UNCHANGED <<client, ntlm>>
        /\ \A v \in Workers \ {w} : workers'[v] = workers[v]
    BY <1>1, <1>3 DEF Fetchers, Auth!Fails
  <2>. QED  BY <1>1, <2>1, AuthAnsweredStep DEF Rechallenged
<1>4. CASE /\ "ntlm" \in offers /\ workers' = [workers EXCEPT ![w].at = "leg3"]
           /\ UNCHANGED <<client, ntlm>>
  <2>1. workers' \in [Workers -> Fetchers] /\ workers'[w].at = "leg3"
        /\ \A v \in Workers \ {w} : workers'[v] = workers[v]
    BY <1>1, <1>4 DEF Fetchers
  <2>. QED  BY <1>1, <1>4, <2>1, AuthQuietStep DEF Pending
<1>. QED  BY <1>2, <1>3, <1>4 DEF Auth!Leg1

LEMMA AuthLeg3 == ASSUME AuthInvariant, NEW w \in Workers, Auth!Leg3(w) PROVE AuthInvariant'
<1>1. /\ Auth!WantsNtlm /\ "ntlm" \in offers
      /\ client \in [is : {"none", "basic", "digest"}, nonce : Nat, count : Nat]
      /\ UNCHANGED <<scheme, offers, nonces, used, replayed>>
  BY DEF Auth!Leg3, AuthInvariant, AuthTypes, HandshakeWanted
<1>2. CASE Auth!Answered(w)
  BY <1>1, <1>2, AnsweredStep, AuthAnsweredStep DEF Rechallenged
<1>3. CASE Auth!Refused(w, 0)
  <2>1. client' = client
    BY <1>1, <1>3, RefusedStep
  <2>. QED  BY <1>1, <1>3, <2>1, RefusedStep, AuthAnsweredStep DEF Rechallenged
<1>. QED  BY <1>2, <1>3 DEF Auth!Leg3

LEMMA AuthNext == ASSUME AuthInvariant, [Auth!Next]_(Auth!vars) PROVE AuthInvariant'
<1>1. CASE Auth!Forget
  <2>1. nonces'.given = nonces.given
        /\ UNCHANGED <<scheme, client, ntlm, workers, offers, used, replayed>>
    BY <1>1 DEF Auth!Forget
  <2>. QED  BY <2>1 DEF AuthInvariant, AuthTypes, HandshakeWanted, Auth!WantsNtlm, StampsApart, Behind,
                        Pending, Stamp
<1>2. ASSUME NEW w \in Workers, Auth!Drop(w) PROVE AuthInvariant'
  BY <1>2 DEF Auth!Drop, AuthInvariant, AuthTypes, HandshakeWanted, Auth!WantsNtlm, StampsApart, Behind,
              Pending, Stamp
<1>3. CASE UNCHANGED Auth!vars
  BY <1>3 DEF Auth!vars, Auth!server, AuthInvariant, AuthTypes, HandshakeWanted, Auth!WantsNtlm,
              StampsApart, Behind, Pending, Stamp
<1>. QED  BY <1>1, <1>2, <1>3, AuthSend, AuthBuild, AuthAnswer, AuthLeg1, AuthLeg3 DEF Auth!Next

\* However the fetchers' requests, the server's challenges and lost connections interleave, no two
\* requests of a download carry one nonce with one count: the count is taken under the lock
\* (http/auth.rs), and a challenge starts it again only with a nonce nobody had.
THEOREM CountsNeverRepeat == Auth!Spec => []Auth!CountsAreFresh
<1>1. AuthInvariant => Auth!CountsAreFresh
  BY DEF AuthInvariant, Auth!CountsAreFresh
<1>. QED  BY <1>1, AuthStarts, AuthNext, PTL DEF Auth!Spec

------------------------------------------------------------------------------
(***************************************************************************)
(* FTP, for any number of workers, blocks, versions, faults and runs.  The *)
(* invariant says which version each block is of, received or on its way,  *)
(* and that a connection to be used again has no reply outstanding.        *)
(***************************************************************************)
VARIABLES rest, dates, ranged, first, conn, owed, clean, mixed

\* Its other variables go by the names of HttpDownload: the theorems are of Ftp!Spec alone.
Ftp == INSTANCE FtpDownload

FtpConstants == Blocks \in Nat /\ MaxVersions \in Nat \ {0} /\ MaxRetries \in Nat

FtpTypes ==
  /\ Ftp!TypeOK /\ version \in 1 .. MaxVersions /\ got \in [Workers -> 0 .. MaxVersions]
  /\ rest \in BOOLEAN /\ dates \in BOOLEAN /\ ranged \in BOOLEAN /\ movedAtWork \in BOOLEAN

\* A connection that may be used again has no reply outstanding.
CleanIsQuiet == \A w \in Workers : clean[w] => owed[w] = 0

\* Workers only work while the download runs; a resume state is that of a server with REST.
AtWork ==
  /\ phase # "run" => \A w \in Workers : at[w] = "idle"
  /\ saved # 0 => ranged

\* What was received is of the version in the resume state, and so is what is on the way.
OfSavedVersion ==
  ranged /\ dates /\ ~movedAtWork =>
    /\ phase = "done" => \E v \in 0 .. MaxVersions : \A b \in 1 .. Blocks : disk[b] \in {0, v}
    /\ phase # "done" => \A b \in 1 .. Blocks : disk[b] \in {0, saved}
    /\ phase = "run" => saved = version /\ \A w \in Workers : at[w] = "reading" => got[w] = version

FtpInvariant == FtpTypes /\ CleanIsQuiet /\ ~mixed /\ AtWork /\ OfSavedVersion

LEMMA FtpStarts == ASSUME FtpConstants, Ftp!Init PROVE FtpInvariant
<1>1. FtpTypes
  <2>1. version \in 1 .. MaxVersions /\ saved \in 0 .. MaxVersions
    BY DEF FtpConstants, Ftp!Init
  <2>2. disk \in [1 .. Blocks -> 0 .. MaxVersions]
    BY DEF FtpConstants, Ftp!Init
  <2>3. got \in [Workers -> 0 .. MaxVersions] /\ fails \in [Workers -> 0 .. MaxRetries]
    BY DEF FtpConstants, Ftp!Init
  <2>4. rest \in BOOLEAN /\ dates \in BOOLEAN /\ ranged \in BOOLEAN /\ movedAtWork \in BOOLEAN
    BY DEF Ftp!Init
  <2>5. /\ conn \in [Workers -> {"none", "open"}] /\ clean \in [Workers -> BOOLEAN]
        /\ owed \in [Workers -> 0 .. 1] /\ at \in [Workers -> {"idle", "opening", "reading", "over"}]
        /\ phase \in {"off", "probe", "run", "done", "failed"}
    BY DEF Ftp!Init
  <2>. QED  BY <2>1, <2>2, <2>3, <2>4, <2>5 DEF FtpTypes, Ftp!TypeOK
<1>2. CleanIsQuiet /\ ~mixed /\ AtWork
  BY DEF Ftp!Init, CleanIsQuiet, AtWork
<1>3. OfSavedVersion
  BY DEF Ftp!Init, OfSavedVersion
<1>. QED  BY <1>1, <1>2, <1>3 DEF FtpInvariant

LEMMA FtpTypesKept == ASSUME FtpConstants, FtpTypes, Ftp!Next PROVE FtpTypes'
<1>. USE DEF FtpConstants, FtpTypes, Ftp!TypeOK, Ftp!server, Ftp!control, Ftp!worker
<1>1. CASE Ftp!Moves
  BY <1>1 DEF Ftp!Moves
<1>2. CASE Ftp!Start
  BY <1>2 DEF Ftp!Start
<1>3. CASE Ftp!Probed
  BY <1>3 DEF Ftp!Probed
<1>4. CASE Ftp!ProbeFails
  BY <1>4 DEF Ftp!ProbeFails
<1>5. CASE Ftp!Pause
  BY <1>5 DEF Ftp!Pause, Ftp!Ended
<1>6. CASE Ftp!Finish
  BY <1>6 DEF Ftp!Finish, Ftp!Ended
<1>7. ASSUME NEW w \in Workers, Ftp!Take(w) PROVE FtpTypes'
  BY <1>7 DEF Ftp!Take
<1>8. ASSUME NEW w \in Workers, Ftp!Open(w) PROVE FtpTypes'
  BY <1>8 DEF Ftp!Open
<1>9. ASSUME NEW w \in Workers, Ftp!Receive(w) PROVE FtpTypes'
  <2>1. disk' \in [1 .. Blocks -> 0 .. MaxVersions]
    BY <1>9 DEF Ftp!Receive
  <2>2. \/ clean' = [clean EXCEPT ![w] = TRUE] /\ owed' = [owed EXCEPT ![w] = 0]
        \/ UNCHANGED <<clean, owed>>
    BY <1>9 DEF Ftp!Receive
  <2>3. clean' \in [Workers -> BOOLEAN]
    BY <2>2
  <2>4. owed' \in [Workers -> 0 .. 1]
    BY <2>2
  <2>5. /\ at' = [at EXCEPT ![w] = "idle"] /\ fails' = [fails EXCEPT ![w] = 0]
        /\ UNCHANGED <<rest, dates, version, phase, ranged, saved, conn, got, movedAtWork>>
    BY <1>9 DEF Ftp!Receive
  <2>6. at' \in [Workers -> {"idle", "opening", "reading", "over"}] /\ fails' \in [Workers -> 0 .. MaxRetries]
    BY <2>5
  <2>. QED  BY <2>1, <2>3, <2>4, <2>5, <2>6
<1>10. ASSUME NEW w \in Workers, Ftp!Fails(w) PROVE FtpTypes'
  <2>1. \/ /\ fails[w] < MaxRetries /\ fails' = [fails EXCEPT ![w] = fails[w] + 1]
           /\ at' = [at EXCEPT ![w] = "opening"]
        \/ fails' = fails /\ at' = [at EXCEPT ![w] = "over"]
    BY <1>10 DEF Ftp!Fails
  <2>6. UNCHANGED <<rest, dates, version, phase, ranged, saved, clean, got, movedAtWork>>
    BY <1>10 DEF Ftp!Fails
  <2>2. fails' \in [Workers -> 0 .. MaxRetries]
    <3>1. fails[w] < MaxRetries => fails[w] + 1 \in 0 .. MaxRetries
      OBVIOUS
    <3>. QED  BY <2>1, <3>1
  <2>3. at' \in [Workers -> {"idle", "opening", "reading", "over"}]
    BY <2>1
  <2>4. disk' \in [1 .. Blocks -> 0 .. MaxVersions]
    BY <1>10 DEF Ftp!Fails
  <2>5. conn' \in [Workers -> {"none", "open"}] /\ owed' \in [Workers -> 0 .. 1]
    BY <1>10 DEF Ftp!Fails
  <2>. QED  BY <2>2, <2>3, <2>4, <2>5, <2>6
<1>. QED  BY <1>1, <1>2, <1>3, <1>4, <1>5, <1>6, <1>7, <1>8, <1>9, <1>10 DEF Ftp!Next

LEMMA CleanKept ==
  ASSUME FtpTypes, CleanIsQuiet, ~mixed, Ftp!Next PROVE CleanIsQuiet' /\ ~mixed'
<1>. USE DEF CleanIsQuiet, FtpTypes, Ftp!TypeOK, Ftp!control
<1>1. CASE Ftp!Moves \/ Ftp!Start \/ Ftp!Probed \/ Ftp!ProbeFails
  BY <1>1 DEF Ftp!Moves, Ftp!Start, Ftp!Probed, Ftp!ProbeFails
<1>2. CASE Ftp!Pause \/ Ftp!Finish
  BY <1>2 DEF Ftp!Pause, Ftp!Finish, Ftp!Ended
<1>3. ASSUME NEW w \in Workers, Ftp!Take(w) \/ Ftp!Receive(w) \/ Ftp!Fails(w)
      PROVE  CleanIsQuiet' /\ ~mixed'
  <2>1. CASE Ftp!Take(w)
    BY <2>1 DEF Ftp!Take
  <2>2. CASE Ftp!Receive(w)
    BY <2>2 DEF Ftp!Receive
  <2>3. CASE Ftp!Fails(w)
    BY <2>3 DEF Ftp!Fails
  <2>. QED  BY <1>3, <2>1, <2>2, <2>3
<1>4. ASSUME NEW w \in Workers, Ftp!Open(w) PROVE CleanIsQuiet' /\ ~mixed'
  <2>1. Ftp!Reusable(w) => ~(owed[w] > 0)
    BY DEF Ftp!Reusable
  <2>2. ~mixed'
    BY <1>4, <2>1 DEF Ftp!Open
  <2>3. CleanIsQuiet'
    BY <1>4 DEF Ftp!Open
  <2>. QED  BY <2>2, <2>3
<1>. QED  BY <1>1, <1>2, <1>3, <1>4 DEF Ftp!Next

LEMMA AtWorkKept == ASSUME FtpTypes, AtWork, Ftp!Next PROVE AtWork'
<1>. USE DEF AtWork, FtpTypes, Ftp!TypeOK, Ftp!server, Ftp!control, Ftp!worker
<1>1. CASE Ftp!Moves \/ Ftp!Start \/ Ftp!ProbeFails
  BY <1>1 DEF Ftp!Moves, Ftp!Start, Ftp!ProbeFails
<1>2. CASE Ftp!Probed
  BY <1>2 DEF Ftp!Probed
<1>3. CASE Ftp!Pause \/ Ftp!Finish
  BY <1>3 DEF Ftp!Pause, Ftp!Finish, Ftp!Ended
<1>4. ASSUME NEW w \in Workers, Ftp!Take(w) \/ Ftp!Open(w) \/ Ftp!Receive(w) \/ Ftp!Fails(w)
      PROVE  AtWork'
  <2>1. UNCHANGED <<phase, ranged, saved>>
    BY <1>4 DEF Ftp!Take, Ftp!Open, Ftp!Receive, Ftp!Fails
  <2>2. phase = "run"
    BY <1>4 DEF Ftp!Take, Ftp!Open, Ftp!Receive, Ftp!Fails
  <2>. QED  BY <2>1, <2>2
<1>. QED  BY <1>1, <1>2, <1>3, <1>4 DEF Ftp!Next

LEMMA VersionKept ==
  ASSUME FtpConstants, FtpTypes, AtWork, OfSavedVersion, Ftp!Next PROVE OfSavedVersion'
<1>. USE DEF OfSavedVersion, AtWork, FtpTypes, Ftp!TypeOK, Ftp!server, Ftp!control, Ftp!worker
<1>1. CASE Ftp!Moves
  BY <1>1 DEF Ftp!Moves
<1>2. CASE Ftp!Start \/ Ftp!ProbeFails \/ Ftp!Pause
  BY <1>2 DEF Ftp!Start, Ftp!ProbeFails, Ftp!Pause, Ftp!Ended
<1>3. CASE Ftp!Probed
  BY <1>3 DEF Ftp!Probed, Ftp!SameFile, FtpConstants
<1>4. CASE Ftp!Finish
  BY <1>4 DEF Ftp!Finish, Ftp!Ended
<1>5. ASSUME NEW w \in Workers, Ftp!Take(w) PROVE OfSavedVersion'
  BY <1>5 DEF Ftp!Take
<1>6. ASSUME NEW w \in Workers, Ftp!Open(w) PROVE OfSavedVersion'
  BY <1>6 DEF Ftp!Open
<1>7. ASSUME NEW w \in Workers, Ftp!Receive(w) PROVE OfSavedVersion'
  BY <1>7 DEF Ftp!Receive
<1>8. ASSUME NEW w \in Workers, Ftp!Fails(w) PROVE OfSavedVersion'
  BY <1>8 DEF Ftp!Fails
<1>. QED  BY <1>1, <1>2, <1>3, <1>4, <1>5, <1>6, <1>7, <1>8 DEF Ftp!Next

LEMMA FtpInductive == ASSUME FtpConstants PROVE Ftp!Spec => []FtpInvariant
<1>1. ASSUME FtpInvariant, [Ftp!Next]_(Ftp!vars) PROVE FtpInvariant'
  <2>1. CASE Ftp!Next
    BY <1>1, <2>1, FtpTypesKept, CleanKept, AtWorkKept, VersionKept DEF FtpInvariant
  <2>2. CASE UNCHANGED Ftp!vars
    BY <1>1, <2>2 DEF Ftp!vars, Ftp!server, Ftp!control, Ftp!worker, FtpInvariant, FtpTypes,
                      Ftp!TypeOK, CleanIsQuiet, AtWork, OfSavedVersion
  <2>. QED  BY <1>1, <2>1, <2>2
<1>. QED  BY <1>1, FtpStarts, PTL DEF Ftp!Spec

\* An FTP worker never takes the last reply of a transfer it left for the answer to its next
\* command (ftp.rs: last_clean): a connection is used again only when nothing is owed on it.
THEOREM FtpRepliesMatch == ASSUME FtpConstants PROVE Ftp!Spec => []Ftp!RepliesMatch
<1>1. FtpInvariant => Ftp!RepliesMatch
  BY DEF FtpInvariant, Ftp!RepliesMatch
<1>. QED  BY <1>1, FtpInductive, PTL

\* The part file of an FTP download is of one version of the file, however often it was paused
\* and resumed, if the server tells the date and the file stays the same during each run.
THEOREM FtpChangeIsFound == ASSUME FtpConstants PROVE Ftp!Spec => []Ftp!PausedChangeIsFound
<1>1. FtpInvariant => Ftp!PausedChangeIsFound
  BY DEF FtpInvariant, OfSavedVersion, Ftp!PausedChangeIsFound
<1>. QED  BY <1>1, FtpInductive, PTL
=============================================================================
