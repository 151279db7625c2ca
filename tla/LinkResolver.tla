---------------------------- MODULE LinkResolver ----------------------------
(***************************************************************************)
(* From the page that shows a file to its download (prism-core,            *)
(* resolver.rs), as operators.  A link is a host, the segments of its path *)
(* and its query, a sequence of pairs.  Every rule yields a set: the link  *)
(* it makes, or nothing when it has nothing to say.                        *)
(***************************************************************************)
EXTENDS Naturals, Sequences, SequencesExt, FiniteSets

CONSTANT GoogleIds   \* the segments and values that can be a Google file's id

Link(host, path, query) == [host |-> host, path |-> path, query |-> query]
Has(query, keys) == \E i \in DOMAIN query : query[i][1] \in keys
Without(query, keys) == SelectSeq(query, LAMBDA kv : kv[1] \notin keys)
Rest(path, n) == SubSeq(path, n, Len(path))

------------------------------------------------------------------------------
(* Google: the id is in the path behind one of four prefixes, or is the     *)
(* query's.                                                                 *)
Documents == {"document", "spreadsheets", "presentation"}
IdsInPath(l) ==
  IF Len(l.path) >= 3 /\ l.path[1] \in Documents \cup {"file"} /\ l.path[2] = "d" THEN {l.path[3]} \cap GoogleIds ELSE {}
IdsInQuery(l) == {l.query[i][2] : i \in {j \in DOMAIN l.query : l.query[j][1] = "id" /\ l.query[j][2] \in GoogleIds
                                          /\ \A k \in 1 .. j - 1 : l.query[k][1] = "id" => l.query[k][2] \notin GoogleIds}}
GoogleId(l) == IF IdsInPath(l) # {} THEN IdsInPath(l) ELSE IdsInQuery(l)

\* A document's kind is looked for anywhere in the path.
KindOf(l) == {k \in Documents : \E i \in 1 .. Len(l.path) - 2 : l.path[i] = k /\ l.path[i + 1] = "d"}
Google(l) ==
  IF l.host \notin {"drive.google.com", "docs.google.com"} THEN {}
  ELSE {CASE KindOf(l) = {} -> Link("drive.usercontent.google.com", <<"download">>,
                                    <<<<"id", id>>, <<"export", "download">>, <<"confirm", "t">>>>)
          [] "document" \in KindOf(l) ->
               Link("docs.google.com", <<"document", "d", id, "export">>, <<<<"format", "docx">>>>)
          [] "spreadsheets" \in KindOf(l) ->
               Link("docs.google.com", <<"spreadsheets", "d", id, "export">>, <<<<"format", "xlsx">>>>)
          [] OTHER -> Link("docs.google.com", <<"presentation", "d", id, "export", "pptx">>, <<>>)
        : id \in GoogleId(l)}

------------------------------------------------------------------------------
(* The other hosts.                                                         *)

Dropbox(l) ==
  IF l.host \notin {"dropbox.com", "www.dropbox.com"} THEN {}
  ELSE {[l EXCEPT !.query = Without(@, {"raw", "dl"}) \o <<<<"dl", "1">>>>]}

Pixeldrain(l) ==
  IF l.host \in {"pixeldrain.com", "www.pixeldrain.com"} /\ Len(l.path) = 2 /\ l.path[1] \in {"u", "file"}
  THEN {Link("pixeldrain.com", <<"api", "file", l.path[2]>>, <<<<"download", "">>>>)} ELSE {}

OneDrive(l) ==
  IF l.host \in {"1drv.ms", "onedrive.live.com", "x.sharepoint.com"} /\ ~Contains(l.query, <<"download", "1">>)
  THEN {[l EXCEPT !.query = Append(@, <<"download", "1">>)]} ELSE {}

Viking(l) ==
  IF l.host \in {"vik1ngfile.site", "www.vik1ngfile.site"} THEN {[l EXCEPT !.host = "vikingfile.com"]} ELSE {}

\* The first segment "blob" is the view, whatever folders of the repository are called.
\* Mutant: the last one.
ViewOf_Last(path) == {i \in 2 .. Len(path) - 1 : path[i] = "blob" /\ \A j \in i + 1 .. Len(path) : path[j] # "blob"}
ViewOf(path) == {i \in 2 .. Len(path) - 1 : path[i] = "blob" /\ \A j \in 1 .. i - 1 : path[j] # "blob"}
Hub(l) ==
  IF l.host # "huggingface.co" THEN {}
  ELSE {[l EXCEPT !.path[i] = "resolve",
                  !.query = IF Has(@, {"download"}) THEN @ ELSE Append(@, <<"download", "true">>)] : i \in ViewOf(l.path)}

GitHub(l) ==
  IF l.host = "github.com" /\ Len(l.path) >= 4 /\ l.path[3] = "blob"
  THEN {Link("raw.githubusercontent.com", SubSeq(l.path, 1, 2) \o Rest(l.path, 4), <<>>)} ELSE {}

GitLab(l) ==
  LET views == {i \in 2 .. Len(l.path) - 1 : l.path[i] = "blob" /\ l.path[i - 1] = "-"}
  IN IF l.host # "gitlab.com" \/ views = {} THEN {}
     ELSE {[l EXCEPT !.path = [i \in DOMAIN @ |-> IF i \in views THEN "raw" ELSE @[i]]]}

Pastebin(l) ==
  IF l.host \in {"pastebin.com", "www.pastebin.com"} /\ Len(l.path) = 1
  THEN {Link("pastebin.com", <<"raw", l.path[1]>>, <<>>)} ELSE {}

Gist(l) ==
  IF l.host = "gist.github.com" /\ Len(l.path) = 2 /\ l.path[2] # "raw"
  THEN {Link("gist.githubusercontent.com", Append(l.path, "raw"), <<>>)} ELSE {}

Buzzheavier(l) ==
  IF l.host \in {"buzzheavier.com", "www.buzzheavier.com"} /\ Len(l.path) >= 2 /\ l.path[1] = "f"
  THEN {Link("buzzheavier.com", Rest(l.path, 2), <<>>)} ELSE {}

------------------------------------------------------------------------------
\* resolve_url: a link of at most one host's rule; the link itself when there is none.
Rules(l) == UNION {Google(l), Dropbox(l), Pixeldrain(l), OneDrive(l), Viking(l), Hub(l), GitHub(l),
                   GitLab(l), Pastebin(l), Gist(l), Buzzheavier(l)}
Resolved(l) == IF Rules(l) = {} THEN l ELSE CHOOSE r \in Rules(l) : TRUE

\* resolve_url_async: a MediaFire page is read for its button, else for a link to its servers.
Page(button, servers) == [button |-> button, servers |-> servers]
ResolvedLive(l, page) ==
  IF Rules(l) # {} THEN Resolved(l)
  ELSE IF l.host \notin {"mediafire.com", "www.mediafire.com"} THEN l
  ELSE IF page.button # {} THEN CHOOSE b \in page.button : TRUE
  ELSE IF page.servers # {} THEN CHOOSE s \in page.servers : TRUE ELSE l

------------------------------------------------------------------------------
\* What a link stands for at its host: the path without the words that say how to show it.  A
\* folder of the file's repository may be called anything.
Words == {"blob", "raw", "resolve"}
FileNamed(l) ==
  CASE l.host \in {"drive.google.com", "docs.google.com"} -> GoogleId(l)
    [] l.host = "drive.usercontent.google.com" -> {l.query[1][2]}
    [] l.host = "huggingface.co" ->
         {<<SubSeq(l.path, 1, i - 1), Rest(l.path, i + 1)>> :
            i \in {j \in DOMAIN l.path : l.path[j] \in Words /\ \A k \in 1 .. j - 1 : l.path[k] \notin Words}}
    [] l.host = "github.com" /\ GitHub(l) # {} -> {SubSeq(l.path, 1, 2) \o Rest(l.path, 4)}
    [] l.host = "gitlab.com" -> {SelectSeq(l.path, LAMBDA s : s \notin {"blob", "raw"})}
    [] l.host \in {"pixeldrain.com", "www.pixeldrain.com"} -> {Last(l.path)}
    [] l.host \in {"gist.github.com", "gist.githubusercontent.com"} -> {SelectSeq(l.path, LAMBDA s : s # "raw")}
    [] l.host = "pastebin.com" -> {Last(l.path)}
    [] l.host \in {"buzzheavier.com", "www.buzzheavier.com"} -> {Last(l.path)}
    [] OTHER -> {l.path}

\* The download is of the file the page showed; and resolving it changes nothing more (a batch
\* resolves its links when it is opened and again when they are added), except in a repository
\* that has a folder called "blob".
SameFile(l) == FileNamed(Resolved(l)) = FileNamed(l)
Settled(l) == Cardinality({i \in DOMAIN l.path : l.path[i] = "blob"}) <= 1 => Resolved(Resolved(l)) = Resolved(l)
=============================================================================
