---------------------------- MODULE HuggingFace ----------------------------
(***************************************************************************)
(* Models from Hugging Face (prism-core, huggingface.rs), as operators:    *)
(* what a link names, which files of a repository are suggested, which of  *)
(* them are there already, which items are added for the rest, and which   *)
(* requests carry the access token.  A repository is a set of files; a     *)
(* file's path is its top folder, base name, precision mark and extension. *)
(***************************************************************************)
EXTENDS Naturals, Sequences, SequencesExt, FiniteSets, FiniteSetsExt

CONSTANTS
  Nil,
  LabelOrder    \* the labels of versions, in the order of their names

------------------------------------------------------------------------------
(* Links: a host, and the segments of the path that matter.                 *)

DefaultServer == "huggingface.co"
HubHosts(server) == {DefaultServer, "hf.co", "hf-mirror.com", server}

\* A model's page or a folder in it opens the window; the page of a file is its download; the
\* download itself is a link like any other (parse_url).
Parse(link, server) ==
  CASE link.host \notin HubHosts(server) \/ link.reserved -> [is |-> "none"]
    [] link.action = "blob" /\ link.path # "" -> [is |-> "file", link |-> [link EXCEPT !.action = "resolve"]]
    [] link.action = "resolve" -> [is |-> "none"]
    [] link.action = "tree" -> [is |-> "repo", revision |-> link.revision, path |-> link.path]
    [] OTHER -> [is |-> "repo", revision |-> Nil, path |-> ""]

\* Mutant: the page of a file is taken for a page of its repository.
FileUrl_Page(server, sha, f) ==
  [host |-> server, reserved |-> FALSE, action |-> "blob", revision |-> sha, path |-> f]
FileUrl(server, sha, f) ==
  [host |-> server, reserved |-> FALSE, action |-> "resolve", revision |-> sha, path |-> f]

\* authorize: the token goes to downloads from the server set, and to no others.
Authorized(link, server, own) ==
  /\ link.host = server \/ (server = DefaultServer /\ link.host \in {DefaultServer, "hf.co"})
  /\ link.action = "resolve"
  /\ ~own

------------------------------------------------------------------------------
(* Files.                                                                   *)

Small == 1   \* SMALL_FILE, in a unit that makes 2 a file of weights
Big(f) == f.size > Small
IsGguf(f) == f.ext = "gguf"
AlternativeFolders == {"onnx", "openvino", "coreml", "tflite", "mlx", "original", "tensorrt"}
AlternativeExts == {"h5", "msgpack", "ot", "onnx", "onnx_data", "tflite", "mlmodel", "pb"}
IsAlternative(f) == f.top \in AlternativeFolders \/ f.ext \in AlternativeExts

Label(f) == IF f.quant # Nil THEN f.quant ELSE f.base
SizeOf(S) == MapThenSumSet(LAMBDA f : f.size, S)

Preferred == <<"Q4_K_M", "UD-Q4_K_XL", "Q4_K_XL", "Q4_K_S", "IQ4_XS", "IQ4_NL", "Q4_0", "MXFP4",
               "MXFP4_MOE", "Q5_K_M", "UD-Q5_K_XL", "Q5_K_S", "Q6_K", "UD-Q6_K_XL", "Q8_0",
               "UD-Q8_K_XL">>
PlaceOf(label, order) == CHOOSE i \in DOMAIN order : order[i] = label

\* The parts of one version of a GGUF model.
Version(gguf, label) == {f \in gguf : ~f.mmproj /\ Label(f) = label}

\* The preferred version, else the middle one by size.
Picked(gguf) ==
  LET labels == {Label(f) : f \in {g \in gguf : ~g.mmproj}}
      known == labels \cap ToSet(Preferred)
      Smaller(x, y) == LET a == SizeOf(Version(gguf, x)) b == SizeOf(Version(gguf, y))
                       IN  a < b \/ (a = b /\ PlaceOf(x, LabelOrder) < PlaceOf(y, LabelOrder))
  IN  IF labels = {} THEN Nil
      ELSE IF known # {}
      THEN CHOOSE l \in known : \A k \in known : PlaceOf(l, Preferred) <= PlaceOf(k, Preferred)
      ELSE CHOOSE l \in labels :
             Cardinality({k \in labels : Smaller(k, l)}) = (Cardinality(labels) - 1) \div 2

\* The vision part: 16 bits if there is one.
VisionRank(f) == IF f.quant \in {"F16", "BF16", "Q8_0", "F32"}
                 THEN [F16 |-> 0, BF16 |-> 1, Q8_0 |-> 2, F32 |-> 4][f.quant] ELSE 3
Vision(gguf) ==
  LET parts == {f \in gguf : f.mmproj}
  IN  IF parts = {} THEN {}
      ELSE {CHOOSE f \in parts : \A g \in parts : VisionRank(f) <= VisionRank(g)}

\* Mutant: the files of a version are told apart by their whole names.
SuggestGguf_OnePart(gguf) ==
  LET v == Version(gguf, Picked(gguf)) IN (IF v = {} THEN {} ELSE {CHOOSE f \in v : TRUE}) \cup Vision(gguf)
SuggestGguf(gguf) ==
  (IF Picked(gguf) = Nil THEN {} ELSE Version(gguf, Picked(gguf))) \cup Vision(gguf)

Torch == {"bin", "pt", "pth", "ckpt"}
SuggestWeights(repo) ==
  LET safetensors == \E f \in repo : f.ext = "safetensors"
      Kept(f) == CASE f.ext \in Torch /\ safetensors -> ~Big(f) /\ f.base # "pytorch_model"
                   [] f.ext = "gguf" -> FALSE
                   [] OTHER -> TRUE
      Repeats(f) == /\ f.mark \in {"fp16", "fp32", "bf16"}
                    /\ \E g \in repo : /\ <<g.top, g.base, g.ext>> = <<f.top, f.base, f.ext>>
                                       /\ g.mark = ""
  IN  {f \in repo : ~IsAlternative(f) /\ Kept(f) /\ ~Repeats(f)}

\* suggest: what a link points into, else one version of a GGUF model or the main weights.
Suggest(repo, folder) ==
  LET inside == {f \in repo : f.top = folder}
      gguf == {f \in repo : IsGguf(f)}
      elsewhere == \E f \in repo : f.ext \in {"safetensors", "bin", "pt", "pth"} /\ Big(f)
  IN  IF folder # "" /\ inside # {} THEN inside
      ELSE IF gguf # {} /\ ~elsewhere THEN SuggestGguf(gguf)
      ELSE SuggestWeights(repo)

------------------------------------------------------------------------------
(* What is there, and what is added.                                        *)

\* hf_present: listed items that have not failed, else files of the right size.
Present(repo, server, sha, listed, disk) ==
  [listed |-> {f \in repo : FileUrl(server, sha, f) \in listed},
   onDisk |-> {f \in repo : /\ FileUrl(server, sha, f) \notin listed
                            /\ \E d \in disk : d.file = f /\ d.size = f.size}]

\* download_order: small files first, then by path.
DownloadOrder(files, Rank(_)) ==
  SetToSortSeq(files, LAMBDA f, g : \/ ~Big(f) /\ Big(g)
                                    \/ (Big(f) <=> Big(g)) /\ Rank(f) < Rank(g))

\* hf_add: one item for each file chosen, from the server set.
Added(files, server, sha, Rank(_)) ==
  LET order == DownloadOrder(files, Rank)
  IN  [i \in DOMAIN order |-> [link |-> FileUrl(server, sha, order[i]), size |-> order[i].size]]

------------------------------------------------------------------------------
(* What these decisions have to be.                                         *)

Weights(f) == f.ext \in Torch \cup {"safetensors", "gguf"} /\ Big(f)
FormatOf(f) == IF f.ext \in Torch THEN "torch" ELSE f.ext

\* A suggestion never mixes the forms a model comes in: of a GGUF model it is one version with
\* all its parts and one vision part at most, of others the weights in one format; and a
\* link to a folder gets just what is in it (suggest: "in one weights format").
SuggestionIsOneModel(repo, folder) ==
  LET s == Suggest(repo, folder)
      plain == {f \in s : IsGguf(f) /\ ~f.mmproj}
  IN  (folder = "" \/ \A f \in repo : f.top # folder) =>
        /\ Cardinality({FormatOf(f) : f \in {g \in s : Weights(g)}}) <= 1
        /\ \A f \in plain : Version({g \in repo : IsGguf(g)}, Label(f)) = plain
        /\ Cardinality({f \in s : f.mmproj}) <= 1

\* A suggestion for a repository whose main folders have weights has weights (suggest_weights:
\* "Everything needed to load the model").
SuggestionLoads(repo) ==
  (\E f \in repo : Weights(f) /\ ~IsAlternative(f)) => \E f \in Suggest(repo, "") : Weights(f)

\* What the window adds for a repository is downloaded from its server, each file once and none
\* that the list already has; those links get the token, are found as listed afterwards, and
\* opening one does not lead back to the window (hf_present, hf_add, authorize, parse).
AddedIsDownloaded(repo, server, listed, disk) ==
  LET there == Present(repo, server, "sha", listed, disk)
      Rank(f) == Cardinality({g \in repo : g.size < f.size})
      added == Added(repo \ (there.listed \cup there.onDisk), server, "sha", Rank)
      links == {added[i].link : i \in DOMAIN added}
  IN  /\ Cardinality(links) = Len(added) /\ links \cap listed = {}
      /\ \A l \in links : Authorized(l, server, FALSE) /\ Parse(l, server).is = "none"
      /\ Present(repo, server, "sha", listed \cup links, disk).listed
           = there.listed \cup (repo \ there.onDisk)
      /\ \A i, j \in DOMAIN added : (added[i].size > Small /\ added[j].size <= Small) => j < i
=============================================================================
