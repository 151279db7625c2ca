-------------------------- MODULE HostRegistration --------------------------
(***************************************************************************)
(* Registering the native messaging host with the browsers                 *)
(* (prism-native-host, registration.rs): one manifest per place a browser  *)
(* reads.  On Windows a place is a registry key that names one of two      *)
(* manifest files, elsewhere it is a directory; browsers share places, and *)
(* unregistering one must not take away the place of another.              *)
(***************************************************************************)
EXTENDS Naturals, SequencesExt

CONSTANTS
  Platforms,   \* of "windows", "linux", "macos"
  Browsers,    \* of Browser::ALL
  Hosts,       \* executables the manifest may point to
  Requests,    \* the sets of browsers commands are given, {} for all
  RootSets,    \* the profile folders there may be at first
  MaxSteps     \* bound: commands and damage

VARIABLES
  platform,
  roots,      \* the profile folders there are
  manifests,  \* what is in each place, on Windows in each of the two files
  keys,       \* Windows: the places whose registry key names the app's manifest
  last,       \* the last command: its name, browsers, host and whether it succeeded
  steps

vars == <<platform, roots, manifests, keys, last, steps>>

IsFirefox(b) == b \in {"firefox", "zen"}
Family(b) == IF IsFirefox(b) THEN "firefox" ELSE "chromium"

(* A place is named after the browser it is made for.                      *)
VendorKeys(b) ==
  CASE b = "brave" -> <<"brave", "chrome">>
    [] b \in {"vivaldi", "opera"} -> <<"chrome">>
    [] b = "chrome-for-testing" -> <<"chromium">>
    [] b = "zen" -> <<"firefox">>
    [] OTHER -> <<b>>

Brave ==
  LET there == SelectSeq(<<"brave", "brave-origin">>, LAMBDA r : r \in roots)
  IN  IF there = <<>> THEN <<"brave">> ELSE there

Dirs(b) ==
  CASE b = "brave" -> Brave
    [] b = "opera" /\ platform = "macos" -> <<"chrome", "opera">>
    [] b = "opera" /\ platform # "macos" -> <<"opera", "chrome">>
    [] b = "zen" -> <<"firefox">>
    [] OTHER -> <<b>>

Places(b) == IF platform = "windows" THEN VendorKeys(b) ELSE Dirs(b)
PlacesOf(bs) == UNION {Range(Places(b)) : b \in bs}

AllPlaces == Browsers \union {"brave-origin", "chrome", "firefox", "chromium"}
File(b, place) == IF platform = "windows" THEN Family(b) ELSE place
Installed(b) == (IF b = "brave" THEN {"brave", "brave-origin"} ELSE {b}) \cap roots # {}

None == [kind |-> "none", host |-> ""]
Invalid == [kind |-> "invalid", host |-> ""]
Contents == {None, Invalid} \union [kind : {"chromium", "firefox"}, host : Hosts]
Valid(c) == c \notin {None, Invalid}

(* status_one: the first place with a valid manifest.                      *)
Named(p) == platform = "windows" => p \in keys
Reads(b) == SelectSeq(Places(b), LAMBDA p : Named(p) /\ Valid(manifests[File(b, p)]))
Registered(b) == Reads(b) # <<>>
Manifest(b) == manifests[File(b, Head(Reads(b)))]

TypeOK ==
  /\ platform \in Platforms /\ roots \subseteq AllPlaces /\ keys \subseteq AllPlaces
  /\ manifests \in [AllPlaces -> Contents] /\ last.browsers \subseteq Browsers

Init ==
  /\ platform \in Platforms /\ roots \in RootSets
  /\ manifests \in {[p \in AllPlaces |-> c] : c \in {None, Invalid}}
  /\ keys = {} /\ last = [op |-> "none", browsers |-> {}, host |-> "", ok |-> TRUE]
  /\ steps = 0

Selected(choice) == IF choice = {} THEN Browsers ELSE choice

\* Mutant: a manifest that is there is left as it is.
Written_IfMissing(c, b, h) == IF c = None THEN [kind |-> Family(b), host |-> h] ELSE c
Written(c, b, h) == [kind |-> Family(b), host |-> h]

KeysFor(bs) == IF platform = "windows" THEN PlacesOf(bs) ELSE {}
FoldersFor(bs) == IF platform = "windows" THEN {} ELSE PlacesOf(bs) \ {"firefox"}

(* register: browsers that are not there are skipped unless they were      *)
(* named; creating a manifest's directory creates the profile folder.      *)
Register(choice, h, upTo) ==
  LET wanted == {b \in Selected(choice) : platform = "windows" \/ choice # {} \/ Installed(b)}
      written == UNION {{<<File(b, p), b>> : p \in Range(Places(b))} : b \in upTo}
  IN  /\ upTo \subseteq wanted
      /\ manifests' = [f \in AllPlaces |->
           IF \E w \in written : w[1] = f
           THEN LET b == (CHOOSE w \in written : w[1] = f)[2] IN Written(manifests[f], b, h)
           ELSE manifests[f]]
      /\ keys' = keys \union KeysFor(upTo)
      /\ roots' = roots \union FoldersFor(upTo)
      /\ last' = [op |-> "register", browsers |-> wanted, host |-> h, ok |-> upTo = wanted]
      /\ UNCHANGED platform

\* Mutant: a place is removed whoever else reads it.
KeptFor_Nobody(others) == {}
KeptFor(others) == PlacesOf(others)

(* Windows: the files of a family nobody is left in.                       *)
FilesOfNobody(others) == {f \in {"chromium", "firefox"} : \A o \in others : Family(o) # f}

(* unregister: a place another browser reads is kept.                      *)
Unregister(choice) ==
  LET gone == Selected(choice)
      others == Browsers \ gone
      places == PlacesOf(gone) \ KeptFor(others)
      files == IF platform = "windows" THEN FilesOfNobody(others) ELSE places
  IN  /\ manifests' = [f \in AllPlaces |-> IF f \in files THEN None ELSE manifests[f]]
      /\ keys' = keys \ places
      /\ last' = [op |-> "unregister", browsers |-> gone, host |-> "", ok |-> TRUE]
      /\ UNCHANGED <<platform, roots>>

(* A write that was cut off, or another program's manifest or key.         *)
Damage(p) ==
  /\ manifests' = [manifests EXCEPT ![p] = Invalid] /\ keys' = keys \ {p}
  /\ last' = [op |-> "damage", browsers |-> {}, host |-> "", ok |-> TRUE]
  /\ UNCHANGED <<platform, roots>>

Next ==
  /\ steps < MaxSteps /\ steps' = steps + 1
  /\ \/ \E choice \in Requests, h \in Hosts, upTo \in SUBSET Browsers : Register(choice, h, upTo)
     \/ \E choice \in Requests : Unregister(choice)
     \/ \E p \in AllPlaces : Damage(p)

Spec == Init /\ [][Next]_vars

-----------------------------------------------------------------------------
(* After a registration that succeeded, each of its browsers finds a       *)
(* manifest of the kind it understands, for the host that registered:      *)
(* browsers that share a place never write over each other's kind, and     *)
(* what an older version or a cut-off write left is replaced.              *)
RegisterHeals ==
  last.op = "register" /\ last.ok =>
    \A b \in last.browsers : Registered(b) /\ Manifest(b) = [kind |-> Family(b), host |-> last.host]

(* A browser that was registered stays so until it is unregistered itself  *)
(* or its manifest is damaged: the places it shares are kept.              *)
OthersStep ==
  \A b \in Browsers : Registered(b) /\ ~Registered(b)' => last'.op = "damage" \/ b \in last'.browsers
OthersKept == [][OthersStep]_vars
=============================================================================
