----------------------------- MODULE VideoTools -----------------------------
(***************************************************************************)
(* The programs behind video downloads (prism-video, tools.rs, lib.rs,     *)
(* gallery.rs): yt-dlp as an unpacked build that a marker file names or as *)
(* a single file, and deno, ffmpeg, ffprobe and gallery-dl, found, fetched,*)
(* replaced and swept away while they are used, with a kill of the program *)
(* between any two steps.  One installer runs at a time (install_lock).    *)
(***************************************************************************)
EXTENDS Naturals, Sequences, FiniteSets

CONSTANTS
  MaxRelease,      \* releases are numbered 1 .. MaxRelease
  Unpacked,        \* the releases that have an unpacked build
  Custom, OnPath,  \* tools with a path in the options, tools found on PATH
  PreferSystem,    \* VideoOptions::prefer_system_ffmpeg
  ReplacesRunning, \* the platform renames over a program that runs
  Users,           \* probes and jobs that run yt-dlp
  MaxOps, MaxKills, MaxDamage   \* bounds: installs, kills, files lost from outside

Releases == 1 .. MaxRelease
Absent == 0
Wrong == MaxRelease + 1     \* bytes that are not the asset's
Files == {"yt-dlp", "deno", "ffmpeg", "ffprobe", "gallery-dl"}
Names == Releases \X (0 .. MaxOps)      \* yt-dlp-<tag>, yt-dlp-<tag>-<n>
NoName == <<0, 0>>

VARIABLES
  published,  \* the latest release
  marker,     \* yt-dlp.json: the folder it names
  tree,       \* each yt-dlp-* folder
  file,       \* each tool's file in the tools folder
  aside,      \* files moved aside, <tool>.old-<n>
  parts,      \* temporary files and folders
  op, todo,   \* who has install_lock, and the tools it still has to look at
  at,         \* the step of the installer
  rel,        \* the release it installs
  got,        \* what its archive holds
  placing,    \* files extracted and not yet in place
  using,      \* what each user runs: a folder, "file" or nothing
  ops, kills, damage

disk == <<marker, tree, file, aside, parts>>
work == <<op, todo, at, rel, got, placing>>
vars == <<published, disk, work, using, ops, kills, damage>>

Nothing == [how |-> "none", name |-> NoName]

Init ==
  /\ published = 1
  /\ marker = NoName /\ tree = [d \in Names |-> "none"]
  /\ file = [f \in Files |-> Absent] /\ aside = {} /\ parts = {}
  /\ op = "none" /\ todo = <<>> /\ at = "idle" /\ rel = 0 /\ got = Absent /\ placing = {}
  /\ using = [u \in Users |-> Nothing]
  /\ ops = 0 /\ kills = 0 /\ damage = 0

---------------------------------------------------------------------------
(* Where a tool is found: resolve, managed_path.                           *)

HasExe(d) == d # NoName /\ tree[d] \in {"whole", "broken"}
Managed(f) == file[f] # Absent \/ (f = "yt-dlp" /\ HasExe(marker))
Resolve(f) == IF f \in Custom THEN "custom"
              ELSE IF Managed(f) THEN "managed"
              ELSE IF f \in OnPath THEN "system" ELSE "missing"

(* remove_unused_ytdlp: with a build in use, the single file and the other *)
(* folders go.                                                             *)
\* Mutant: the sweep does not look for the executable of the build the marker names.
InUse_AnyMarker(m, t) == m # NoName
InUse(m, t) == m # NoName /\ t[m] \in {"whole", "broken"}
SweptTree(m, t) == IF InUse(m, t) THEN [d \in Names |-> IF d = m THEN t[d] ELSE "none"] ELSE t
SweptFile(m, t, f) == IF InUse(m, t) THEN [f EXCEPT !["yt-dlp"] = Absent] ELSE f

---------------------------------------------------------------------------
(* The callers of the installer.                                           *)

Begin(o, tools) ==
  /\ op = "none" /\ at = "idle" /\ ops < MaxOps
  /\ op' = o /\ todo' = tools /\ at' = "next" /\ ops' = ops + 1
  /\ UNCHANGED <<published, disk, rel, got, placing, using, kills, damage>>

EnsureTools == Begin("ensure", <<"yt-dlp", "deno", "ffmpeg", "gallery-dl">>)
InstallTool == \E f \in {"yt-dlp", "deno", "ffmpeg"} : Begin("install", <<f>>)
UpdateYtDlp == Resolve("yt-dlp") \in {"managed", "missing"} /\ Begin("update", <<"yt-dlp">>)
EnsureGallery == Begin("gallery", <<"gallery-dl">>)

(* Whether the operation installs the tool.                                *)
InstalledRelease == IF HasExe(marker) THEN marker[1] ELSE file["yt-dlp"]
Starts == IF HasExe(marker) THEN tree[marker] = "whole" ELSE file["yt-dlp"] # Absent
SystemFfmpeg == Resolve("ffmpeg") = "system" /\ ~PreferSystem
Needed(f) ==
  CASE op = "install" -> TRUE
    [] op = "update" -> \/ Resolve(f) = "missing" \/ ~Starts
                        \/ InstalledRelease # published
                        \/ ~HasExe(marker) /\ published \in Unpacked
    [] f = "gallery-dl" -> file[f] # 1
    [] f = "ffmpeg" -> "missing" \in {Resolve("ffmpeg"), Resolve("ffprobe")} \/ SystemFfmpeg
    [] OTHER -> Resolve(f) = "missing"

NextTool ==
  /\ at = "next" /\ todo # <<>>
  /\ LET f == Head(todo) IN
     IF Needed(f)
     THEN /\ rel' = IF f = "gallery-dl" THEN 1 ELSE published
          /\ at' = IF f = "yt-dlp" /\ published \notin Unpacked THEN "single" ELSE "fetch"
          /\ file' = IF f = "gallery-dl" THEN [file EXCEPT ![f] = Absent] ELSE file
          /\ UNCHANGED todo
     ELSE todo' = Tail(todo) /\ UNCHANGED <<rel, at, file>>
  /\ UNCHANGED <<published, marker, tree, aside, parts, op, got, placing, using, ops, kills, damage>>

Finished ==
  /\ at = "next" /\ todo = <<>>
  /\ op' = "none" /\ at' = "idle"
  /\ UNCHANGED <<published, disk, todo, rel, got, placing, using, ops, kills, damage>>

(* This tool is done with, or failed: its temporary files are gone.        *)
ToolDone == /\ todo' = Tail(todo) /\ at' = "next" /\ placing' = {}
            /\ parts' = {} /\ rel' = 0 /\ got' = Absent

---------------------------------------------------------------------------
(* download_verified: the bytes may be others, or not all come.            *)

\* Mutant: the hash is computed and not compared.
Accepted_Any(c) == c # Absent
Accepted(c) == c = rel
Fetch ==
  /\ at \in {"fetch", "single"}
  /\ parts' = parts \cup {"archive"}
  /\ got' \in {rel, Wrong}
  /\ at' = IF at = "fetch" THEN "verify" ELSE "verify_single"
  /\ UNCHANGED <<published, marker, tree, file, aside, op, todo, rel, placing, using, ops, kills, damage>>

(* An unpacked build that cannot be had leaves the single file.            *)
Fails ==
  IF Head(todo) = "yt-dlp" /\ at # "verify_single"
  THEN /\ at' = "single" /\ parts' = {} /\ got' = Absent
       /\ UNCHANGED <<todo, rel, placing>>
  ELSE ToolDone

Verify ==
  /\ at \in {"verify", "verify_single"}
  /\ \/ /\ Accepted(got)
        /\ at' = CASE at = "verify" /\ Head(todo) = "yt-dlp" -> "unpack"
                   [] Head(todo) \in {"yt-dlp", "gallery-dl"} -> "replace"
                   [] OTHER -> "extract"
        /\ UNCHANGED <<todo, rel, got, placing, parts>>
     \/ Fails
  /\ UNCHANGED <<published, marker, tree, file, aside, op, using, ops, kills, damage>>

---------------------------------------------------------------------------
(* unpack_ytdlp.                                                           *)

FreshName == CHOOSE d \in Names : /\ d[1] = rel /\ tree[d] = "none"
                                  /\ \A n \in 0 .. d[2] - 1 : tree[<<rel, n>>] # "none"
Unpack ==
  /\ at = "unpack"
  /\ \/ parts' = parts \cup {"staging"} /\ at' = "rename" /\ UNCHANGED <<todo, rel, got, placing>>
     \/ Fails
  /\ UNCHANGED <<published, marker, tree, file, aside, op, using, ops, kills, damage>>

(* The staging folder gets its name: every entry is in it by now.          *)
RenameStaging ==
  /\ at = "rename"
  /\ tree' = [tree EXCEPT ![FreshName] = IF got = rel THEN "whole" ELSE "wrong"]
  /\ placing' = {FreshName}
  /\ parts' = (parts \ {"staging"}) \cup {"marker"} /\ at' = "mark"
  /\ UNCHANGED <<published, marker, file, aside, op, todo, rel, got, using, ops, kills, damage>>

Mark ==
  /\ at = "mark"
  /\ marker' \in placing /\ parts' = parts \ {"marker"} /\ at' = "sweep"
  /\ UNCHANGED <<published, tree, file, aside, op, todo, rel, got, placing, using, ops, kills, damage>>

(* The folder of a program that runs cannot be removed on every platform.  *)
RunningNames == {using[u].name : u \in Users} \ {NoName}
Sweep ==
  /\ at = "sweep"
  /\ file' = SweptFile(marker, tree, file)
  /\ \E locked \in {{}, IF ReplacesRunning THEN {} ELSE RunningNames} :
       tree' = [d \in Names |-> IF d \in locked THEN tree[d] ELSE SweptTree(marker, tree)[d]]
  /\ ToolDone
  /\ UNCHANGED <<published, marker, aside, op, using, ops, kills, damage>>

---------------------------------------------------------------------------
(* extract_zip, extract_tar_xz, install_extracted and atomic_replace.      *)

Wanted(f) == IF f = "ffmpeg" THEN {"ffmpeg", "ffprobe"} ELSE {f}
Extract ==
  /\ at = "extract"
  /\ \/ placing' = Wanted(Head(todo)) /\ at' = "replace" /\ UNCHANGED <<todo, rel, got, parts>>
     \/ Fails
  /\ UNCHANGED <<published, marker, tree, file, aside, op, using, ops, kills, damage>>

InPlace(f, left) ==
  /\ file' = [file EXCEPT ![f] = got]
  /\ IF left # {} THEN at' = "replace" /\ placing' = left /\ UNCHANGED <<todo, rel, got, parts>>
     ELSE IF f = "yt-dlp" THEN at' = "unmark" /\ placing' = {} /\ UNCHANGED <<todo, rel, got, parts>>
     ELSE ToolDone
Left == IF placing = {} THEN {Head(todo)} ELSE placing

(* A rename can fail, also the second one, with the old file moved aside.  *)
IsRunning(f) == f = "yt-dlp" /\ \E u \in Users : using[u].how = "file"
Replace ==
  /\ at = "replace"
  /\ \/ \E f \in Left :
          IF IsRunning(f) /\ ~ReplacesRunning /\ file[f] # Absent
          THEN /\ aside' = aside \cup {f} /\ file' = [file EXCEPT ![f] = Absent]
               /\ placing' = Left /\ UNCHANGED <<at, todo, rel, got, parts>>
          ELSE InPlace(f, Left \ {f}) /\ aside' = IF IsRunning(f) THEN aside ELSE aside \ {f}
     \/ ToolDone /\ UNCHANGED <<file, aside>>
  /\ UNCHANGED <<published, marker, tree, op, using, ops, kills, damage>>

(* The single file is the one in use now.                                  *)
Unmark ==
  /\ at = "unmark"
  /\ marker' = NoName /\ ToolDone
  /\ UNCHANGED <<published, tree, file, aside, op, using, ops, kills, damage>>

---------------------------------------------------------------------------
(* The world: a user of yt-dlp, a new release, a file lost (an antivirus   *)
(* took it), and a kill of the program, whose next start cleans up.        *)

Use(u) ==
  /\ at # "down" /\ using[u] = Nothing /\ Managed("yt-dlp")
  /\ using' = [using EXCEPT ![u] = IF HasExe(marker) THEN [how |-> "build", name |-> marker]
                                                     ELSE [how |-> "file", name |-> NoName]]
  /\ UNCHANGED <<published, disk, work, ops, kills, damage>>
Done(u) ==
  /\ using[u] # Nothing
  /\ using' = [using EXCEPT ![u] = Nothing]
  /\ UNCHANGED <<published, disk, work, ops, kills, damage>>

Publish ==
  /\ published < MaxRelease /\ published' = published + 1
  /\ UNCHANGED <<disk, work, using, ops, kills, damage>>

Damage ==
  /\ at \in {"idle", "down"}      \* a loss during an installation shows after it
  /\ damage < MaxDamage /\ damage' = damage + 1
  /\ \/ \E d \in Names : /\ tree[d] \in {"whole", "broken"}
                         /\ \E how \in {"broken", "no_exe"} : tree' = [tree EXCEPT ![d] = how]
        /\ UNCHANGED file
     \/ \E f \in Files : file[f] # Absent /\ file' = [file EXCEPT ![f] = Absent] /\ UNCHANGED tree
  /\ UNCHANGED <<published, marker, aside, parts, work, using, ops, kills>>

Kill ==
  /\ at # "down" /\ kills < MaxKills /\ kills' = kills + 1
  /\ at' = "down" /\ op' = "none" /\ todo' = <<>> /\ rel' = 0 /\ got' = Absent /\ placing' = {}
  /\ using' = [u \in Users |-> Nothing]
  /\ UNCHANGED <<published, disk, ops, damage>>

(* VideoService::new: cleanup_tools_dir.                                   *)
CleanUp ==
  /\ at = "down" /\ at' = "idle"
  /\ aside' = {} /\ parts' = {}
  /\ file' = SweptFile(marker, tree, file) /\ tree' = SweptTree(marker, tree)
  /\ UNCHANGED <<published, marker, op, todo, rel, got, placing, using, ops, kills, damage>>

Installer == \/ NextTool \/ Finished \/ Fetch \/ Verify \/ Unpack \/ RenameStaging \/ Mark
             \/ Sweep \/ Extract \/ Replace \/ Unmark
Next == \/ EnsureTools \/ InstallTool \/ UpdateYtDlp \/ EnsureGallery
        \/ Installer
        \/ \E u \in Users : Use(u) \/ Done(u)
        \/ Publish \/ Damage \/ Kill \/ CleanUp
Spec == Init /\ [][Next]_vars

---------------------------------------------------------------------------
TypeOK ==
  /\ published \in Releases /\ marker \in Names \cup {NoName}
  /\ tree \in [Names -> {"none", "whole", "broken", "no_exe", "wrong"}]
  /\ file \in [Files -> Absent .. Wrong] /\ aside \subseteq Files
  /\ parts \subseteq {"archive", "staging", "marker"}

(* Whatever is found in the tools folder, at any moment and after a kill   *)
(* between any two steps, is a whole build whose bytes were checked: never *)
(* a part of one, never other bytes (files lost later aside).              *)
UsableIsVerified ==
  /\ \A f \in Files : file[f] # Wrong
  /\ marker # NoName => tree[marker] # "wrong"
  /\ damage = 0 /\ marker # NoName => tree[marker] = "whole"

(* An installation never takes away the yt-dlp that is found: at every step*)
(* there is the old one or the new one, also after a kill and the clean-up *)
(* of the next start (a file moved aside on the platforms that need it, or *)
(* lost from outside, excepted).                                           *)
YtDlpStep ==
  Managed("yt-dlp") /\ damage' = damage /\ aside' \subseteq aside
     => Managed("yt-dlp")'
YtDlpStays == [][YtDlpStep]_vars

(* tools.rs says that a running yt-dlp keeps its old folder, which is never*)
(* deleted while in use.                                                   *)
RunningBuildKept ==
  [][ \A u \in Users : using[u].how = "build" /\ using'[u] = using[u] /\ damage' = damage
        => tree'[using[u].name] = tree[using[u].name] ]_vars
=============================================================================
