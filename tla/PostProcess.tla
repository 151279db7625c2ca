----------------------------- MODULE PostProcess -----------------------------
(***************************************************************************)
(* The end of an accelerated video download (prism-video, ffmpeg.rs, and   *)
(* its caller in jobs.rs): the streams in the folder of the job become one *)
(* file under the name of its list entry.  Covers are converted, a file    *)
(* with the tags written, ffmpeg writes beside the output, the result      *)
(* replaces what has the output's name, and then temporary files and       *)
(* streams go.  Jobs run side by side; each may be cancelled and a tool,   *)
(* a write or a rename may fail; the program may be killed anywhere.       *)
(* What a file holds is the set of the jobs whose data is in it.           *)
(***************************************************************************)
EXTENDS Naturals, FiniteSets

CONSTANTS
  Videos,       \* video items with an accelerated plan
  NameOf,       \* the output of each, from the name of its list entry
  Optional,     \* inputs the output does without: subtitles, thumbnail
  KeepInputs,   \* the videos whose PostProcess::delete_inputs is unset
  MaxFailures,  \* bound: failing tools, writes and renames, cancels
  MaxKills      \* bound: kills of the program

Required == {"video", "audio"}
Inputs == Required \cup Optional
Names == {NameOf[v] : v \in Videos}
NoFile == [there |-> FALSE, of |-> {}]
FileOf(S) == [there |-> TRUE, of |-> S]
AtWork == {"check", "cover", "tags", "ffmpeg", "replace", "sides", "temps", "inputs"}

VARIABLES
  phase,     \* where postprocess is for each video
  inputs,    \* the streams in the video's folder
  cover,     \* <stem>.cover.jpg is in the folder
  tags,      \* <name>.prismmeta.txt
  tmp,       \* <name>.prismtmp.<ext>
  output,    \* <name>.<ext>
  moved,     \* the files atomic_replace moved aside (<name>.old-<n>)
  had,       \* history: all required streams were downloaded once
  failures, kills

files == <<inputs, cover, tags, tmp, output, moved>>
vars == <<phase, files, had, failures, kills>>

Init ==
  /\ phase = [v \in Videos |-> "streams"]
  /\ inputs = [v \in Videos |-> {}]
  /\ cover = [v \in Videos |-> FALSE]
  /\ tags = [n \in Names |-> NoFile]
  /\ tmp = [n \in Names |-> NoFile]
  /\ output = [n \in Names |-> NoFile]
  /\ moved = [n \in Names |-> {}]
  /\ had = [v \in Videos |-> FALSE]
  /\ failures = 0 /\ kills = 0

To(v, p) == phase' = [phase EXCEPT ![v] = p]
Fails == failures < MaxFailures /\ failures' = failures + 1
Fine == UNCHANGED failures

(* The required streams are downloaded again where they are missing, the   *)
(* optional ones may have been skipped.                                    *)
StreamsReady(v) ==
  /\ phase[v] = "streams"
  /\ \E S \in SUBSET Optional : inputs' = [inputs EXCEPT ![v] = @ \cup Required \cup S]
  /\ had' = [had EXCEPT ![v] = TRUE]
  /\ To(v, "check")
  /\ UNCHANGED <<cover, tags, tmp, output, moved, failures, kills>>

(* path_of: no picture or no sound, no run.                                *)
Check(v) ==
  /\ phase[v] = "check"
  /\ To(v, IF Required \subseteq inputs[v] THEN "cover" ELSE "failed")
  /\ UNCHANGED <<files, had, failures, kills>>

(* prepare_thumbnail: converting one that is no JPEG or PNG may fail, which *)
(* drops it, or be cancelled, which ends the run; either may leave a part.  *)
Cover(v) ==
  /\ phase[v] = "cover"
  /\ \/ Fine /\ To(v, "tags")
        /\ cover' = IF "thumbnail" \in inputs[v] THEN [cover EXCEPT ![v] = TRUE] ELSE cover
     \/ /\ "thumbnail" \in inputs[v] /\ Fails
        /\ \E part \in BOOLEAN, p \in {"tags", "failed"} :
             cover' = [cover EXCEPT ![v] = @ \/ part] /\ To(v, p)
  /\ UNCHANGED <<inputs, tags, tmp, output, moved, had, kills>>

(* The FFMETADATA file; a write that fails ends the run.                   *)
Tags(v) ==
  /\ phase[v] = "tags"
  /\ tags' = [tags EXCEPT ![NameOf[v]] = FileOf({v})]
  /\ \/ Fine /\ To(v, "ffmpeg")
     \/ Fails /\ To(v, "failed")
  /\ UNCHANGED <<inputs, cover, tmp, output, moved, had, kills>>

(* ffmpeg starts and truncates what has the temporary name; whoever is      *)
(* still writing there goes on writing.                                     *)
Writers(n) == {w \in Videos : NameOf[w] = n /\ phase[w] = "replace"}
FfmpegStarts(v) ==
  /\ phase[v] = "ffmpeg"
  /\ \E S \in SUBSET (IF tmp[NameOf[v]].there THEN Writers(NameOf[v]) ELSE {}) :
       tmp' = [tmp EXCEPT ![NameOf[v]] = FileOf({v} \cup S)]
  /\ To(v, "replace") /\ Fine
  /\ UNCHANGED <<inputs, cover, tags, output, moved, had, kills>>

\* Mutant: a converted cover is not counted among the temporary files.
TempsOf_TagsOnly(v) == UNCHANGED cover /\ tags' = [tags EXCEPT ![NameOf[v]] = NoFile]
TempsOf(v) == cover' = [cover EXCEPT ![v] = FALSE] /\ tags' = [tags EXCEPT ![NameOf[v]] = NoFile]

(* A failed or cancelled ffmpeg: what it wrote and the temporary files go. *)
FfmpegFails(v) ==
  /\ phase[v] = "replace" /\ Fails
  /\ tmp' = [tmp EXCEPT ![NameOf[v]] = NoFile]
  /\ TempsOf(v)
  /\ To(v, "ffmpegFailed")
  /\ UNCHANGED <<inputs, output, moved, had, kills>>

(* atomic_replace: when the rename fails and the output exists, the output  *)
(* is moved aside and the rename tried again.  A missing source makes it    *)
(* fail like an output in use does.                                         *)
Replace(v) ==
  LET n == NameOf[v] IN
  /\ phase[v] = "replace"
  /\ \/ /\ tmp[n].there /\ Fine
        /\ output' = [output EXCEPT ![n] = tmp[n]] /\ tmp' = [tmp EXCEPT ![n] = NoFile]
        /\ To(v, "sides") /\ UNCHANGED moved
     \/ /\ tmp[n].there /\ output[n].there /\ Fails
        /\ moved' \in {moved, [moved EXCEPT ![n] = @ \cup {output[n].of}]}
        /\ output' = [output EXCEPT ![n] = tmp[n]] /\ tmp' = [tmp EXCEPT ![n] = NoFile]
        /\ To(v, "sides")
     \/ /\ ~tmp[n].there /\ output[n].there /\ Fine
        /\ moved' = [moved EXCEPT ![n] = @ \cup {output[n].of}]
        /\ output' = [output EXCEPT ![n] = NoFile]
        /\ To(v, "failed") /\ UNCHANGED tmp
     \/ /\ ~tmp[n].there /\ ~output[n].there /\ Fine
        /\ To(v, "failed") /\ UNCHANGED <<tmp, moved, output>>
     \/ /\ tmp[n].there /\ Fails
        /\ To(v, "failed") /\ UNCHANGED <<tmp, moved, output>>
  /\ UNCHANGED <<inputs, cover, tags, had, kills>>

(* Subtitles and cover are copied beside the output, which nothing here     *)
(* tells apart, then the temporary files go, ...                            *)
RemoveTemps(v) ==
  /\ phase[v] = "sides"
  /\ TempsOf(v)
  /\ To(v, "inputs")
  /\ UNCHANGED <<inputs, tmp, output, moved, had, failures, kills>>
(* ... then the streams, one after the other, ...                           *)
RemoveInput(v) ==
  /\ phase[v] = "inputs" /\ v \notin KeepInputs /\ inputs[v] # {}
  /\ \E i \in inputs[v] : inputs' = [inputs EXCEPT ![v] = @ \ {i}]
  /\ UNCHANGED <<phase, cover, tags, tmp, output, moved, had, failures, kills>>
(* ... and run_accelerated removes the folder.                              *)
Finished(v) ==
  /\ phase[v] = "inputs" /\ (v \in KeepInputs \/ inputs[v] = {})
  /\ inputs' = [inputs EXCEPT ![v] = {}]
  /\ cover' = [cover EXCEPT ![v] = FALSE]
  /\ To(v, "done")
  /\ UNCHANGED <<tags, tmp, output, moved, had, failures, kills>>

(* A video that failed, with yt-dlp as well, or was stopped is started     *)
(* again; its streams are downloads that go on from what they have.        *)
Again(v) ==
  /\ phase[v] \in {"failed", "ffmpegFailed"}
  /\ To(v, "streams")
  /\ UNCHANGED <<files, had, failures, kills>>
(* A kill: the rows of the running ones say so, and they start over.       *)
Kill ==
  /\ kills < MaxKills /\ kills' = kills + 1
  /\ phase' = [v \in Videos |-> IF phase[v] \in AtWork THEN "streams" ELSE phase[v]]
  /\ UNCHANGED <<files, had, failures>>

Next ==
  \/ \E v \in Videos :
       \/ StreamsReady(v) \/ Check(v) \/ Cover(v) \/ Tags(v) \/ FfmpegStarts(v) \/ FfmpegFails(v)
       \/ Replace(v) \/ RemoveTemps(v) \/ RemoveInput(v) \/ Finished(v) \/ Again(v)
  \/ Kill
Spec == Init /\ [][Next]_vars

------------------------------------------------------------------------------
TypeOK ==
  /\ \A v \in Videos : /\ phase[v] \in AtWork \cup {"streams", "failed", "ffmpegFailed", "done"}
                       /\ inputs[v] \subseteq Inputs /\ cover[v] \in BOOLEAN
                       /\ had[v] \in BOOLEAN
  /\ \A n \in Names : /\ tmp[n].of \subseteq Videos /\ output[n].of \subseteq Videos
                      /\ moved[n] \subseteq SUBSET Videos

(* Whatever is cancelled, fails or is killed, a video whose required        *)
(* streams are gone has its whole file under the output's name; and where   *)
(* a run ended well or ffmpeg failed, nothing temporary is left (postprocess). *)
StreamsOrOutput ==
  \A v \in Videos :
    /\ had[v] /\ ~(Required \subseteq inputs[v]) => output[NameOf[v]] = FileOf({v})
    /\ phase[v] \in {"done", "ffmpegFailed"} =>
         ~cover[v] /\ ~tmp[NameOf[v]].there /\ ~tags[NameOf[v]].there

(* A finished video's file stays what it is: no other video of the same     *)
(* folder and name replaces it or moves it away.                            *)
FinishedVideosKept ==
  \A v \in Videos : phase[v] = "done" => output[NameOf[v]] = FileOf({v})
=============================================================================
