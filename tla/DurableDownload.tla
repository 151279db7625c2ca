--------------------------- MODULE DurableDownload ---------------------------
(***************************************************************************)
(* What a resumable download promises to whoever keeps its resume state,   *)
(* with no segments, workers or buffers: the state never claims a byte     *)
(* that would not survive a power loss, a byte once durable stays so until *)
(* the download starts over, which it does only when nothing is claimed,   *)
(* and it finishes only with every byte durable.                           *)
(***************************************************************************)
EXTENDS FiniteSets

CONSTANT Content  \* The bytes of the file.

VARIABLES
  claimed,   \* Bytes the stored resume state says need not be fetched again.
  durable,   \* Bytes that survive a power loss.
  finished

vars == << claimed, durable, finished >>

Init == claimed = {} /\ durable = {} /\ finished = FALSE

Store == /\ durable' \in SUBSET Content
         /\ durable \subseteq durable'
         /\ UNCHANGED << claimed, finished >>

Record == /\ claimed' \in SUBSET durable
          /\ UNCHANGED << durable, finished >>

StartOver == /\ claimed = {} /\ ~finished
             /\ durable' = {}
             /\ UNCHANGED << claimed, finished >>

Finish == /\ ~finished
          /\ finished' = TRUE
          /\ durable' = Content
          /\ UNCHANGED claimed

Next == Store \/ Record \/ StartOver \/ Finish

Spec == Init /\ [][Next]_vars

\* The promise.
ClaimsAreDurable == claimed \subseteq durable
=============================================================================
