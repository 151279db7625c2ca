------------------------ MODULE MCSegmentedTransfer ------------------------
(***************************************************************************)
(* Small instances of SegmentedTransfer for TLC.                           *)
(***************************************************************************)
EXTENDS SegmentedTransfer, TLC

\* Worker identifiers are interchangeable.
WorkerSymmetry == Permutations(Workers)
=============================================================================
