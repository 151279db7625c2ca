------------------------------- MODULE MCHttp -------------------------------
(***************************************************************************)
(* A small instance of HttpDownload for TLC: one stream without ranges,    *)
(* size or validators.                                                     *)
(***************************************************************************)
EXTENDS HttpDownload

MCUnsized == {[ranged |-> FALSE, sized |-> FALSE, redirects |-> FALSE, validator |-> "none"]}
=============================================================================
