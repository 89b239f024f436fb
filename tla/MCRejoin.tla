------------------------------ MODULE MCRejoin ------------------------------
(***************************************************************************)
(* Values for model-checking Rejoin: c crashes, r holds the recording, and *)
(* p is a peer that knows less, or more, than the recording when it serves.*)
(***************************************************************************)
EXTENDS Rejoin

CONSTANTS c, r, p

=============================================================================
