----------------------------- MODULE MCPlayback -----------------------------
(***************************************************************************)
(* Values for model-checking Playback: small records, read a message at a  *)
(* time.                                                                   *)
(***************************************************************************)
EXTENDS Playback

MCByMessage == {1}
MCReports == {"nothing", "report"}

=============================================================================
