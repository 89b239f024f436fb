---------------------------- MODULE MCSpeedVote ----------------------------
(***************************************************************************)
(* Values for model-checking SpeedVote: three players, one rate within the *)
(* range of the speed controls, and one above it.                          *)
(***************************************************************************)
EXTENDS SpeedVote

MCPlayers == {0, 1, 2}
MCAsked == {0, 3}
MCMinRate == -1

=============================================================================
