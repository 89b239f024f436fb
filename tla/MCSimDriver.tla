---------------------------- MODULE MCSimDriver ----------------------------
(***************************************************************************)
(* SimDriver for TLC, the limits of the code scaled down together: with    *)
(* them a beat may be issued at most one ahead of the screen.              *)
(***************************************************************************)
EXTENDS SimDriver

=============================================================================
