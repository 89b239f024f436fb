----------------------------- MODULE MCLockstep -----------------------------
(***************************************************************************)
(* Lockstep for TLC.  The players that stay are interchangeable, so        *)
(* safety runs use Symmetry.                                               *)
(***************************************************************************)
EXTENDS LockstepBarrier, TLC

Symmetry == Permutations(Client \ Leavers)

=============================================================================
