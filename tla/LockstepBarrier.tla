-------------------------- MODULE LockstepBarrier --------------------------
(***************************************************************************)
(* The lockstep clients as a turn barrier: the abstract specification      *)
(* under the mapping that forgets acks, links and counters.                *)
(***************************************************************************)
EXTENDS Lockstep

(* The players i has closed its links to, by its own ejection or a failure.  *)
Excluded == [i \in Client |-> {x \in Client : ejectPending[i][x]}]

Barrier == INSTANCE TurnBarrier
             WITH held <- queued, turn <- dispatchedBeat, out <- Excluded

(* The clients implement the turn barrier: whatever the links carry, a       *)
(* player dispatches a beat only when everyone it has not excluded holds it  *)
(* of all those it has not excluded, and holds no beat that was not issued.  *)
ImplementsBarrier == Barrier!Spec

=============================================================================
