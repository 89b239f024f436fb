----------------------------- MODULE TurnBarrier -----------------------------
(***************************************************************************)
(* What the lockstep clients promise the sim, without acks, links or       *)
(* counters: a player takes a turn only when every player it plays with    *)
(* holds the orders of that turn from every player it plays with.          *)
(***************************************************************************)
EXTENDS Integers

CONSTANTS
    Client,  \* the players
    MaxBeat  \* bound: the last turn

VARIABLES
    held,  \* held[i][x]: turns of x's orders that player i holds
    turn,  \* turns player i has taken
    out    \* players that i has excluded

vars == <<held, turn, out>>

Init ==
    /\ held = [i \in Client |-> [x \in Client |-> 0]]
    /\ turn = [i \in Client |-> 0]
    /\ out = [i \in Client |-> {}]

(* A player writes orders; the others come to hold them, never more than     *)
(* were written.                                                             *)
Write(x) ==
    /\ \E q \in held[x][x] + 1 .. MaxBeat : held' = [held EXCEPT ![x][x] = q]
    /\ UNCHANGED <<turn, out>>

Hold(i, x) ==
    /\ i # x
    /\ x \notin out[i]
    /\ \E q \in held[i][x] + 1 .. held[x][x] : held' = [held EXCEPT ![i][x] = q]
    /\ UNCHANGED <<turn, out>>

TakeTurn(i) ==
    /\ \A k, x \in Client \ out[i] : turn[i] < held[k][x]
    /\ turn' = [turn EXCEPT ![i] = @ + 1]
    /\ UNCHANGED <<held, out>>

Exclude(i, x) ==
    /\ i # x
    /\ out' = [out EXCEPT ![i] = @ \cup {x}]
    /\ UNCHANGED <<held, turn>>

Next ==
    \E i \in Client :
        \/ Write(i)
        \/ TakeTurn(i)
        \/ \E x \in Client : Hold(i, x) \/ Exclude(i, x)

Spec == Init /\ [][Next]_vars

==============================================================================
