---------------------------- MODULE ReceiveWindow ----------------------------
(***************************************************************************)
(* ReceiveWindow of the net channel: which sequence numbers have arrived,  *)
(* kept as the newest one and a ring of WindowSize flags.                  *)
(***************************************************************************)
EXTENDS Integers

CONSTANT WindowSize   \* kSize

ASSUME WindowAssumption == WindowSize \in Nat \ {0}

Slot(s) == s % WindowSize

EmptyWindow == [newest |-> 0, seen |-> {}]

Window == [newest : Nat, seen : SUBSET (0 .. WindowSize - 1)]

(* Verdict::New; anything else is a duplicate or too old and is dropped.     *)
IsNew(w, s) ==
    \/ s > w.newest
    \/ s > 0 /\ w.newest - s < WindowSize /\ Slot(s) \notin w.seen

(* The slots that from now on stand for sequences not received.              *)
FaultyCleared(w, s) == {}

Cleared(w, s) ==
    IF s - w.newest >= WindowSize THEN 0 .. WindowSize - 1
    ELSE {Slot(x) : x \in w.newest + 1 .. s - 1}

FaultyAccept(w, s) ==
    IF s > w.newest
    THEN [newest |-> s, seen |-> (w.seen \ Cleared(w, s)) \cup {Slot(s)}]
    ELSE w

Accept(w, s) ==
    IF s > w.newest
    THEN [newest |-> s, seen |-> (w.seen \ Cleared(w, s)) \cup {Slot(s)}]
    ELSE [w EXCEPT !.seen = @ \cup {Slot(s)}]

(* What AckBits and BitsDownFrom report of a sequence in their reach.        *)
Received(w, s) ==
    /\ s \in 1 .. w.newest
    /\ w.newest - s < WindowSize
    /\ Slot(s) \in w.seen

=============================================================================
