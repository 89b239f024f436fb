--------------------------- MODULE ReliableStream ---------------------------
(***************************************************************************)
(* ReliableSender and ReliableReceiver of the net channel: a byte stream   *)
(* cut into fragments and put together again.  A byte is its stream        *)
(* offset, and a RangeSet is the set of offsets it holds (module RangeSet  *)
(* checks that the ranges represent it).                                   *)
(***************************************************************************)
EXTENDS Integers, FiniteSets

CONSTANTS
    MaxInFlight,   \* maxReliableInFlight: bytes sent past the acked prefix
    HoldLimit,     \* receiveWindow: how far past the delivered bytes it holds
    Budget,        \* stream bytes one datagram carries
    CompactStep    \* kCompactStep

ASSUME StreamAssumption ==
    /\ MaxInFlight \in Nat \ {0}
    /\ HoldLimit \in Nat \ {0}
    /\ Budget \in Nat \ {0}
    /\ CompactStep \in Nat \ {0}

Least(a, b) == IF a <= b THEN a ELSE b

(* RangeSet::PrefixEnd: where the range that starts at 0 ends.               *)
PrefixEnd(S) == CHOOSE n \in 0 .. Cardinality(S) : n \notin S /\ 0 .. n - 1 \subseteq S

-----------------------------------------------------------------------------
(* ReliableSender.  mBuffer holds the bytes base .. end - 1.                 *)
NewSender == [base |-> 0, end |-> 0, nextNew |-> 0, acked |-> {}, lost |-> {}]

Queue(s, size) == [s EXCEPT !.end = @ + size]

FaultyLimit(s) == s.end

Limit(s) == Least(s.end, PrefixEnd(s.acked) + MaxInFlight)

HasPending(s) == s.lost # {} \/ s.nextNew < Limit(s)

(* Write: lost bytes first, the lowest first, then bytes never sent.         *)
Resends(s) == {o \in s.lost : Cardinality({x \in s.lost : x < o}) < Budget}

FaultyFirstSends(s) == s.nextNew .. s.nextNew + Budget - Cardinality(Resends(s)) - 1

FirstSends(s) ==
    s.nextNew .. Least(Limit(s), s.nextNew + Budget - Cardinality(Resends(s))) - 1

AfterWrite(s) ==
    [s EXCEPT !.lost = @ \ Resends(s), !.nextNew = @ + Cardinality(FirstSends(s))]

(* A range [begin, end) for each unbroken run of S.                          *)
Runs(S) ==
    {run \in S \X {o + 1 : o \in S} :
        /\ run[1] < run[2] /\ run[1] .. run[2] - 1 \subseteq S
        /\ run[1] - 1 \notin S /\ run[2] \notin S}

Fragments(s) == Runs(Resends(s)) \cup Runs(FirstSends(s))

(* Compact: the acked front of the buffer is dropped, in large steps.        *)
Compact(s) ==
    LET prefix == PrefixEnd(s.acked)
        consumed == prefix - s.base
        left == s.end - prefix
    IN  IF (consumed >= CompactStep /\ consumed >= left) \/ (consumed > 0 /\ left = 0)
        THEN [s EXCEPT !.base = prefix]
        ELSE s

OnAcked(s, offsets) ==
    Compact([s EXCEPT !.acked = @ \cup offsets, !.lost = @ \ offsets])

FaultyOnLost(s, offsets) == [s EXCEPT !.lost = @ \cup offsets]

OnLost(s, offsets) == [s EXCEPT !.lost = @ \cup (offsets \ s.acked)]

-----------------------------------------------------------------------------
(* ReliableReceiver.  Everything below delivered has been handed on.         *)
NewReceiver == [delivered |-> 0, held |-> {}]

(* Append: what a fragment makes contiguous is delivered.                    *)
TakeIn(r, offsets) ==
    LET have == r.held \cup offsets
        upTo == CHOOSE n \in r.delivered .. r.delivered + Cardinality(have) :
                    n \notin have /\ r.delivered .. n - 1 \subseteq have
    IN  [delivered |-> upTo, held |-> {o \in have : o > upTo}]

FaultyOnFragment(r, begin, end) ==
    IF end <= r.delivered \/ begin > r.delivered THEN r
    ELSE TakeIn(r, {o \in begin .. end - 1 : o >= r.delivered})

(* OnFragment: old bytes are skipped, and a fragment that reaches past the   *)
(* window is dropped whole.                                                  *)
OnFragment(r, begin, end) ==
    IF end <= r.delivered \/ end > r.delivered + HoldLimit THEN r
    ELSE TakeIn(r, {o \in begin .. end - 1 : o >= r.delivered})

(* The bytes the receiver has: delivered, or held for a gap before them.     *)
Has(r, o) == o < r.delivered \/ o \in r.held

=============================================================================
