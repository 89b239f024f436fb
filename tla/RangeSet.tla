------------------------------ MODULE RangeSet ------------------------------
(***************************************************************************)
(* RangeSet: a set of stream offsets kept as ranges [begin, end), merged   *)
(* and never touching, in a map from begin to end.  ReliableStream and     *)
(* NetChannel reason about the plain set; MCNetChannel checks that these   *)
(* operations give the ranges of the set they should give.                 *)
(***************************************************************************)
EXTENDS Integers, Sequences, FiniteSetsExt

CONSTANT MaxOffset   \* bound: no range reaches past it

(* The ranges that stand for a set of offsets: one for each unbroken run.    *)
RangesOf(S) ==
    [b \in {o \in S : o - 1 \notin S} |->
        Min({e \in b + 1 .. MaxOffset + 1 : e \notin S})]

Erase(R, key) == [b \in DOMAIN R \ {key} |-> R[b]]

Emplace(R, begin, end) ==
    [b \in DOMAIN R \cup {begin} |-> IF b \in DOMAIN R THEN R[b] ELSE end]

(* The entry before upper_bound(begin), where there is one.                  *)
Before(R, begin) == {b \in DOMAIN R : b <= begin}

After(R, begin) == {b \in DOMAIN R : b > begin}

Later(a, b) == IF a >= b THEN a ELSE b

-----------------------------------------------------------------------------
(* Add: joins the range before, then every range its growing end reaches.    *)
FaultySwallow(R, begin, end) ==
    LET next == {b \in After(R, begin) : b < end}
    IN  IF next = {} THEN Emplace(R, begin, end)
        ELSE Emplace(Erase(R, Min(next)), begin, Later(end, R[Min(next)]))

RECURSIVE Swallow(_, _, _)
Swallow(R, begin, end) ==
    LET next == After(R, begin)
    IN  IF next = {} \/ Min(next) > end THEN Emplace(R, begin, end)
        ELSE Swallow(Erase(R, Min(next)), begin, Later(end, R[Min(next)]))

AddRange(R, begin, end) ==
    LET previous == Max(Before(R, begin))
    IN  IF Before(R, begin) # {} /\ R[previous] >= begin
        THEN Swallow(Erase(R, previous), previous, Later(end, R[previous]))
        ELSE Swallow(R, begin, end)

(* Remove: the range before is cut in up to two, and the ranges inside go,   *)
(* the last one leaving its rest.                                            *)
CutBefore(R, begin, end) ==
    LET previous == Max(Before(R, begin))
        last == R[previous]
        left == IF previous < begin THEN Emplace(Erase(R, previous), previous, begin)
                ELSE Erase(R, previous)
    IN  IF Before(R, begin) = {} \/ R[previous] <= begin THEN R
        ELSE IF last > end THEN Emplace(left, end, last)
        ELSE left

RECURSIVE CutInside(_, _, _)
CutInside(R, begin, end) ==
    LET inside == {b \in DOMAIN R : begin <= b /\ b < end}
        first == Min(inside)
    IN  IF inside = {} THEN R
        ELSE IF R[first] > end THEN Emplace(Erase(R, first), end, R[first])
        ELSE CutInside(Erase(R, first), begin, end)

RemoveRange(R, begin, end) == CutInside(CutBefore(R, begin, end), begin, end)

(* Missing: the parts of [begin, end) the set does not hold, in order.       *)
FaultyMissing(R, begin, end) ==
    LET GapsFrom[cursor \in 0 .. MaxOffset] ==
            LET next == {b \in DOMAIN R : b > cursor /\ b < end}
            IN  IF cursor >= end THEN <<>>
                ELSE IF next = {} THEN <<<<cursor, end>>>>
                ELSE <<<<cursor, Min(next)>>>> \o GapsFrom[R[Min(next)]]
    IN  GapsFrom[begin]

Missing(R, begin, end) ==
    LET GapsFrom[cursor \in 0 .. MaxOffset] ==
            LET next == {b \in DOMAIN R : b > cursor /\ b < end}
            IN  IF cursor >= end THEN <<>>
                ELSE IF next = {} THEN <<<<cursor, end>>>>
                ELSE <<<<cursor, Min(next)>>>> \o GapsFrom[R[Min(next)]]
    IN  IF Before(R, begin) = {} THEN GapsFrom[begin]
        ELSE GapsFrom[Later(begin, R[Max(Before(R, begin))])]

PrefixEnd(R) == IF 0 \in DOMAIN R THEN R[0] ELSE 0

=============================================================================
