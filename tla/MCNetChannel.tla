---------------------------- MODULE MCNetChannel ----------------------------
(***************************************************************************)
(* Values for model-checking NetChannel: end "a" sends to end "b", which   *)
(* answers with acks.  The constants of the code are scaled down together. *)
(***************************************************************************)
EXTENDS NetChannel

MCEnds == {"a", "b"}
Idle(last) == [bytes |-> 0, messages |-> 0, last |-> last, keepalives |-> 0,
               seals |-> FALSE, impatient |-> FALSE]
Sends(bytes, last) == [Idle(last) EXCEPT !.bytes = bytes]
Says(messages, last) == [Idle(last) EXCEPT !.messages = messages, !.seals = TRUE]

Pair(sender, receiver) == [e \in MCEnds |-> IF e = "a" THEN sender ELSE receiver]

(* Either a stream of up to four datagrams, or messages that ends with keys  *)
(* send each other, the receiver beginning with a keepalive or giving up.    *)
MCStreamOrMessages ==
    {Pair(Sends(3, 5), Idle(4)),
     Pair(Says(2, 3), [Says(0, 2) EXCEPT !.keepalives = 1, !.impatient = TRUE])}

MCStream == {Pair(Sends(3, 13), Idle(13))}

-----------------------------------------------------------------------------
(* The sender's mAcked and mLost are range sets in the code.                 *)
MCMaxOffset == 6

Ranges == INSTANCE RangeSet WITH MaxOffset <- MCMaxOffset

RangeSetsOf(e) == {tx[e].sender.acked, tx[e].sender.lost}

(* Whatever sets of offsets the channel comes to, adding and removing any    *)
(* range leaves the ranges of the plain union and difference, merged; the    *)
(* acked prefix is where the first range ends; and what OnLost queues again, *)
(* the gaps Missing finds in mAcked, is every byte of the lost range that is *)
(* not acked, in order, and no other.                                        *)
RangesStandForSets ==
    \A e \in End : \A S \in RangeSetsOf(e) :
        /\ Ranges!PrefixEnd(Ranges!RangesOf(S)) = PrefixEnd(S)
        /\ \A begin, end \in 0 .. MCMaxOffset : begin < end =>
             LET gaps == Ranges!Missing(Ranges!RangesOf(S), begin, end)
                 rest == Ranges!RangesOf((begin .. end - 1) \ S)
             IN  /\ Ranges!AddRange(Ranges!RangesOf(S), begin, end)
                      = Ranges!RangesOf(S \cup (begin .. end - 1))
                 /\ Ranges!RemoveRange(Ranges!RangesOf(S), begin, end)
                      = Ranges!RangesOf(S \ (begin .. end - 1))
                 /\ Len(gaps) = Cardinality(DOMAIN rest)
                 /\ \A i \in DOMAIN gaps : gaps[i][1] \in DOMAIN rest
                                           /\ gaps[i][2] = rest[gaps[i][1]]
                 /\ \A i, j \in DOMAIN gaps : i < j => gaps[i][1] < gaps[j][1]

=============================================================================
