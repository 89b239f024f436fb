---------------------------- MODULE OrderedLink ----------------------------
(* What a connection promises about one direction of its traffic: the       *)
(* receiver is handed the messages the sender wrote, in order and each once; *)
(* it is told that the input ended (LOBMSG_ConnLostEof) only after the last  *)
(* of them, and only when the sender closed its output; and it may be told   *)
(* at any time that the connection broke (LOBMSG_ConnLostErrored), after     *)
(* which nothing more is handed over.                                        *)
EXTENDS Sequences, SequencesExt

VARIABLES wrote,    \* the messages written, oldest first
          shut,     \* the sender has closed its output
          handed,   \* the messages dispatched to the receiver
          notice    \* what the receiver was told of the end: "None", "Eof" or "Errored"
vars == <<wrote, shut, handed, notice>>

Init == wrote = <<>> /\ ~shut /\ handed = <<>> /\ notice = "None"

Write == /\ ~shut
         /\ IsPrefix(wrote, wrote') /\ Len(wrote') = Len(wrote) + 1
         /\ UNCHANGED <<shut, handed, notice>>

Close == shut' = TRUE /\ UNCHANGED <<wrote, handed, notice>>

Ended == notice' = "Eof" => shut /\ handed' = wrote

Hand == /\ notice = "None"
        /\ notice' \in {"None", "Eof", "Errored"}
        /\ IsPrefix(handed, handed') /\ IsPrefix(handed', wrote)
        /\ Ended
        /\ UNCHANGED <<wrote, shut>>

Next == Write \/ Close \/ Hand
Spec == Init /\ [][Next]_vars
=============================================================================
