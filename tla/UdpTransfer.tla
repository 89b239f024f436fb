---------------------------- MODULE UdpTransfer ----------------------------
(* A link of UdpConnection that is established already, between the ends a  *)
(* and b, as two OrderedLinks.                                              *)
EXTENDS UdpConnection

CONSTANTS a, b
ASSUME EndsAssumption == End = {a, b} /\ a # b

\* The network's part: no packet is so late that its 16-bit numbers could stand
\* for others, half the sequence space further on.
Recent ==
  \A e \in End : \A i \in DOMAIN conn[e], p \in net[e] :
    /\ Talks(e, i) /\ p.kind = "Data" =>
         Got(conn[e][i], log[e][i]) - p.nth <= SeqSpace \div 2
    /\ p.kind \in {"Data", "Ack", "KeepAlive"} =>
         Sent(conn[e][i], log[e][i]) - p.had < SeqSpace \div 2

\* It is kept by any network on a link of few enough messages.
ShortLink == \A e \in End : Items[e] + 1 < SeqSpace \div 2

AToB == INSTANCE OrderedLink WITH
  wrote <- log[a][1].wrote, shut <- log[a][1].shut,
  handed <- log[b][1].handed, notice <- log[b][1].notice
BToA == INSTANCE OrderedLink WITH
  wrote <- log[b][1].wrote, shut <- log[b][1].shut,
  handed <- log[a][1].handed, notice <- log[a][1].notice

\* Each direction of the link of InitEstablished is an OrderedLink: the game at
\* one end is handed what the other wrote, in order, each message once, and is
\* told of the end of the input only after all of it (DispatchFromInput).
ImplementsLink == AToB!Spec /\ BToA!Spec
=============================================================================
