--------------------------- MODULE UdpConnection ---------------------------
(* The original engine's reliable connection over datagrams: connectors at   *)
(* two ends, each with a list of connections to the other (CNetUDPConnector, *)
(* CNetUDPConnection), and a network that loses, delays, reorders and        *)
(* repeats packets.  CONNECT and ANSWER set a connection up; DATA carries    *)
(* the stream under sequence numbers and a window, every packet acknowledges *)
(* (next expected number and a mask of the early packets held), unacked DATA *)
(* is sent again, an empty DATA ends the stream, and GOODBYE is the last     *)
(* packet of a connection scheduled for destruction.                         *)
(*                                                                           *)
(* A handler of the connector's thread (Entry: ReceiveData, SendData) holds  *)
(* lock_ throughout and is one action.  Timers are left out: whatever a      *)
(* deadline permits may happen at any time.  The deflate filters, serial     *)
(* numbers and ping times are left out.                                      *)
EXTENDS Integers, FiniteSets, Sequences, SequencesExt

CONSTANTS End,        \* the two ends
          Items,      \* Items[e]: messages an end writes at most on a connection (bound)
          Window,     \* mWindow: 32, up to 4096 on the link of a player catching up
          MaskBits,   \* width of the early mask (32)
          SeqSpace,   \* 2^16: sequence numbers are taken modulo it
          InputCap,   \* kMaxBufferedInputBytes, in messages
          Leavers,    \* the ends whose game ends its connections
          Quitters,   \* the ends whose lobby destroys its connector
          MaxSilences, \* MaxSilences[e]: times a live peer is silent for ten seconds (bound)
          MaxConns,   \* MaxConns[e]: connections an end makes at most (bound)
          FirstSeq,   \* the sequence number an established link has come to
          MaxTime,    \* MaxTime[e]: handshake packets an end sends at most (bound)
          NetCap      \* NetCap[e]: packets under way to e at most (bound)

ASSUME EndAssumption == IsFiniteSet(End) /\ Cardinality(End) = 2
ASSUME SeqAssumption == /\ SeqSpace \in Nat /\ Window \in Nat /\ MaskBits \in Nat
                        /\ SeqSpace % 2 = 0 /\ Window + 1 < SeqSpace \div 2
                        /\ FirstSeq \in 0..(SeqSpace - 1)
ASSUME BoundAssumption == /\ InputCap \in Nat
                          /\ \A e \in End : Items[e] \in Nat /\ MaxTime[e] \in Nat

VARIABLES conn,     \* conn[e]: mConnections of e's connector, under the order they were
                    \* made in (each is pushed to the front: the newest is scanned first)
          net,      \* net[e]: packets under way to e
          clock,    \* clock[e]: GetTime as handshake packets show it
          closed,   \* closed[e]: mClosed
          silences, \* silences[e]: times e's connections timed out on a live peer
          log       \* log[e][id]: what was written to and handed out by e's connections
vars == <<conn, net, clock, closed, silences, log>>

Peer(e) == CHOOSE p \in End : p # e
Eof == <<>>          \* the empty packet

NewLog == [wrote |-> <<>>, shut |-> FALSE, handed |-> <<>>, notice |-> "None"]

\* A connection as the constructor leaves it.  hs is mHandshakeTime, owes
\* mInResponseTo # 0.
NewConnection(s) ==
  [state |-> s, hs |-> 0, owes |-> FALSE,
   next |-> 0, remote |-> 0, expected |-> 0, unacked |-> {}, early |-> {},
   out |-> <<>>, shut |-> FALSE, sentShutdown |-> FALSE,
   input |-> <<>>, eof |-> FALSE, dispatchedEof |-> FALSE,
   destroy |-> FALSE, destroyed |-> FALSE]

BeforeErrored(c) == c.state # "Errored"

\* The signed 16-bit difference of two sequence numbers.
Delta(x, y) == ((x - y + SeqSpace + SeqSpace \div 2) % SeqSpace) - SeqSpace \div 2
FaultyFollowing(s) == s + 1
Following(s) == (s + 1) % SeqSpace

\* The early packets' offsets past the expected number, as far as the mask goes.
FaultyEarlyMask(c) == {d \in 1..MaskBits : \E q \in c.early : Delta(q.seq, c.expected) = d + 1}
EarlyMask(c) == {d \in 1..MaskBits : \E q \in c.early : Delta(q.seq, c.expected) = d}

----------------------------------------------------------------------------
(* Sending *)

\* DATA packets made, and packets consumed, so far: the end marker is the last.
Sent(c, l) == Len(l.wrote) - Len(c.out) + (IF c.sentShutdown THEN 1 ELSE 0)
Got(c, l) == Len(l.handed) + Len(c.input) + (IF c.eof THEN 1 ELSE 0)

\* nth and had are history: the numbers that seq and expected stand for.
ConnectPacket(t) == [kind |-> "Connect", time |-> t]
AnswerPacket(t) == [kind |-> "Answer", time |-> t]
DataPacket(c, l, item) ==
  [kind |-> "Data", seq |-> c.next, expected |-> c.expected, mask |-> EarlyMask(c),
   item |-> item, nth |-> Sent(c, l), had |-> Got(c, l)]
AckPacket(c, l, kind) ==
  [kind |-> kind, expected |-> c.expected, mask |-> EarlyMask(c), had |-> Got(c, l)]
GoodbyePacket == [kind |-> "Goodbye", expected |-> 0, mask |-> {}]

Set(e, i, c) == conn' = [conn EXCEPT ![e][i] = c]

\* SendPacket: the packet goes out, at the cost of another when the network is
\* full, and no acknowledgement is owed any more.
Carried(e, p) ==
  IF Cardinality(net[e]) < NetCap[e] \/ p \in net[e] THEN {net[e] \union {p}}
  ELSE {(net[e] \ {q}) \union {p} : q \in net[e]}
SendPacket(e, i, c, p) ==
  /\ Set(e, i, [c EXCEPT !.owes = FALSE])
  /\ \E n \in Carried(Peer(e), p) : net' = [net EXCEPT ![Peer(e)] = n]

Sending(e, i) == i \in DOMAIN conn[e] /\ ~conn[e][i].destroyed

SendHandshake(e, i, s, p) ==
  /\ Sending(e, i) /\ conn[e][i].state = s /\ ~conn[e][i].destroy
  /\ clock[e] < MaxTime[e]
  /\ clock' = [clock EXCEPT ![e] = @ + 1]
  /\ SendPacket(e, i, conn[e][i], p)
  /\ UNCHANGED <<closed, silences, log>>

SendConnect(e, i) == SendHandshake(e, i, "Connecting", ConnectPacket(clock[e] + 1))
SendAnswer(e, i) == SendHandshake(e, i, "Answering", AnswerPacket(clock[e] + 1))

\* A connection that is not established, or not any more, goes when asked to.
DestroyAtOnce(e, i) ==
  /\ Sending(e, i) /\ conn[e][i].destroy /\ conn[e][i].state # "Establishing"
  /\ Set(e, i, [conn[e][i] EXCEPT !.destroyed = TRUE])
  /\ UNCHANGED <<net, clock, closed, silences, log>>

Established(e, i) == Sending(e, i) /\ conn[e][i].state = "Establishing"

Hears(c) == c.state \in {"Answering", "Establishing", "TimedOut"}
Silent(e) == \A i \in DOMAIN conn[Peer(e)] :
  ~Hears(conn[Peer(e)][i]) \/ conn[Peer(e)][i].destroyed

\* Ten seconds without an answer; a connection asked to go does not wait on.
TimeOut(e, i) ==
  /\ Established(e, i) /\ (Silent(e) \/ silences[e] < MaxSilences[e])
  /\ Set(e, i, [conn[e][i] EXCEPT !.state = "TimedOut", !.destroyed = conn[e][i].destroy])
  /\ silences' = [silences EXCEPT ![e] = IF Silent(e) THEN @ ELSE @ + 1]
  /\ UNCHANGED <<net, clock, closed, log>>

\* The resend keeps the header the packet was made with.
Resend(e, i) ==
  /\ Established(e, i)
  /\ \E p \in conn[e][i].unacked : SendPacket(e, i, conn[e][i], p)
  /\ UNCHANGED <<clock, closed, silences, log>>

WindowOpen(c) == Delta(c.next, c.remote) <= Window

HasPacketWaiting(c) ==
  WindowOpen(c) /\ (c.out # <<>> \/ (c.shut /\ ~c.sentShutdown))

\* ReadPacket: the next message, or the marker of the end when there is none.
SendData(e, i) ==
  /\ Established(e, i) /\ HasPacketWaiting(conn[e][i])
  /\ LET c == conn[e][i]
         last == c.out = <<>>
         p == DataPacket(c, log[e][i], IF last THEN Eof ELSE Head(c.out))
     IN  SendPacket(e, i, [c EXCEPT !.next = Following(@), !.unacked = @ \union {p},
                                    !.out = IF last THEN @ ELSE Tail(@),
                                    !.sentShutdown = @ \/ last], p)
  /\ UNCHANGED <<clock, closed, silences, log>>

\* Nothing is waiting or unacked, and the end of the stream was sent.
FaultySaidEverything(c) == c.destroy /\ c.sentShutdown
SaidEverything(c) == c.destroy /\ c.sentShutdown /\ c.unacked = {}

SendGoodbye(e, i) ==
  /\ Established(e, i) /\ ~HasPacketWaiting(conn[e][i]) /\ SaidEverything(conn[e][i])
  /\ SendPacket(e, i, [conn[e][i] EXCEPT !.destroyed = TRUE], GoodbyePacket)
  /\ UNCHANGED <<clock, closed, silences, log>>

SendKeepAlive(e, i) ==
  /\ Sending(e, i)
  /\ LET c == conn[e][i] IN
       /\ (c.state = "Establishing" /\ ~HasPacketWaiting(c) /\ ~SaidEverything(c)) \/ (c.state = "TimedOut" /\ ~c.destroy)
       /\ SendPacket(e, i, c, AckPacket(c, log[e][i], "KeepAlive"))
  /\ UNCHANGED <<clock, closed, silences, log>>

SendAck(e, i) ==
  /\ Established(e, i) /\ conn[e][i].owes /\ ~SaidEverything(conn[e][i])
  /\ SendPacket(e, i, conn[e][i], AckPacket(conn[e][i], log[e][i], "Ack"))
  /\ UNCHANGED <<clock, closed, silences, log>>

----------------------------------------------------------------------------
(* Receiving: what a connection becomes when it is given a packet *)

Adopt(c) == [c EXCEPT !.owes = TRUE]
CloseInput(c) == [c EXCEPT !.state = "Errored", !.eof = TRUE]

\* ProcessConnect of a connection: an older or equal time is ignored, a newer
\* one is adopted before the connection is established and ends it after.
AdoptConnect(c, p) ==
  Adopt([c EXCEPT !.hs = p.time, !.state = IF @ = "Connecting" THEN "Answering" ELSE @])
Obsolete(c, p) == p.time <= c.hs
Handshaking(c) == c.state \in {"Pending", "Connecting", "Answering"}

\* mNonceA is zero in every connection, and so is the nonce of every ANSWER.
ReceiverNonceDiffers(c, p) == FALSE

ProcessAnswer(c, p) ==
  IF Obsolete(c, p) \/ ReceiverNonceDiffers(c, p) \/ c.state \notin {"Connecting", "Answering"}
  THEN c
  ELSE Adopt([c EXCEPT !.hs = p.time, !.state = "Establishing"])

\* ProcessAckInternal: traffic opens an answering connection and reopens one
\* that timed out, even when its acknowledgement is refused.
Opened(c) == IF Hears(c) THEN [c EXCEPT !.state = "Establishing"] ELSE c
Refused(c, p) == ~Hears(c) \/ Delta(c.next, p.expected) < 0

FaultyAcked(p, q) == LET d == Delta(q.seq, p.expected) IN d <= 0 \/ d \in p.mask
FaultyAckedShort(p, q) == LET d == Delta(q.seq, p.expected) IN d < -1 \/ d \in p.mask
Acked(p, q) == LET d == Delta(q.seq, p.expected) IN d < 0 \/ d \in p.mask

TakeAck(c, p) ==
  [Opened(c) EXCEPT !.unacked = {q \in @ : ~Acked(p, q)},
                    !.remote = IF Delta(p.expected, @) > 0 THEN p.expected ELSE @]

\* The early packet d numbers past the expected one.
FaultyInPlace(c, d) == {q \in c.early : Delta(q.seq, c.expected) >= d}
InPlace(c, d) == {q \in c.early : Delta(q.seq, c.expected) = d}
Item(c, d) == (CHOOSE q \in InPlace(c, d) : TRUE).item

\* ConsumePacketHeaderData: the input has ended with the first n packets, by the
\* empty one or by too much of it.
EndsBy(c, n) == c.eof \/ (n > 0 /\ (Item(c, n - 1) = Eof \/ Len(c.input) + n > InputCap))
Consumable(c, n) == \A d \in 0..(n - 1) : InPlace(c, d) # {} /\ ~EndsBy(c, d)

\* Everything in order is consumed; after the end of input the rest is dropped.
Consumed(c) == CHOOSE n \in 0..(SeqSpace \div 2) : Consumable(c, n) /\ ~Consumable(c, n + 1)
Drain(c) ==
  LET n == Consumed(c)
      last == n > 0 /\ Item(c, n - 1) = Eof
      more == [d \in 1..(IF last THEN n - 1 ELSE n) |-> Item(c, d - 1)]
      over == n > 0 /\ ~last /\ Len(c.input) + n > InputCap
  IN  [c EXCEPT !.expected = (@ + n) % SeqSpace, !.input = @ \o more,
                !.eof = @ \/ last \/ over, !.state = IF over THEN "Errored" ELSE @,
                !.early = IF c.eof \/ last \/ over THEN {}
                          ELSE {q \in @ : Delta(q.seq, c.expected) >= n}]

OutOfWindow(c, p) == Delta(p.seq, c.expected) < 0 \/ Delta(p.seq, c.expected) > Window
Early(c, p) == \E q \in c.early : q.seq = p.seq

ProcessData(c, p) ==
  IF Refused(c, p) THEN Opened(c)
  ELSE LET d == Adopt(TakeAck(c, p))
       IN  IF OutOfWindow(d, p) \/ Early(d, p) THEN d
           ELSE Drain([d EXCEPT !.early = @ \union {p}])

ProcessAck(c, p) == IF Refused(c, p) THEN Opened(c) ELSE TakeAck(c, p)
ProcessKeepAlive(c, p) == IF Refused(c, p) THEN Opened(c) ELSE Adopt(TakeAck(c, p))

ProcessGoodbye(c, p) ==
  IF Refused(c, p) THEN Opened(c)
  ELSE IF c.eof THEN TakeAck(c, p) ELSE CloseInput(TakeAck(c, p))

Processed(c, p) ==
  CASE p.kind = "Answer"    -> ProcessAnswer(c, p)
    [] p.kind = "Data"      -> ProcessData(c, p)
    [] p.kind = "Ack"       -> ProcessAck(c, p)
    [] p.kind = "KeepAlive" -> ProcessKeepAlive(c, p)
    [] p.kind = "Goodbye"   -> ProcessGoodbye(c, p)
    [] OTHER                -> c

----------------------------------------------------------------------------
(* Receiving: the connector *)

\* A packet that has arrived is gone from the network, or will arrive again.
Arrived(e, p) == \E n \in {net[e] \ {p}, net[e]} : net' = [net EXCEPT ![e] = n]

\* Of connections, the one nearest the front of the list: the newest.
First(S) == {i \in S : \A j \in S : j <= i}
With(f, i, c) == [k \in DOMAIN f \union {i} |-> IF k = i THEN c ELSE f[k]]

\* A packet is the first connection's that has not failed.
ReceivePacket(e, p) ==
  /\ p \in net[e] /\ p.kind # "Connect"
  /\ Arrived(e, p)
  /\ LET target == First({i \in DOMAIN conn[e] : BeforeErrored(conn[e][i])}) IN
       conn' = [conn EXCEPT ![e] =
                  [i \in DOMAIN @ |-> IF i \in target THEN Processed(@[i], p) ELSE @[i]]]
  /\ UNCHANGED <<clock, closed, silences, log>>

NextId(e) == Len(log[e]) + 1

\* CONNECT is offered to the connections in turn until one takes it or finds it
\* obsolete; an established one that hears a newer CONNECT fails and passes it
\* on.  If none takes it a new connection waits for the lobby's word.
ReceiveConnect(e, p) ==
  /\ p \in net[e] /\ p.kind = "Connect"
  /\ LET Takes(c) == BeforeErrored(c) /\ (Handshaking(c) \/ Obsolete(c, p))
         taker == First({i \in DOMAIN conn[e] : Takes(conn[e][i])})
         offered == [i \in DOMAIN conn[e] |->
           CASE i \in taker -> IF Obsolete(conn[e][i], p) THEN conn[e][i]
                               ELSE AdoptConnect(conn[e][i], p)
             [] BeforeErrored(conn[e][i]) /\ \A t \in taker : i > t -> CloseInput(conn[e][i])
             [] OTHER -> conn[e][i]]
         made == taker = {} /\ ~closed[e] /\ Len(log[e]) < MaxConns[e]
         new == AdoptConnect(NewConnection("Pending"), p)
     IN  /\ conn' = [conn EXCEPT ![e] = IF made THEN With(offered, NextId(e), new) ELSE offered]
         /\ log' = [log EXCEPT ![e] = IF made THEN Append(@, NewLog) ELSE @]
  /\ Arrived(e, p)
  /\ UNCHANGED <<clock, closed, silences>>

Lose(e) ==
  /\ \E p \in net[e] : net' = [net EXCEPT ![e] = @ \ {p}]
  /\ UNCHANGED <<conn, clock, closed, silences, log>>

----------------------------------------------------------------------------
(* The game's thread *)

\* Connect, and Accept: a waiting connection is answered; the ones before it,
\* or all when there is none, are replaced.
FaultyReplaced(c) == IF c.destroy THEN c ELSE [c EXCEPT !.state = "Errored"]
Replaced(c) == [c EXCEPT !.state = "Errored"]
Acceptable(c) == c.state = "Pending" /\ ~c.destroy
Connect(e) ==
  LET accepted == First({i \in DOMAIN conn[e] : Acceptable(conn[e][i])})
      scanned == [i \in DOMAIN conn[e] |->
        CASE i \in accepted -> [conn[e][i] EXCEPT !.state = "Answering"]
          [] i \notin accepted /\ \A k \in accepted : i > k -> Replaced(conn[e][i])
          [] OTHER -> conn[e][i]]
      made == accepted = {}
  IN  /\ made => Len(log[e]) < MaxConns[e]
      /\ conn' = [conn EXCEPT ![e] =
           IF made THEN With(scanned, NextId(e), NewConnection("Connecting"))
           ELSE scanned]
      /\ log' = [log EXCEPT ![e] = IF made THEN Append(@, NewLog) ELSE @]
      /\ ~closed[e]
      /\ UNCHANGED <<net, clock, closed, silences>>

ShutOutput(c) == [c EXCEPT !.shut = TRUE, !.destroy = TRUE]
Schedule(e, which) ==
  /\ conn' = [conn EXCEPT ![e] = [i \in DOMAIN @ |-> IF i \in which THEN ShutOutput(@[i]) ELSE @[i]]]
  /\ log' = [log EXCEPT ![e] = [i \in DOMAIN @ |->
       IF i \in which THEN [@[i] EXCEPT !.shut = TRUE] ELSE @[i]]]

Reject(e) ==
  LET rejected == {i \in DOMAIN conn[e] : Acceptable(conn[e][i])}
  IN  /\ rejected # {} /\ Schedule(e, rejected)
      /\ UNCHANGED <<net, clock, closed, silences>>

\* The game asks once for the end of a connection it was given.
ScheduleDestroy(e, i) ==
  /\ e \in Leavers
  /\ i \in DOMAIN conn[e] /\ conn[e][i].state # "Pending" /\ ~conn[e][i].destroy
  /\ Schedule(e, {i})
  /\ UNCHANGED <<net, clock, closed, silences>>

Destroy(e) ==
  /\ e \in Quitters /\ ~closed[e]
  /\ closed' = [closed EXCEPT ![e] = TRUE]
  /\ Schedule(e, DOMAIN conn[e])
  /\ UNCHANGED <<net, clock, silences>>

Write(e, i) ==
  /\ i \in DOMAIN conn[e]
  /\ LET c == conn[e][i]
         m == <<i, Len(log[e][i].wrote) + 1>>
     IN  /\ c.state # "Pending" /\ ~c.shut /\ m[2] <= Items[e]
         /\ Set(e, i, [c EXCEPT !.out = Append(@, m)])
         /\ log' = [log EXCEPT ![e][i].wrote = Append(@, m)]
  /\ UNCHANGED <<net, clock, closed, silences>>

\* DispatchFromInput: everything received, then the notice of the end.
Dispatches(c) == ~c.dispatchedEof /\ ~c.destroy /\ (c.input # <<>> \/ c.eof)
Dispatched(c) == [c EXCEPT !.input = <<>>, !.dispatchedEof = c.eof]
Notice(c) == CASE ~c.eof -> "None"
               [] c.eof /\ c.state = "Errored" -> "Errored"
               [] OTHER -> "Eof"

\* Pull: destroyed connections are deleted, the input of the others dispatched.
Pull(e) ==
  LET kept == {i \in DOMAIN conn[e] : ~conn[e][i].destroyed}
      pulled == [i \in kept |-> IF Dispatches(conn[e][i]) THEN Dispatched(conn[e][i]) ELSE conn[e][i]]
  IN  /\ pulled # conn[e]
      /\ conn' = [conn EXCEPT ![e] = pulled]
      /\ log' = [log EXCEPT ![e] = [k \in DOMAIN @ |->
           IF k \in kept /\ Dispatches(conn[e][k])
           THEN [log[e][k] EXCEPT !.handed = @ \o conn[e][k].input, !.notice = Notice(conn[e][k])]
           ELSE log[e][k]]]
      /\ UNCHANGED <<net, clock, closed, silences>>

\* Entry: the thread of a connector that is going deletes what is destroyed.
Reap(e) ==
  /\ closed[e] /\ \E i \in DOMAIN conn[e] : conn[e][i].destroyed
  /\ conn' = [conn EXCEPT ![e] = [i \in {k \in DOMAIN @ : ~@[k].destroyed} |-> @[i]]]
  /\ UNCHANGED <<net, clock, closed, silences, log>>

----------------------------------------------------------------------------
Init ==
  /\ conn = [e \in End |-> <<>>]
  /\ net = [e \in End |-> {}]
  /\ clock = [e \in End |-> 0]
  /\ closed = [e \in End |-> FALSE]
  /\ silences = [e \in End |-> 0]
  /\ log = [e \in End |-> <<>>]

\* A link both ends have established, idle, with no packet under way.
InitEstablished ==
  /\ conn = [e \in End |->
       <<[NewConnection("Establishing") EXCEPT !.hs = 1, !.next = FirstSeq, !.remote = FirstSeq, !.expected = FirstSeq]>>]
  /\ net = [e \in End |-> {}]
  /\ clock = [e \in End |-> MaxTime[e]]
  /\ closed = [e \in End |-> FALSE]
  /\ silences = [e \in End |-> 0]
  /\ log = [e \in End |-> <<NewLog>>]

Slot == 1..Max({MaxConns[e] : e \in End})

Network(e, i) ==
  \/ SendConnect(e, i) \/ SendAnswer(e, i) \/ DestroyAtOnce(e, i)
  \/ TimeOut(e, i) \/ Resend(e, i) \/ SendData(e, i) \/ SendGoodbye(e, i)
  \/ SendKeepAlive(e, i) \/ SendAck(e, i)

Game(e) ==
  \/ Connect(e) \/ Reject(e) \/ Destroy(e) \/ Pull(e)
  \/ \E i \in Slot : ScheduleDestroy(e, i) \/ Write(e, i)

Next ==
  \E e \in End :
    \/ \E i \in Slot : Network(e, i)
    \/ \E p \in net[e] : ReceivePacket(e, p) \/ ReceiveConnect(e, p)
    \/ Lose(e) \/ Reap(e)
    \/ Game(e)

Spec == Init /\ [][Next]_vars
TransferSpec == InitEstablished /\ [][Next]_vars

\* Fairness: the two threads keep running; a packet that is sent again for ever
\* finds room and is received; ten seconds of a silent peer do pass.  DataComes
\* and AcksCome are strong fairness of receiving such a packet, which is enabled
\* whenever one is under way.
Enters(e) == net'[Peer(e)] # net[Peer(e)]
ReceiveOnce(e, p) == ReceivePacket(e, p) /\ p \notin net'[e]
Data(e) == {p \in net[e] : p.kind = "Data"}
UpToDate(e, p) == \E j \in DOMAIN conn[Peer(e)] :
  BeforeErrored(conn[Peer(e)][j]) /\ p.expected = conn[Peer(e)][j].expected
Acks(e) == {p \in net[e] : p.kind \in {"Ack", "KeepAlive"} /\ UpToDate(e, p)}
DataComes(e) == (<>[](Data(e) = {})) \/ ([]<><<\E p \in Data(e) : ReceiveOnce(e, p)>>_vars)
AcksCome(e) == (<>[](Acks(e) = {})) \/ ([]<><<\E p \in Acks(e) : ReceiveOnce(e, p)>>_vars)

Writers == {e \in End : Items[e] > 0} \union Leavers \union Quitters
Fairness ==
  /\ \A e \in End : WF_vars(Pull(e) \/ Reap(e)) /\ WF_vars(\E i \in Slot : DestroyAtOnce(e, i))
  /\ \A e \in Writers :
       /\ WF_vars(\E i \in Slot : SendData(e, i) \/ SendGoodbye(e, i) \/ (TimeOut(e, i) /\ Silent(e)))
       /\ SF_vars(\E i \in Slot : Resend(e, i) /\ Enters(e))
       /\ SF_vars(\E i \in Slot : (SendAck(Peer(e), i) \/ SendKeepAlive(Peer(e), i)) /\ Enters(Peer(e)))
       /\ DataComes(Peer(e)) /\ AcksCome(e)

FairSpec == Spec /\ Fairness

----------------------------------------------------------------------------
(* Properties *)

\* The fields keep their ranges: sequence numbers wrap (mNextSequenceNumber,
\* mExpectedSequenceNumber), input never piles up past kMaxBufferedInputBytes
\* by more than the packet that showed it, early packets go with the end (of a
\* connection that has not failed: CloseInput leaves what waits early).
TypeOK ==
  /\ \A e \in End : \A i \in DOMAIN conn[e] : LET c == conn[e][i] IN
       /\ i \in DOMAIN log[e]
       /\ c.state \in {"Pending", "Connecting", "Answering", "Establishing", "TimedOut", "Errored"}
       /\ {c.next, c.remote, c.expected} \subseteq 0..(SeqSpace - 1)
       /\ Len(c.input) <= InputCap + 1
       /\ BeforeErrored(c) /\ c.eof => c.early = {}
  /\ \A e \in End : clock[e] \in 0..MaxTime[e]

\* A connector never has two connections to one address that have not failed:
\* packets go to the first such connection (HandleReceivedDatagram), so with
\* two of them a stream's packets would be given to the wrong one.
OneLiveConnection ==
  \A e \in End : \A i, j \in DOMAIN conn[e] :
    BeforeErrored(conn[e][i]) /\ BeforeErrored(conn[e][j]) => i = j

\* A connection that is up, or may be up again.
Talks(e, k) == /\ k \in DOMAIN conn[e] /\ ~conn[e][k].destroyed
               /\ conn[e][k].state \in {"Establishing", "TimedOut"}

\* What of its stream a connection has received, the end included.
Holds(d, s) == Delta(d.expected, s) > 0 \/ \E q \in d.early : q.seq = s

\* No packet is forgotten by its sender before its receiver holds it: each of
\* the last packets sent is still unacked (mUnAckedPayloads) or was received in
\* order or waits early, however acknowledgements were delayed, repeated or
\* reordered and wherever the 16-bit numbers wrapped.  And GOODBYE, which is not
\* in the sequence, goes out only when the peer has the end of the stream, so that
\* it cannot make an input fail that is still arriving (ProcessGoodbye).
AckedIsHeld ==
  /\ \A e \in End : \A i \in DOMAIN conn[e], j \in DOMAIN conn[Peer(e)] :
       LET c == conn[e][i]
           d == conn[Peer(e)][j]
       IN  Talks(Peer(e), j) =>
             \A k \in 1..(Window + 1) : k <= Sent(c, log[e][i]) =>
               LET s == (c.next - k + SeqSpace) % SeqSpace
               IN  Holds(d, s) \/ \E p \in c.unacked : p.seq = s
  /\ \A e \in End : GoodbyePacket \in net[e] =>
       \A i \in DOMAIN conn[e] : Talks(e, i) => conn[e][i].eof

\* What a game may have been told of connection k.
Log(e, k) == IF k \in DOMAIN log[e] THEN log[e][k] ELSE NewLog
Broken(e, k) == /\ k \in DOMAIN conn[e]
                /\ \/ conn[e][k].state = "Errored"
                   \/ conn[e][k].destroy /\ conn[e][k].state = "TimedOut"
GivenUp(e, k) == Broken(e, k) \/ Log(e, k).shut

\* Every message written to a connection that talks to a connection of the peer
\* is handed out there at last, or one of the two has failed or the receiver's
\* game has ended it (SendData, ProcessData, Pull; loss is made up for by Resend).
WrittenArrives ==
  \A e \in End : \A j \in 1..MaxConns[e], k \in 1..MaxConns[Peer(e)] : \A n \in 1..Items[e] :
    Talks(e, j) /\ Talks(Peer(e), k) /\ Len(Log(e, j).wrote) >= n
      ~> Broken(e, j) \/ GivenUp(Peer(e), k) \/ Len(Log(Peer(e), k).handed) >= n

\* A connection the game has ended is deleted at last: it gets all it wrote and
\* its end across, says goodbye and goes, or goes when the peer falls silent
\* (ScheduleDestroy, SendData, Pull).
ClosingEnds ==
  []<>(\A e \in End : \A k \in DOMAIN log[e] : log[e][k].shut => k \notin DOMAIN conn[e])
=============================================================================
