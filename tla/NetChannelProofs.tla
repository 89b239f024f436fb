--------------------------- MODULE NetChannelProofs ---------------------------
(***************************************************************************)
(* Proofs about the net channel, for every window, reach of the acks,      *)
(* bound and owner, and every network: type correctness; that no byte sent *)
(* is ever forgotten and only bytes owed are sent (NothingForgotten,       *)
(* SendsOnlyWhatIsOwed); that a byte counted as acked is held by the peer  *)
(* (AckedIsHeld), given room for what may be in flight; and that no        *)
(* message is handed out twice (HandedAtMostOnce).                         *)
(*                                                                         *)
(* The steps are taken apart (PollCases, ReceiveCases, StepCases), then    *)
(* come the invariants: BookInv, on which the others stand, OwedInv,       *)
(* HeldInv and OnceInv.                                                    *)
(***************************************************************************)
EXTENDS NetChannelLemmas

-----------------------------------------------------------------------------
(***************************************************************************)
(* The inductive invariant of the books.                                   *)
(***************************************************************************)

(* An end has one peer, and is its peer's peer.                              *)
LEMMA Peers ==
    ASSUME NEW e \in End
    PROVE  /\ Peer(e) \in End /\ Peer(e) # e /\ Peer(Peer(e)) = e
           /\ \A p \in End : p = e \/ p = Peer(e)
  <1>1. IsFiniteSet(End) /\ Cardinality(End) = 2
    BY ChannelAssumption
  <1>2. IsFiniteSet(End \ {e}) /\ Cardinality(End \ {e}) = 1
    BY <1>1, FS_RemoveElement
  <1>3. PICK p : End \ {e} = {p}
    BY <1>2, FS_Singleton
  <1>4. p \in End /\ p # e /\ End = {e, p}
    BY <1>3
  <1>5. Peer(e) = p
    BY <1>4 DEF Peer
  <1>6. Peer(p) = e
    BY <1>4 DEF Peer
  <1> QED BY <1>4, <1>5, <1>6

Receiving == [window : Window, reportFrom : Nat, ackPending : BOOLEAN,
              receiver : [delivered : Nat, held : SUBSET Nat], lane : Window]

Packet == [to : End, sequence : Nat, ack : Nat, acks : SUBSET Nat, sealed : BOOLEAN,
           ackOnly : BOOLEAN, fragments : SUBSET (Nat \X Nat), lane : SUBSET Nat,
           loose : SUBSET Nat]

Message == {"lane", "loose"} \X Nat

Types ==
    /\ state \in [End -> {"Connecting", "Connected", "TimedOut", "Failed"}]
    /\ keyed \in [End -> BOOLEAN]
    /\ nextSequence \in [End -> Nat \ {0}]
    /\ tx \in [End -> Sending]
    /\ rx \in [End -> Receiving]
    /\ loose \in [End -> SUBSET Nat]
    /\ queuedLoose \in [End -> Nat]
    /\ queuedLane \in [End -> Nat]
    /\ handed \in [End -> Seq(Message)]
    /\ net \in SUBSET Packet

(* A datagram on its way holds nothing its sender has not sent.              *)
PacketOK(d) ==
    LET s == Peer(d.to)
        n == tx[s].sender.nextNew
    IN  /\ d.sequence \in 1 .. nextSequence[s] - 1
        /\ d.fragments \subseteq (0 .. n) \X (0 .. n)
        /\ d.lane \subseteq 1 .. queuedLane[s]
        /\ d.loose \subseteq 1 .. queuedLoose[s]

(* The two halves of an end, and of a connection, keep their books.          *)
EndOK(e) ==
    /\ SendingOK(tx[e], nextSequence[e])
    /\ nextSequence[e] <= tx[e].owner.last
    /\ \A m \in tx[e].lane : m.sequence \in 1 .. queuedLane[e]
    /\ loose[e] \subseteq 1 .. queuedLoose[e]
    /\ rx[e].window.newest < nextSequence[Peer(e)]
    /\ rx[e].receiver \in Receivers(tx[Peer(e)].sender.nextNew)

BookInv ==
    /\ Types
    /\ \A e \in End : EndOK(e)
    /\ \A d \in net : PacketOK(d)

(* The books are right at first.                                             *)
LEMMA BookInit == Init => BookInv
  <1> SUFFICES ASSUME Init PROVE BookInv
    OBVIOUS
  <1> DEFINE first(e) == [sent |-> {}, largestAcked |-> 0, threshold |-> LossThreshold,
                          sender |-> NewSender, lane |-> {}, owner |-> tx[e].owner]
  <1>1. PICK owners \in Owners :
          tx = [e \in End |-> [sent |-> {}, largestAcked |-> 0, threshold |-> LossThreshold,
                               sender |-> NewSender, lane |-> {}, owner |-> owners[e]]]
    BY DEF Init
  <1>2. \A e \in End : owners[e] \in Owner
    BY <1>1, ChannelAssumption
  <1>3. LossThreshold \in Nat /\ WindowSize \in Nat \ {0} /\ MaxInFlight \in Nat
    BY ChannelAssumption, WindowAssumption, StreamAssumption
  <1>4. SenderOK(NewSender) /\ NewSender.nextNew = 0 /\ NewSender.acked = {}
    <2>1. PrefixEnd({}) \in 0 .. 0
      BY AckedPrefix
    <2> QED BY <1>3, <2>1 DEF SenderOK, Sender, NewSender
  <1>5. \A e \in End : /\ tx[e] \in Sending /\ tx[e].sent = {} /\ tx[e].largestAcked = 0
                       /\ tx[e].sender = NewSender /\ tx[e].lane = {} /\ tx[e].owner \in Owner
    BY <1>1, <1>2, <1>3, <1>4 DEF Sending, SenderOK
  <1>6. EmptyWindow \in Window /\ EmptyWindow.newest = 0
    BY DEF EmptyWindow, Window
  <1>7. NewReceiver \in Receivers(0) /\ NewReceiver \in [delivered : Nat, held : SUBSET Nat]
    BY DEF NewReceiver, Receivers, ReceiverOK
  <1>8. \A e \in End : /\ rx[e] \in Receiving /\ rx[e].window = EmptyWindow
                       /\ rx[e].receiver = NewReceiver
    BY <1>6, <1>7 DEF Init, Receiving
  <1>9. \A e \in End : nextSequence[e] = 1 /\ loose[e] = {}
    BY DEF Init
  <1>10. Types
    <2>1. tx \in [End -> Sending] /\ rx \in [End -> Receiving]
      BY <1>1, <1>5, <1>8 DEF Init
    <2>2. handed \in [End -> Seq(Message)]
      BY DEF Init
    <2>3. state \in [End -> {"Connecting", "Connected", "TimedOut", "Failed"}]
      BY DEF Init
    <2>4. keyed \in [End -> BOOLEAN] /\ nextSequence \in [End -> Nat \ {0}]
      BY DEF Init
    <2>5. loose \in [End -> SUBSET Nat] /\ net \in SUBSET Packet
      BY DEF Init
    <2>6. queuedLoose \in [End -> Nat] /\ queuedLane \in [End -> Nat]
      BY DEF Init
    <2> QED BY <2>1, <2>2, <2>3, <2>4, <2>5, <2>6 DEF Types
  <1>11. ASSUME NEW e \in End PROVE EndOK(e)
    <2>1. Peer(e) \in End
      BY Peers
    <2>2. tx[e].owner.last \in Nat \ {0}
      BY <1>5 DEF Owner
    <2>3. SendingOK(tx[e], nextSequence[e])
      BY <1>4, <1>5, <1>9 DEF SendingOK
    <2>4. rx[e].receiver \in Receivers(tx[Peer(e)].sender.nextNew)
      BY <1>4, <1>5, <1>7, <1>8, <2>1
    <2> QED BY <1>5, <1>6, <1>8, <1>9, <2>1, <2>2, <2>3, <2>4 DEF EndOK
  <1> QED BY <1>10, <1>11 DEF Init, BookInv

(* A channel acks only sequences its window has received.                    *)
LEMMA ReportedIsReceived ==
    ASSUME NEW r \in Receiving
    PROVE  /\ Reported(r) \in SUBSET Nat
           /\ \A s \in Reported(r) : Received(r.window, s)
  <1>1. r.window \in Window
    BY DEF Receiving
  <1>2. \A s \in HeaderAcks(r.window) : Received(r.window, s)
    BY DEF HeaderAcks
  <1>3. \A s \in BlockAcks(r) : Received(r.window, s)
    BY DEF BlockAcks
  <1>4. \A s : Received(r.window, s) => s \in Nat
    BY <1>1 DEF Received, Window
  <1> QED BY <1>2, <1>3, <1>4 DEF Reported

-----------------------------------------------------------------------------
(***************************************************************************)
(* Poll, as the invariants tell its outcomes apart.                        *)
(***************************************************************************)

(* The bytes a datagram is remembered for are in its fragments.              *)
Covers(d, bytes) == \A o \in bytes : \E f \in d.fragments : f[1] <= o /\ o < f[2]

(* What a poll leaves alone in the sending half.                             *)
Advanced(t, u) ==
    /\ u.owner = t.owner
    /\ u.sender.acked = t.sender.acked
    /\ u.sender.nextNew >= t.sender.nextNew
    /\ \A m \in u.lane : \E k \in t.lane : k.sequence = m.sequence

(* A poll that sends nothing, the last sequence being used up or not.        *)
Quiet(e, u) ==
    /\ SendingOK(u, nextSequence[e])
    /\ Remembers(tx[e], u)
    /\ UNCHANGED <<nextSequence, rx, net>>
    /\ \/ UNCHANGED <<state, loose>> /\ (Owed(tx[e]) => Owed(u))
       \/ /\ state' = [state EXCEPT ![e] = "Failed"]
          /\ loose' \in {loose, [loose EXCEPT ![e] = {}]}

(* A poll that sends the datagram d.                                         *)
Header(e, d) ==
    /\ d.to = Peer(e) /\ d.sequence = nextSequence[e]
    /\ d.ack = rx[e].window.newest /\ d.acks = Reported(rx[e])

Content(e, u, d) ==
    /\ d.fragments \subseteq (0 .. u.sender.nextNew) \X (0 .. u.sender.nextNew)
    /\ d.lane \subseteq 1 .. queuedLane[e]
    /\ d.loose \subseteq loose[e]

RemembersNew(e, u, d) ==
    \A p \in u.sent :
        \/ \E q \in tx[e].sent : q.sequence = p.sequence /\ q.reliable = p.reliable
        \/ /\ p.sequence = nextSequence[e]
           /\ Covers(d, p.reliable)
           /\ p.reliable \subseteq tx[e].sender.base .. tx[e].sender.end - 1
           /\ p.reliable \cap tx[e].sender.acked = {}

Emits(e, u, d) ==
    /\ SendingOK(u, nextSequence[e] + 1)
    /\ nextSequence[e] # tx[e].owner.last
    /\ Header(e, d)
    /\ Content(e, u, d)
    /\ RemembersNew(e, u, d)
    /\ Owed(tx[e]) => Owed(u)
    /\ net' = net \cup {d}
    /\ nextSequence' = [nextSequence EXCEPT ![e] = @ + 1]
    /\ rx' = [rx EXCEPT ![e].ackPending = FALSE, ![e].reportFrom = 0]
    /\ loose' = [loose EXCEPT ![e] = @ \ d.loose]
    /\ UNCHANGED state

(* What Emit does: the channel fails, or a datagram goes out.                *)
Emission(e, t, ackOnly, fragments, bytes, lane, unreliable) ==
    \/ /\ state' = [state EXCEPT ![e] = "Failed"] /\ tx' = [tx EXCEPT ![e] = t]
       /\ UNCHANGED <<nextSequence, rx, net>>
    \/ \E d \in Packet :
         /\ nextSequence[e] # tx[e].owner.last
         /\ Header(e, d)
         /\ d.fragments = fragments /\ d.lane = lane /\ d.loose = unreliable
         /\ net' = net \cup {d}
         /\ nextSequence' = [nextSequence EXCEPT ![e] = @ + 1]
         /\ rx' = [rx EXCEPT ![e].ackPending = FALSE, ![e].reportFrom = 0]
         /\ tx' = [tx EXCEPT ![e] =
               IF ackOnly THEN t
               ELSE [t EXCEPT !.sent = @ \cup {Sent(nextSequence[e], bytes, lane)}]]
         /\ UNCHANGED state

(* Emit does that.                                                           *)
LEMMA EmitIs ==
    ASSUME BookInv, NEW e \in End, NEW t, NEW ackOnly \in BOOLEAN,
           NEW fragments \in SUBSET (Nat \X Nat), NEW bytes, NEW lane \in SUBSET Nat,
           NEW unreliable \in SUBSET Nat,
           Emit(e, t, ackOnly, fragments, bytes, lane, unreliable)
    PROVE  Emission(e, t, ackOnly, fragments, bytes, lane, unreliable)
  <1>1. CASE nextSequence[e] = tx[e].owner.last
    BY <1>1 DEF Emit, Emission
  <1>2. CASE nextSequence[e] # tx[e].owner.last
    <2> DEFINE d == [to |-> Peer(e), sequence |-> nextSequence[e],
                     ack |-> rx[e].window.newest, acks |-> Reported(rx[e]),
                     sealed |-> keyed[e], ackOnly |-> ackOnly,
                     fragments |-> fragments, lane |-> lane, loose |-> unreliable]
    <2>1. Peer(e) \in End /\ nextSequence[e] \in Nat /\ rx[e] \in Receiving /\ keyed[e] \in BOOLEAN
      BY Peers DEF BookInv, Types
    <2>2. rx[e].window.newest \in Nat /\ Reported(rx[e]) \in SUBSET Nat
      BY <2>1, ReportedIsReceived DEF Receiving, Window
    <2>3. d \in Packet
      BY <2>1, <2>2 DEF Packet
    <2>4. Header(e, d)
      BY DEF Header
    <2>5. /\ net' = net \cup {d}
          /\ nextSequence' = [nextSequence EXCEPT ![e] = @ + 1]
          /\ rx' = [rx EXCEPT ![e].ackPending = FALSE, ![e].reportFrom = 0]
          /\ tx' = [tx EXCEPT ![e] =
                IF ackOnly THEN t
                ELSE [t EXCEPT !.sent = @ \cup {Sent(nextSequence[e], bytes, lane)}]]
          /\ UNCHANGED state
      BY <1>2 DEF Emit
    <2>6. d.fragments = fragments /\ d.lane = lane /\ d.loose = unreliable
      OBVIOUS
    <2> HIDE DEF d
    <2> QED BY <1>2, <2>3, <2>4, <2>5, <2>6 DEF Emission
  <1> QED BY <1>1, <1>2

(* What one datagram takes is in the buffer, and not acked.                  *)
LEMMA TakingIsOwed ==
    ASSUME NEW n \in Nat, NEW t, SendingOK(t, n)
    PROVE  /\ Taking(t) \subseteq t.sender.base .. t.sender.end - 1
           /\ Taking(t) \cap t.sender.acked = {}
  <1> DEFINE s == t.sender
             prefix == PrefixEnd(s.acked)
             top == AfterWrite(s).nextNew
  <1>1. SenderOK(s)
    BY DEF SendingOK
  <1>2. s \in Sender /\ s.base \in Nat /\ s.end \in Nat /\ s.nextNew \in Nat
    BY <1>1 DEF SenderOK, Sender
  <1>3. /\ s.acked \subseteq 0 .. s.nextNew - 1 /\ s.lost \subseteq 0 .. s.nextNew - 1
        /\ s.acked \cap s.lost = {} /\ s.nextNew <= s.end /\ s.base <= prefix
    BY <1>1 DEF SenderOK
  <1>4. prefix \in 0 .. s.nextNew /\ 0 .. prefix - 1 \subseteq s.acked
    BY <1>2, <1>3, AckedPrefix
  <1>5. /\ SenderOK(AfterWrite(s)) /\ AfterWrite(s).end = s.end
        /\ FirstSends(s) = s.nextNew .. top - 1 /\ Resends(s) \subseteq s.lost
    BY <1>1, AfterWriteOK
  <1>6. top \in Nat /\ top <= s.end
    BY <1>5 DEF SenderOK, Sender
  <1> HIDE DEF s, prefix, top
  <1>7. \A o \in Resends(s) : o \in s.base .. s.end - 1 /\ o \notin s.acked
    BY <1>2, <1>3, <1>4, <1>5
  <1>8. \A o \in FirstSends(s) : o \in s.base .. s.end - 1 /\ o \notin s.acked
    BY <1>2, <1>3, <1>4, <1>5, <1>6
  <1> QED BY <1>7, <1>8 DEF Taking, s

(* A datagram with data: what it takes was owed, and what it carries covers it. *)
LEMMA SendDataIs ==
    ASSUME BookInv, NEW e \in End, NEW t, SendingOK(t, nextSequence[e]),
           Remembers(tx[e], t), Advanced(tx[e], t), Owed(tx[e]) => Owed(t),
           t.sender.base = tx[e].sender.base, t.sender.end = tx[e].sender.end,
           SendData(e, t)
    PROVE  \E u : /\ tx' = [tx EXCEPT ![e] = u] /\ Advanced(tx[e], u)
                  /\ Quiet(e, u) \/ \E d \in Packet : Emits(e, u, d)
  <1> DEFINE n == nextSequence[e]
             v == Taken(t)
             k == LaneCarried(t.lane)
             w == Remembering(v, n, Taking(t), k)
  <1>1. /\ EndOK(e) /\ n \in Nat \ {0} /\ loose \in [End -> SUBSET Nat] /\ queuedLane[e] \in Nat
        /\ tx[e].sender.nextNew \in Nat /\ loose[e] \in SUBSET Nat
    BY DEF BookInv, Types, Sending, Sender
  <1>2. /\ SendingOK(v, n) /\ v.sent = t.sent /\ v.owner = t.owner
        /\ v.sender.acked = t.sender.acked /\ v.sender.nextNew >= t.sender.nextNew
        /\ v.sender.nextNew \in Nat /\ t.sender.nextNew \in Nat
        /\ Taking(t) \subseteq 0 .. v.sender.nextNew - 1
        /\ \A m \in v.lane : \E j \in t.lane : j.sequence = m.sequence
    <2>1. t.sender.nextNew \in Nat
      BY DEF SendingOK, SenderOK, Sender
    <2> QED BY <1>1, <2>1, TakenOK
  <1>3. Advanced(tx[e], v)
    <2>1. v.sender.nextNew >= tx[e].sender.nextNew
      BY <1>1, <1>2 DEF Advanced
    <2>2. \A m \in v.lane : \E j \in tx[e].lane : j.sequence = m.sequence
      BY <1>2 DEF Advanced
    <2> QED BY <1>2, <2>1, <2>2 DEF Advanced
  <1>4. /\ Fragments(t.sender) \subseteq (0 .. v.sender.nextNew) \X (0 .. v.sender.nextNew)
        /\ \A o \in Taking(t) : \E f \in Fragments(t.sender) : f[1] <= o /\ o < f[2]
    BY <1>1, FragmentsCover
  <1>5. k \subseteq 1 .. queuedLane[e] /\ k \in SUBSET Nat
    <2>1. t.lane \subseteq LaneMessage
      BY DEF SendingOK, Sending
    <2>2. \A m \in t.lane : m.sequence \in 1 .. queuedLane[e]
      BY <1>1 DEF EndOK, Advanced
    <2>3. k \subseteq {m.sequence : m \in t.lane}
      BY <2>1, WrittenLane
    <2> QED BY <1>1, <2>2, <2>3
  <1>6. Emit(e, v, FALSE, Fragments(t.sender), Taking(t), k, loose[e])
        /\ loose' = [loose EXCEPT ![e] = {}]
    BY DEF SendData, Taken, Taking
  <1>7. Fragments(t.sender) \in SUBSET (Nat \X Nat) /\ Taking(t) \in SUBSET Nat
    BY <1>2, <1>4
  <1>8. /\ Taking(t) \subseteq tx[e].sender.base .. tx[e].sender.end - 1
        /\ Taking(t) \cap tx[e].sender.acked = {}
    BY <1>1, TakingIsOwed DEF Advanced
  <1>9. Remembers(tx[e], v)
    BY <1>2 DEF Remembers
  <1> HIDE DEF v, k
  <1>10. \/ /\ state' = [state EXCEPT ![e] = "Failed"] /\ tx' = [tx EXCEPT ![e] = v]
            /\ UNCHANGED <<nextSequence, rx, net>>
         \/ \E d \in Packet :
              /\ n # tx[e].owner.last
              /\ Header(e, d)
              /\ d.fragments = Fragments(t.sender) /\ d.lane = k /\ d.loose = loose[e]
              /\ net' = net \cup {d}
              /\ nextSequence' = [nextSequence EXCEPT ![e] = @ + 1]
              /\ rx' = [rx EXCEPT ![e].ackPending = FALSE, ![e].reportFrom = 0]
              /\ tx' = [tx EXCEPT ![e] = w]
              /\ UNCHANGED state
    <2>1. loose[e] \in SUBSET Nat /\ FALSE \in BOOLEAN
      BY <1>1
    <2>2. Emit(e, v, FALSE, Fragments(t.sender), Taking(t), k, loose[e])
      BY <1>6
    <2>3. Emission(e, v, FALSE, Fragments(t.sender), Taking(t), k, loose[e])
      BY <1>5, <1>7, <2>1, <2>2, EmitIs
    <2> QED BY <2>3 DEF Emission, Remembering
  <1>11. CASE /\ state' = [state EXCEPT ![e] = "Failed"] /\ tx' = [tx EXCEPT ![e] = v]
              /\ UNCHANGED <<nextSequence, rx, net>>
    <2>1. Quiet(e, v)
      BY <1>2, <1>6, <1>9, <1>11 DEF Quiet
    <2> QED BY <1>3, <1>11, <2>1
  <1>12. ASSUME NEW d \in Packet,
                n # tx[e].owner.last,
                Header(e, d),
                d.fragments = Fragments(t.sender), d.lane = k, d.loose = loose[e],
                net' = net \cup {d},
                nextSequence' = [nextSequence EXCEPT ![e] = @ + 1],
                rx' = [rx EXCEPT ![e].ackPending = FALSE, ![e].reportFrom = 0],
                tx' = [tx EXCEPT ![e] = w],
                UNCHANGED state
         PROVE  Advanced(tx[e], w) /\ Emits(e, w, d)
    <2>1. /\ SendingOK(w, n + 1) /\ w.sent = v.sent \cup {Sent(n, Taking(t), k)}
          /\ w.sender = v.sender /\ w.lane = v.lane /\ w.owner = v.owner
      <3>1. n \in Nat \ {0} /\ SendingOK(t, n) /\ k \in SUBSET Nat /\ v.sent = t.sent
        BY <1>1, <1>2, <1>5
      <3> HIDE DEF n
      <3> QED BY <3>1, TakenIsSent DEF v
    <2>2. /\ Sent(n, Taking(t), k).sequence = n
          /\ Sent(n, Taking(t), k).reliable = Taking(t)
      BY <1>1, <1>5, <1>7, SentIs
    <2>3. Owed(tx[e]) => Owed(w)
      BY <1>1, <1>5, TakenIsOwed DEF v
    <2> HIDE DEF w
    <2>4. Advanced(tx[e], w)
      BY <1>3, <2>1 DEF Advanced
    <2>5. Content(e, w, d)
      BY <1>4, <1>5, <1>12, <2>1 DEF Content
    <2>6. RemembersNew(e, w, d)
      <3> SUFFICES ASSUME NEW p \in w.sent
                   PROVE  \/ \E q \in tx[e].sent : q.sequence = p.sequence /\ q.reliable = p.reliable
                          \/ /\ p.sequence = nextSequence[e]
                             /\ Covers(d, p.reliable)
                             /\ p.reliable \subseteq tx[e].sender.base .. tx[e].sender.end - 1
                             /\ p.reliable \cap tx[e].sender.acked = {}
        BY DEF RemembersNew
      <3>1. CASE p \in v.sent
        BY <1>9, <3>1 DEF Remembers
      <3>2. CASE p = Sent(n, Taking(t), k)
        <4>1. Covers(d, Taking(t))
          BY <1>4, <1>12 DEF Covers
        <4> QED BY <1>8, <2>2, <3>2, <4>1
      <3> QED BY <2>1, <3>1, <3>2
    <2>7. loose' = [loose EXCEPT ![e] = @ \ d.loose]
      BY <1>1, <1>6, <1>12
    <2> QED BY <1>12, <2>1, <2>3, <2>4, <2>5, <2>6, <2>7 DEF Emits
  <1> HIDE DEF w
  <1> QED BY <1>10, <1>11, <1>12

(* A datagram without new data: its bytes are none.                          *)
LEMMA SendNothingNewIs ==
    ASSUME BookInv, NEW e \in End, NEW t, SendingOK(t, nextSequence[e]),
           Remembers(tx[e], t), Advanced(tx[e], t), Owed(tx[e]) => Owed(t),
           NEW ackOnly \in BOOLEAN, SendNothingNew(e, t, ackOnly)
    PROVE  \E u : /\ tx' = [tx EXCEPT ![e] = u] /\ Advanced(tx[e], u)
                  /\ Quiet(e, u) \/ \E d \in Packet : Emits(e, u, d)
  <1> DEFINE n == nextSequence[e]
             w == Remembering(t, n, {}, {})
             u == IF ackOnly THEN t ELSE w
  <1>1. /\ EndOK(e) /\ n \in Nat \ {0} /\ loose \in [End -> SUBSET Nat] /\ queuedLane[e] \in Nat
        /\ loose[e] \in SUBSET Nat
    BY DEF BookInv, Types
  <1>2. loose' = loose /\ Emit(e, t, ackOnly, {}, {}, {}, {})
    BY DEF SendNothingNew
  <1>3. t.sender.nextNew \in Nat
    BY DEF SendingOK, SenderOK, Sender
  <1>4. /\ SendingOK(w, n + 1) /\ w.sent = t.sent \cup {Sent(n, {}, {})}
        /\ w.sender = t.sender /\ w.lane = t.lane /\ w.owner = t.owner
    <2>1. n \in Nat \ {0} /\ SendingOK(t, n) /\ {} \in SUBSET Nat
      BY <1>1
    <2>2. {} \subseteq 0 .. t.sender.nextNew - 1
      OBVIOUS
    <2> HIDE DEF n
    <2> QED BY <2>1, <2>2, RememberedOK
  <1>5. Sent(n, {}, {}).sequence = n /\ Sent(n, {}, {}).reliable = {}
    BY <1>1, SentIs
  <1>6. SendingOK(t, n + 1)
    <2>1. \A p \in t.sent : p.sequence \in 1 .. n - 1
      BY DEF SendingOK
    <2>2. \A p \in t.sent : p.sequence \in 1 .. (n + 1) - 1
      BY <1>1, <2>1
    <2>3. t.largestAcked < n + 1
      <3>1. t.largestAcked < n /\ t.largestAcked \in Nat
        BY DEF SendingOK, Sending
      <3> QED BY <1>1, <3>1
    <2> QED BY <2>2, <2>3 DEF SendingOK
  <1>7. Owed(t) => Owed(w)
    BY <1>4 DEF Owed
  <1> HIDE DEF w
  <1>8. /\ SendingOK(u, n + 1) /\ u.sent \subseteq t.sent \cup {Sent(n, {}, {})}
        /\ u.sender = t.sender /\ u.lane = t.lane /\ u.owner = t.owner
        /\ Owed(tx[e]) => Owed(u)
    BY <1>4, <1>6, <1>7
  <1>9. \/ /\ state' = [state EXCEPT ![e] = "Failed"] /\ tx' = [tx EXCEPT ![e] = t]
            /\ UNCHANGED <<nextSequence, rx, net>>
         \/ \E d \in Packet :
              /\ n # tx[e].owner.last
              /\ Header(e, d)
              /\ d.fragments = {} /\ d.lane = {} /\ d.loose = {}
              /\ net' = net \cup {d}
              /\ nextSequence' = [nextSequence EXCEPT ![e] = @ + 1]
              /\ rx' = [rx EXCEPT ![e].ackPending = FALSE, ![e].reportFrom = 0]
              /\ tx' = [tx EXCEPT ![e] = u]
              /\ UNCHANGED state
    <2>1. {} \in SUBSET (Nat \X Nat) /\ {} \in SUBSET Nat
      OBVIOUS
    <2>2. Emit(e, t, ackOnly, {}, {}, {}, {})
      BY <1>2
    <2>3. Emission(e, t, ackOnly, {}, {}, {}, {})
      BY <2>1, <2>2, EmitIs
    <2> QED BY <2>3 DEF Emission, w, Remembering
  <1> HIDE DEF u
  <1>10. CASE /\ state' = [state EXCEPT ![e] = "Failed"] /\ tx' = [tx EXCEPT ![e] = t]
              /\ UNCHANGED <<nextSequence, rx, net>>
    <2>1. Quiet(e, t)
      BY <1>2, <1>10 DEF Quiet
    <2> QED BY <1>10, <2>1
  <1>11. ASSUME NEW d \in Packet,
                n # tx[e].owner.last,
                Header(e, d),
                d.fragments = {}, d.lane = {}, d.loose = {},
                net' = net \cup {d},
                nextSequence' = [nextSequence EXCEPT ![e] = @ + 1],
                rx' = [rx EXCEPT ![e].ackPending = FALSE, ![e].reportFrom = 0],
                tx' = [tx EXCEPT ![e] = u],
                UNCHANGED state
         PROVE  Advanced(tx[e], u) /\ Emits(e, u, d)
    <2>1. Advanced(tx[e], u)
      BY <1>8 DEF Advanced
    <2>2. Content(e, u, d)
      BY <1>11 DEF Content
    <2>3. RemembersNew(e, u, d)
      <3>1. Covers(d, {})
        BY DEF Covers
      <3> QED BY <1>5, <1>8, <3>1 DEF RemembersNew, Remembers
    <2>4. loose' = [loose EXCEPT ![e] = @ \ d.loose]
      BY <1>1, <1>2, <1>11
    <2> QED BY <1>8, <1>11, <2>1, <2>2, <2>3, <2>4 DEF Emits
  <1> QED BY <1>9, <1>10, <1>11

(* A poll sends one datagram or none.                                        *)
LEMMA PollCases ==
    ASSUME BookInv, NEW e \in End, Poll(e)
    PROVE  /\ \E u : /\ tx' = [tx EXCEPT ![e] = u] /\ Advanced(tx[e], u)
                     /\ Quiet(e, u) \/ \E d \in Packet : Emits(e, u, d)
           /\ UNCHANGED <<keyed, queuedLoose, queuedLane, handed, losses>>
  <1>1. PICK aged, late \in Aged(e), expired \in Expired(e), repeatDue \in BOOLEAN :
          LET t == DetectLoss(tx[e], aged, late, expired)
              fresh == LaneNew(t.lane) \/ loose[e] # {} \/ HasPending(t.sender)
              repeat == repeatDue /\ LaneRepeats(t.lane)
          IN  /\ aged <= late
              /\ \/ (fresh \/ repeat) /\ SendData(e, t)
                 \/ ~fresh /\ ~repeat /\ rx[e].ackPending /\ SendNothingNew(e, t, TRUE)
                 \/ ~fresh /\ ~repeat /\ nextSequence[e] <= tx[e].owner.keepalives
                    /\ SendNothingNew(e, t, FALSE)
                 \/ ~fresh /\ ~repeat /\ SendNothing(e, t)
    BY DEF Poll
  <1> DEFINE t == DetectLoss(tx[e], aged, late, expired)
  <1>2. SendData(e, t) \/ SendNothingNew(e, t, TRUE) \/ SendNothingNew(e, t, FALSE)
        \/ SendNothing(e, t)
    BY <1>1
  <1>3. EndOK(e) /\ nextSequence[e] \in Nat
    BY DEF BookInv, Types
  <1>4. SendingOK(tx[e], nextSequence[e]) /\ tx[e].sender.nextNew \in Nat
    BY <1>3 DEF EndOK, SendingOK, SenderOK, Sender
  <1>5. /\ SendingOK(t, nextSequence[e])
        /\ t.sender.acked = tx[e].sender.acked /\ t.sender.nextNew = tx[e].sender.nextNew
        /\ t.sender.end = tx[e].sender.end /\ t.sender.base = tx[e].sender.base
        /\ t.lane = tx[e].lane /\ t.owner = tx[e].owner
        /\ Remembers(tx[e], t)
        /\ Owed(tx[e]) => Owed(t)
    BY <1>3, <1>4, DetectLossOK
  <1> HIDE DEF t
  <1>6. Advanced(tx[e], t)
    BY <1>4, <1>5 DEF Advanced
  <1>7. CASE SendNothing(e, t)
    <2>1. Quiet(e, t)
      BY <1>5, <1>7 DEF Quiet, SendNothing
    <2> QED BY <1>6, <1>7, <2>1 DEF SendNothing, Poll
  <1>8. UNCHANGED <<keyed, queuedLoose, queuedLane, handed, losses>>
    BY DEF Poll
  <1>9. CASE SendData(e, t)
    BY <1>5, <1>6, <1>8, <1>9, SendDataIs
  <1>10. CASE SendNothingNew(e, t, TRUE)
    BY <1>5, <1>6, <1>8, <1>10, SendNothingNewIs
  <1>11. CASE SendNothingNew(e, t, FALSE)
    BY <1>5, <1>6, <1>8, <1>11, SendNothingNewIs
  <1> QED BY <1>2, <1>7, <1>9, <1>10, <1>11

-----------------------------------------------------------------------------
(***************************************************************************)
(* Receive, as the invariants tell its outcomes apart.                     *)
(***************************************************************************)

(* What a datagram that is accepted does to the sending half,                *)
Acknowledges(t, u, d) ==
    /\ t.sender.acked \subseteq u.sender.acked
    /\ \A o \in u.sender.acked \ t.sender.acked :
         \E p \in t.sent : p.sequence \in d.acks /\ o \in p.reliable
    /\ u.sender.nextNew = t.sender.nextNew
    /\ u.lane \subseteq t.lane /\ u.owner = t.owner
    /\ Remembers(t, u)
    /\ Owed(t) => Owed(u)

(* to the receiving half,                                                    *)
Keeps(q, r) == \A o \in Int : Has(q.receiver, o) => Has(r.receiver, o)

Takes(q, r, d) ==
    /\ r.window = Accept(q.window, d.sequence)
    /\ r.receiver.delivered >= q.receiver.delivered
    /\ Keeps(q, r)
    /\ (\A f \in d.fragments : f[2] <= q.receiver.delivered + HoldLimit) =>
         \A o \in Int : \A f \in d.fragments :
             f[1] <= o /\ o < f[2] => Has(r.receiver, o)
    /\ \A s \in Nat : IsNew(r.lane, s) => IsNew(q.lane, s) /\ s \notin d.lane

(* and what it hands out.                                                    *)
HandsOut(q, h, d) ==
    /\ h \in Seq(Message)
    /\ \A i, j \in DOMAIN h : h[i] = h[j] => i = j
    /\ \A i \in DOMAIN h :
         \/ \E s \in d.lane : IsNew(q.lane, s) /\ h[i] = <<"lane", s>>
         \/ \E m \in d.loose : h[i] = <<"loose", m>>

(* A set of numbers from 1 to a bound is finite.                             *)
LEMMA FiniteDown ==
    ASSUME NEW n \in Nat, NEW T, T \subseteq 1 .. n
    PROVE  IsFiniteSet(T) /\ T \in SUBSET Nat
  <1>1. T \subseteq 0 .. (n + 1) - 1 /\ n + 1 \in Nat
    OBVIOUS
  <1> QED BY <1>1, FiniteNumbers

(* The receiving half after a datagram.                                      *)
LEMMA AfterAcceptOK ==
    ASSUME NEW q \in Receiving, NEW n \in Nat, NEW k \in Nat, NEW d \in Packet,
           q.receiver \in Receivers(n), d.fragments \subseteq (0 .. n) \X (0 .. n),
           d.lane \subseteq 1 .. k
    PROVE  /\ AfterAccept(q, d) \in Receiving
           /\ AfterAccept(q, d).receiver \in Receivers(n)
           /\ Takes(q, AfterAccept(q, d), d)
  <1> DEFINE w == Accept(q.window, d.sequence)
             from == IF q.reportFrom = 0 \/ d.sequence < q.reportFrom THEN d.sequence
                     ELSE q.reportFrom
             pending == q.ackPending \/ ~d.ackOnly
             c == TakeFragments(q.receiver, d.fragments)
             l == AcceptLane(q.lane, d.lane)
             r == AfterAccept(q, d)
  <1>1. q = [window |-> q.window, reportFrom |-> q.reportFrom, ackPending |-> q.ackPending,
             receiver |-> q.receiver, lane |-> q.lane]
        /\ q.window \in Window /\ q.reportFrom \in Nat /\ q.ackPending \in BOOLEAN
        /\ q.lane \in Window
    BY DEF Receiving
  <1>2. d.sequence \in Nat /\ d.ackOnly \in BOOLEAN
    BY DEF Packet
  <1>3. w \in Window
    BY <1>1, <1>2, AcceptType
  <1>4. from \in Nat /\ pending \in BOOLEAN
    BY <1>1, <1>2
  <1>5. /\ c \in Receivers(n) /\ c.delivered >= q.receiver.delivered
        /\ \A o \in Int : Has(q.receiver, o) => Has(c, o)
        /\ (\A f \in d.fragments : f[2] <= q.receiver.delivered + HoldLimit) =>
             \A o \in Int : \A f \in d.fragments :
                 f[1] <= o /\ o < f[2] => Has(c, o)
    BY TakeFragmentsOK
  <1>6. IsFiniteSet(d.lane) /\ d.lane \in SUBSET Nat
    BY FiniteDown
  <1>7. /\ l \in Window
        /\ \A s \in Nat : IsNew(l, s) => IsNew(q.lane, s) /\ s \notin d.lane
    BY <1>1, <1>6, AcceptLaneOK
  <1>8. r = [window |-> w, reportFrom |-> from, ackPending |-> pending, receiver |-> c,
             lane |-> l]
    <2>1. r = [q EXCEPT !.window = w, !.reportFrom = from, !.ackPending = pending,
                        !.receiver = c, !.lane = l]
      BY DEF AfterAccept
    <2> HIDE DEF w, from, pending, c, l, r
    <2> QED BY <1>1, <2>1
  <1> HIDE DEF w, from, pending, c, l, r
  <1>9. c \in [delivered : Nat, held : SUBSET Nat]
    BY <1>5 DEF Receivers
  <1>10. r \in Receiving /\ r.receiver = c /\ r.window = w /\ r.lane = l
    BY <1>3, <1>4, <1>7, <1>8, <1>9 DEF Receiving
  <1>11. Takes(q, r, d)
    BY <1>5, <1>7, <1>10 DEF Takes, Keeps, w
  <1> QED BY <1>5, <1>10, <1>11 DEF r

(* What a datagram hands out, each of it once.                               *)
LEMMA HandedIs ==
    ASSUME NEW e \in End, NEW d \in Packet, NEW k \in Nat, NEW j \in Nat,
           d.lane \subseteq 1 .. k, d.loose \subseteq 1 .. j
    PROVE  HandsOut(rx[e], Handed(e, d), d)
  <1> DEFINE L == NewLane(rx[e].lane, d.lane)
             M == {<<"lane", s>> : s \in L} \cup {<<"loose", m>> : m \in d.loose}
             h == SetToSeq(M)
  <1>1. IsFiniteSet(d.lane) /\ d.lane \in SUBSET Nat
    BY FiniteDown
  <1>2. IsFiniteSet(d.loose) /\ d.loose \in SUBSET Nat
    BY FiniteDown
  <1>3. L \subseteq d.lane
    BY DEF NewLane
  <1>4. IsFiniteSet({"lane", "loose"})
    <2>1. IsFiniteSet({"loose"}) /\ IsFiniteSet({"lane"})
      BY FS_Singleton
    <2>2. {"lane", "loose"} = {"lane"} \cup {"loose"}
      OBVIOUS
    <2> QED BY <2>1, <2>2, FS_Union
  <1>5. IsFiniteSet(d.lane \cup d.loose)
    BY <1>1, <1>2, FS_Union
  <1>6. IsFiniteSet({"lane", "loose"} \X (d.lane \cup d.loose))
    BY <1>4, <1>5, FS_Product
  <1>7. M \subseteq {"lane", "loose"} \X (d.lane \cup d.loose)
    BY <1>3
  <1>8. IsFiniteSet(M)
    BY <1>6, <1>7, FS_Subset
  <1>9. M \subseteq Message
    BY <1>1, <1>2, <1>7 DEF Message
  <1>10. \A x \in M : \/ \E s \in d.lane : IsNew(rx[e].lane, s) /\ x = <<"lane", s>>
                      \/ \E m \in d.loose : x = <<"loose", m>>
    BY DEF NewLane
  <1>11. Handed(e, d) = h
    BY DEF Handed
  <1> HIDE DEF M
  <1>12. h \in Seq(M) /\ \A a, b \in DOMAIN h : h[a] = h[b] => a = b
    BY <1>8, SetToSeqIs
  <1> HIDE DEF h
  <1>13. \A i \in DOMAIN h : h[i] \in M
    BY <1>12
  <1>14. h \in Seq(Message)
    BY <1>9, <1>12
  <1> QED BY <1>10, <1>11, <1>12, <1>13, <1>14 DEF HandsOut

(* Receive, in these terms.                                                  *)
LEMMA ReceiveCases ==
    ASSUME BookInv, NEW d \in net, Receive(d)
    PROVE  \E u, r, h :
             /\ IsNew(rx[d.to].window, d.sequence)
             /\ SendingOK(u, nextSequence[d.to])
             /\ Acknowledges(tx[d.to], u, d)
             /\ r \in Receiving
             /\ r.receiver \in Receivers(tx[Peer(d.to)].sender.nextNew)
             /\ Takes(rx[d.to], r, d)
             /\ HandsOut(rx[d.to], h, d)
             /\ state' = [state EXCEPT ![d.to] = "Connected"]
             /\ state[d.to] # "Failed"
             /\ tx' = [tx EXCEPT ![d.to] = u]
             /\ rx' = [rx EXCEPT ![d.to] = r]
             /\ handed' = [handed EXCEPT ![d.to] = @ \o h]
             /\ net' \subseteq net
             /\ UNCHANGED <<keyed, nextSequence, loose, queuedLoose, queuedLane, losses>>
  <1> DEFINE e == d.to
  <1>1. d \in Packet /\ e \in End /\ d.ack \in Nat /\ Peer(e) \in End
    BY Peers DEF BookInv, Types, Packet
  <1>2. /\ PacketOK(d) /\ EndOK(e)
        /\ nextSequence[e] \in Nat /\ rx[e] \in Receiving
        /\ tx[Peer(e)].sender.nextNew \in Nat
        /\ queuedLane[Peer(e)] \in Nat /\ queuedLoose[Peer(e)] \in Nat
    BY <1>1 DEF BookInv, Types, Sending, Sender
  <1>3. PICK x \in Expired(e) : tx' = [tx EXCEPT ![e] = ProcessAcks(tx[e], d, x)]
    BY DEF Receive
  <1>4. /\ Accepts(e, d)
        /\ state' = [state EXCEPT ![e] = "Connected"]
        /\ rx' = [rx EXCEPT ![e] = AfterAccept(rx[e], d)]
        /\ handed' = [handed EXCEPT ![e] = @ \o Handed(e, d)]
        /\ net' \subseteq net
        /\ UNCHANGED <<keyed, nextSequence, loose, queuedLoose, queuedLane, losses>>
    BY DEF Receive
  <1>5. Open(e) /\ IsNew(rx[e].window, d.sequence) /\ ~(d.ack >= nextSequence[e])
    BY <1>4 DEF Accepts, Malformed
  <1> DEFINE u == ProcessAcks(tx[e], d, x)
             r == AfterAccept(rx[e], d)
             h == Handed(e, d)
  <1>6. SendingOK(u, nextSequence[e]) /\ Acknowledges(tx[e], u, d)
    <2>1. SendingOK(tx[e], nextSequence[e])
      BY <1>2 DEF EndOK
    <2>2. d.ack < nextSequence[e]
      BY <1>1, <1>2, <1>5
    <2> QED BY <1>1, <1>2, <2>1, <2>2, ProcessAcksOK DEF Acknowledges
  <1>7. /\ r \in Receiving /\ r.receiver \in Receivers(tx[Peer(e)].sender.nextNew)
        /\ Takes(rx[e], r, d)
    <2>1. rx[e].receiver \in Receivers(tx[Peer(e)].sender.nextNew)
      BY <1>2 DEF EndOK
    <2>2. /\ d.fragments \subseteq (0 .. tx[Peer(e)].sender.nextNew)
                                       \X (0 .. tx[Peer(e)].sender.nextNew)
          /\ d.lane \subseteq 1 .. queuedLane[Peer(e)]
      BY <1>2 DEF PacketOK
    <2> QED BY <1>1, <1>2, <2>1, <2>2, AfterAcceptOK
  <1>8. HandsOut(rx[e], h, d)
    <2>1. d.lane \subseteq 1 .. queuedLane[Peer(e)] /\ d.loose \subseteq 1 .. queuedLoose[Peer(e)]
      BY <1>2 DEF PacketOK
    <2> QED BY <1>1, <1>2, <2>1, HandedIs
  <1>9. state[e] # "Failed"
    BY <1>5 DEF Open
  <1>10. tx' = [tx EXCEPT ![e] = u]
    BY <1>3
  <1> HIDE DEF u, r, h
  <1>11. /\ rx' = [rx EXCEPT ![e] = r]
         /\ handed' = [handed EXCEPT ![e] = @ \o h]
    BY <1>4 DEF r, h
  <1> QED BY <1>4, <1>5, <1>6, <1>7, <1>8, <1>9, <1>10, <1>11

-----------------------------------------------------------------------------
(***************************************************************************)
(* Every step keeps the books.                                             *)
(***************************************************************************)

(* A receiver that holds nothing past n holds nothing past a later end.      *)
LEMMA ReceiversGrow ==
    ASSUME NEW n \in Nat, NEW m \in Nat, n <= m, NEW r \in Receivers(n)
    PROVE  r \in Receivers(m)
  <1>1. r \in [delivered : 0 .. n, held : SUBSET (0 .. n - 1)] /\ ReceiverOK(r, n)
    BY DEF Receivers
  <1>2. r = [delivered |-> r.delivered, held |-> r.held]
        /\ r.delivered \in 0 .. m /\ r.held \in SUBSET (0 .. m - 1)
    BY <1>1
  <1>3. r \in [delivered : 0 .. m, held : SUBSET (0 .. m - 1)]
    BY <1>2
  <1>4. r.held \subseteq r.delivered + 1 .. m - 1
    BY <1>1 DEF ReceiverOK
  <1> QED BY <1>2, <1>3, <1>4 DEF Receivers, ReceiverOK

(* What a step may do to the numbers an end counts up.                       *)
Counts ==
    \A p \in End :
        /\ nextSequence'[p] >= nextSequence[p]
        /\ tx'[p].sender.nextNew >= tx[p].sender.nextNew
        /\ queuedLane'[p] >= queuedLane[p]
        /\ queuedLoose'[p] >= queuedLoose[p]

(* A datagram on its way stays within what its sender has sent.              *)
LEMMA PacketsKept ==
    ASSUME BookInv, Types', Counts, NEW d \in net
    PROVE  PacketOK(d)'
  <1> DEFINE s == Peer(d.to)
  <1>1. s \in End /\ PacketOK(d)
    BY Peers DEF BookInv, Types, Packet
  <1>2. /\ nextSequence[s] \in Nat /\ nextSequence'[s] \in Nat
        /\ queuedLane[s] \in Nat /\ queuedLane'[s] \in Nat
        /\ queuedLoose[s] \in Nat /\ queuedLoose'[s] \in Nat
    BY <1>1 DEF BookInv, Types
  <1>3. tx[s].sender.nextNew \in Nat /\ tx'[s].sender.nextNew \in Nat
    BY <1>1 DEF BookInv, Types, Sending, Sender
  <1>4. /\ nextSequence'[s] >= nextSequence[s]
        /\ tx'[s].sender.nextNew >= tx[s].sender.nextNew
        /\ queuedLane'[s] >= queuedLane[s]
        /\ queuedLoose'[s] >= queuedLoose[s]
    BY <1>1 DEF Counts
  <1>5. /\ d.sequence \in 1 .. nextSequence[s] - 1
        /\ d.fragments \subseteq (0 .. tx[s].sender.nextNew) \X (0 .. tx[s].sender.nextNew)
        /\ d.lane \subseteq 1 .. queuedLane[s] /\ d.loose \subseteq 1 .. queuedLoose[s]
    BY <1>1 DEF PacketOK
  <1> HIDE DEF s
  <1>6. d.sequence \in 1 .. nextSequence'[s] - 1
    BY <1>2, <1>4, <1>5
  <1>7. d.fragments \subseteq (0 .. tx'[s].sender.nextNew) \X (0 .. tx'[s].sender.nextNew)
    BY <1>3, <1>4, <1>5
  <1>8. d.lane \subseteq 1 .. queuedLane'[s] /\ d.loose \subseteq 1 .. queuedLoose'[s]
    BY <1>2, <1>4, <1>5
  <1> QED BY <1>6, <1>7, <1>8 DEF PacketOK, s

(* To keep the books it is enough to look at the ends and at new datagrams.  *)
LEMMA BookKept ==
    ASSUME BookInv, Types', Counts, \A e \in End : EndOK(e)',
           \A d \in net' : d \in net \/ PacketOK(d)'
    PROVE  BookInv'
  <1>1. \A d \in net' : PacketOK(d)'
    BY PacketsKept
  <1> QED BY <1>1 DEF BookInv

(* What holds of an end that keeps its books.                                *)
LEMMA BookFacts ==
    ASSUME BookInv, NEW e \in End
    PROVE  /\ nextSequence[e] \in Nat \ {0} /\ queuedLane[e] \in Nat /\ queuedLoose[e] \in Nat
           /\ tx[e] \in Sending /\ tx[e].sender.nextNew \in Nat /\ tx[e].owner.last \in Nat
           /\ rx[e] \in Receiving /\ rx[e].window \in Window /\ rx[e].window.newest \in Nat
           /\ EndOK(e) /\ Peer(e) \in End
    BY Peers DEF BookInv, Types, Sending, Sender, Owner, Receiving, Window

(* A poll keeps the books.                                                   *)
LEMMA PollBook ==
    ASSUME BookInv, NEW e \in End, Poll(e)
    PROVE  BookInv' /\ Counts
  <1>1. PICK u : /\ tx' = [tx EXCEPT ![e] = u] /\ Advanced(tx[e], u)
                 /\ Quiet(e, u) \/ \E d \in Packet : Emits(e, u, d)
    BY PollCases
  <1>2. UNCHANGED <<keyed, queuedLoose, queuedLane, handed, losses>>
    BY PollCases
  <1>3. Types
    BY DEF BookInv
  <1>4. /\ nextSequence[e] \in Nat \ {0} /\ tx[e].owner.last \in Nat
        /\ nextSequence[e] <= tx[e].owner.last
    BY BookFacts DEF EndOK
  <1>5. /\ SendingOK(u, nextSequence'[e])
        /\ nextSequence' \in [End -> Nat \ {0}]
        /\ nextSequence'[e] >= nextSequence[e] /\ nextSequence'[e] <= tx[e].owner.last
        /\ \A p \in End : p # e => nextSequence'[p] = nextSequence[p]
    <2>1. CASE Quiet(e, u)
      BY <1>3, <1>4, <2>1 DEF Quiet, Types
    <2>2. ASSUME NEW d \in Packet, Emits(e, u, d)
          PROVE  /\ SendingOK(u, nextSequence'[e])
                 /\ nextSequence' \in [End -> Nat \ {0}]
                 /\ nextSequence'[e] >= nextSequence[e] /\ nextSequence'[e] <= tx[e].owner.last
                 /\ \A p \in End : p # e => nextSequence'[p] = nextSequence[p]
      <3>1. /\ SendingOK(u, nextSequence[e] + 1) /\ nextSequence[e] # tx[e].owner.last
            /\ nextSequence' = [nextSequence EXCEPT ![e] = @ + 1]
        BY <2>2 DEF Emits
      <3>2. nextSequence'[e] = nextSequence[e] + 1
        BY <1>3, <3>1 DEF Types
      <3>3. \A p \in End : p # e => nextSequence'[p] = nextSequence[p]
        BY <1>3, <3>1 DEF Types
      <3>4. nextSequence' \in [End -> Nat \ {0}]
        BY <1>3, <1>4, <3>1 DEF Types
      <3> QED BY <1>4, <3>1, <3>2, <3>3, <3>4
    <2> QED BY <1>1, <2>1, <2>2
  <1>6. /\ rx' \in [End -> Receiving]
        /\ \A p \in End : /\ rx'[p].window = rx[p].window
                          /\ rx'[p].receiver = rx[p].receiver
    <2>1. CASE rx' = rx
      BY <1>3, <2>1 DEF Types
    <2>2. CASE rx' = [rx EXCEPT ![e].ackPending = FALSE, ![e].reportFrom = 0]
      BY <1>3, <2>2 DEF Types, Receiving
    <2> QED BY <1>1, <2>1, <2>2 DEF Quiet, Emits
  <1>7. /\ loose' \in [End -> SUBSET Nat]
        /\ \A p \in End : loose'[p] \subseteq loose[p]
    <2>1. loose' = loose \/ (\E X : loose' = [loose EXCEPT ![e] = @ \ X])
          \/ loose' = [loose EXCEPT ![e] = {}]
      BY <1>1 DEF Quiet, Emits
    <2> QED BY <1>3, <2>1 DEF Types
  <1>8. state' \in [End -> {"Connecting", "Connected", "TimedOut", "Failed"}]
    BY <1>1, <1>3 DEF Types, Quiet, Emits
  <1>9. tx' \in [End -> Sending]
    BY <1>1, <1>3, <1>5 DEF Types, SendingOK
  <1>10. net' \in SUBSET Packet
    BY <1>1, <1>3 DEF Types, Quiet, Emits
  <1>11. Types'
    BY <1>2, <1>3, <1>5, <1>6, <1>7, <1>8, <1>9, <1>10 DEF Types
  <1>12. /\ tx'[e] = u /\ \A p \in End : p # e => tx'[p] = tx[p]
    BY <1>1, <1>3 DEF Types
  <1>13. \A p \in End : /\ tx'[p].sender.nextNew \in Nat /\ tx[p].sender.nextNew \in Nat
                        /\ tx'[p].sender.nextNew >= tx[p].sender.nextNew
                        /\ tx'[p].owner = tx[p].owner
    <2>1. \A p \in End : tx'[p].sender.nextNew \in Nat /\ tx[p].sender.nextNew \in Nat
      BY <1>3, <1>9 DEF Types, Sending, Sender
    <2> QED BY <1>1, <1>12, <2>1 DEF Advanced
  <1>14. Counts
    <2> SUFFICES ASSUME NEW p \in End
                 PROVE  /\ nextSequence'[p] >= nextSequence[p]
                        /\ tx'[p].sender.nextNew >= tx[p].sender.nextNew
                        /\ queuedLane'[p] >= queuedLane[p]
                        /\ queuedLoose'[p] >= queuedLoose[p]
      BY DEF Counts
    <2>1. nextSequence[p] \in Nat /\ queuedLane[p] \in Nat /\ queuedLoose[p] \in Nat
      BY <1>3 DEF Types
    <2>2. nextSequence'[p] >= nextSequence[p]
      BY <1>5, <2>1
    <2> QED BY <1>2, <1>13, <2>1, <2>2
  <1>15. ASSUME NEW p \in End PROVE EndOK(p)'
    <2>1. EndOK(p) /\ Peer(p) \in End
      BY BookFacts
    <2>2. SendingOK(tx'[p], nextSequence'[p])
      BY <1>5, <1>12, <2>1 DEF EndOK
    <2>3. nextSequence'[p] <= tx'[p].owner.last
      BY <1>5, <1>12, <1>13, <2>1 DEF EndOK
    <2>4. \A m \in tx'[p].lane : m.sequence \in 1 .. queuedLane'[p]
      BY <1>1, <1>2, <1>12, <2>1 DEF EndOK, Advanced
    <2>5. loose'[p] \subseteq 1 .. queuedLoose'[p]
      BY <1>2, <1>7, <2>1 DEF EndOK
    <2>6. rx'[p].window.newest < nextSequence'[Peer(p)]
      <3>1. rx[p].window.newest < nextSequence[Peer(p)] /\ rx[p].window.newest \in Nat
        BY <2>1, BookFacts DEF EndOK
      <3>2. nextSequence[Peer(p)] \in Nat /\ nextSequence'[Peer(p)] \in Nat
            /\ nextSequence'[Peer(p)] >= nextSequence[Peer(p)]
        BY <1>3, <1>5, <1>14, <2>1 DEF Types, Counts
      <3> QED BY <1>6, <3>1, <3>2
    <2>7. rx'[p].receiver \in Receivers(tx'[Peer(p)].sender.nextNew)
      <3>1. rx[p].receiver \in Receivers(tx[Peer(p)].sender.nextNew)
        BY <2>1 DEF EndOK
      <3>2. PICK a \in Nat : a = tx[Peer(p)].sender.nextNew
        BY <1>13, <2>1
      <3>3. PICK b \in Nat : b = tx'[Peer(p)].sender.nextNew
        BY <1>13, <2>1
      <3>4. a <= b
        BY <1>13, <2>1, <3>2, <3>3
      <3>5. PICK r : r = rx[p].receiver /\ r \in Receivers(a)
        BY <3>1, <3>2
      <3>6. r \in Receivers(b)
        BY <3>4, <3>5, ReceiversGrow
      <3> QED BY <1>6, <3>3, <3>5, <3>6
    <2> QED BY <2>2, <2>3, <2>4, <2>5, <2>6, <2>7 DEF EndOK
  <1>16. ASSUME NEW d \in net', d \notin net PROVE PacketOK(d)'
    <2>1. d \in Packet /\ Emits(e, u, d)
      BY <1>1, <1>16 DEF Quiet, Emits
    <2>2. Header(e, d) /\ Content(e, u, d) /\ Peer(Peer(e)) = e
      BY <2>1, Peers DEF Emits
    <2>3. Peer(d.to) = e
      BY <2>2 DEF Header
    <2>4. d.sequence \in 1 .. nextSequence'[e] - 1
      <3>1. nextSequence' = [nextSequence EXCEPT ![e] = @ + 1]
        BY <2>1 DEF Emits
      <3>2. nextSequence'[e] = nextSequence[e] + 1
        BY <1>3, <3>1 DEF Types
      <3> QED BY <1>4, <2>2, <3>2 DEF Header
    <2>5. /\ d.fragments \subseteq (0 .. tx'[e].sender.nextNew) \X (0 .. tx'[e].sender.nextNew)
          /\ d.lane \subseteq 1 .. queuedLane'[e]
      BY <1>2, <1>12, <2>2 DEF Content
    <2>6. d.loose \subseteq 1 .. queuedLoose'[e]
      <3>1. loose[e] \subseteq 1 .. queuedLoose[e]
        BY BookFacts DEF EndOK
      <3> QED BY <1>2, <2>2, <3>1 DEF Content
    <2> QED BY <2>3, <2>4, <2>5, <2>6 DEF PacketOK
  <1>17. \A p \in End : EndOK(p)'
    BY <1>15
  <1>18. \A d \in net' : d \in net \/ PacketOK(d)'
    BY <1>16
  <1> QED BY <1>11, <1>14, <1>17, <1>18, BookKept

(* A datagram received keeps the books.                                      *)
LEMMA ReceiveBook ==
    ASSUME BookInv, NEW d \in net, Receive(d)
    PROVE  BookInv' /\ Counts
  <1> DEFINE e == d.to
  <1>1. PICK u, r, h :
             /\ IsNew(rx[e].window, d.sequence)
             /\ SendingOK(u, nextSequence[e])
             /\ Acknowledges(tx[e], u, d)
             /\ r \in Receiving
             /\ r.receiver \in Receivers(tx[Peer(e)].sender.nextNew)
             /\ Takes(rx[e], r, d)
             /\ HandsOut(rx[e], h, d)
             /\ state' = [state EXCEPT ![e] = "Connected"]
             /\ tx' = [tx EXCEPT ![e] = u]
             /\ rx' = [rx EXCEPT ![e] = r]
             /\ handed' = [handed EXCEPT ![e] = @ \o h]
             /\ net' \subseteq net
             /\ UNCHANGED <<keyed, nextSequence, loose, queuedLoose, queuedLane, losses>>
    BY ReceiveCases
  <1>2. Types /\ d \in Packet /\ e \in End /\ PacketOK(d)
    BY DEF BookInv, Types, Packet
  <1> HIDE DEF e
  <1>3. tx' \in [End -> Sending] /\ tx'[e] = u /\ \A p \in End : p # e => tx'[p] = tx[p]
    BY <1>1, <1>2 DEF Types, SendingOK
  <1>4. rx' \in [End -> Receiving] /\ rx'[e] = r /\ \A p \in End : p # e => rx'[p] = rx[p]
    BY <1>1, <1>2 DEF Types
  <1>5. handed' \in [End -> Seq(Message)]
    <2>1. h \in Seq(Message) /\ handed[e] \in Seq(Message)
      BY <1>1, <1>2 DEF HandsOut, Types
    <2>2. handed[e] \o h \in Seq(Message)
      BY <2>1
    <2> QED BY <1>1, <1>2, <2>2 DEF Types
  <1>6. state' \in [End -> {"Connecting", "Connected", "TimedOut", "Failed"}]
    BY <1>1, <1>2 DEF Types
  <1>7. net' \in SUBSET Packet
    BY <1>1, <1>2 DEF Types
  <1>8. Types'
    BY <1>1, <1>2, <1>3, <1>4, <1>5, <1>6, <1>7 DEF Types
  <1>9. \A p \in End : /\ tx'[p].sender.nextNew = tx[p].sender.nextNew
                       /\ tx'[p].owner = tx[p].owner
    BY <1>1, <1>3 DEF Acknowledges
  <1>10. Counts
    <2> SUFFICES ASSUME NEW p \in End
                 PROVE  /\ nextSequence'[p] >= nextSequence[p]
                        /\ tx'[p].sender.nextNew >= tx[p].sender.nextNew
                        /\ queuedLane'[p] >= queuedLane[p]
                        /\ queuedLoose'[p] >= queuedLoose[p]
      BY DEF Counts
    <2>1. /\ nextSequence[p] \in Nat /\ queuedLane[p] \in Nat /\ queuedLoose[p] \in Nat
          /\ tx[p].sender.nextNew \in Nat
      BY BookFacts
    <2> QED BY <1>1, <1>9, <2>1
  <1>11. ASSUME NEW p \in End PROVE EndOK(p)'
    <2>1. EndOK(p) /\ Peer(p) \in End
      BY BookFacts
    <2>2. SendingOK(tx'[p], nextSequence'[p])
      BY <1>1, <1>3, <2>1 DEF EndOK
    <2>3. nextSequence'[p] <= tx'[p].owner.last
      BY <1>1, <1>9, <2>1 DEF EndOK
    <2>4. \A m \in tx'[p].lane : m.sequence \in 1 .. queuedLane'[p]
      BY <1>1, <1>3, <2>1 DEF EndOK, Acknowledges
    <2>5. loose'[p] \subseteq 1 .. queuedLoose'[p]
      BY <1>1, <2>1 DEF EndOK
    <2>6. rx'[p].window.newest < nextSequence'[Peer(p)]
      <3>1. rx[p].window.newest < nextSequence[Peer(p)]
        BY <2>1 DEF EndOK
      <3>2. CASE p # e
        BY <1>1, <1>4, <3>1, <3>2
      <3>3. CASE p = e
        <4>1. d.sequence \in 1 .. nextSequence[Peer(e)] - 1 /\ nextSequence[Peer(e)] \in Nat
          BY <1>2, <2>1, <3>3 DEF PacketOK, e, Types
        <4>2. r.window = Accept(rx[e].window, d.sequence)
          BY <1>1 DEF Takes
        <4>3. rx[e].window \in Window /\ d.sequence \in Nat
          BY <1>2, BookFacts DEF Packet
        <4>4. r.window.newest \in {rx[e].window.newest, d.sequence}
          BY <4>2, <4>3, AcceptType
        <4>5. r.window.newest < nextSequence[Peer(e)]
          BY <3>1, <3>3, <4>1, <4>4
        <4> QED BY <1>1, <1>4, <3>3, <4>5
      <3> QED BY <3>2, <3>3
    <2>7. rx'[p].receiver \in Receivers(tx'[Peer(p)].sender.nextNew)
      BY <1>1, <1>4, <1>9, <2>1 DEF EndOK
    <2> QED BY <2>2, <2>3, <2>4, <2>5, <2>6, <2>7 DEF EndOK
  <1>12. \A p \in End : EndOK(p)'
    BY <1>11
  <1>13. \A m \in net' : m \in net \/ PacketOK(m)'
    BY <1>1
  <1> QED BY <1>8, <1>10, <1>12, <1>13, BookKept

(* A step that changes the sending half at most by what its owner queues.    *)
Queues(e, t) ==
    /\ tx' = [tx EXCEPT ![e] = t]
    /\ SendingOK(t, nextSequence[e])
    /\ t.sender.acked = tx[e].sender.acked /\ t.sender.lost = tx[e].sender.lost
    /\ t.sender.nextNew = tx[e].sender.nextNew
    /\ t.sent = tx[e].sent /\ t.owner = tx[e].owner
    /\ \A m \in t.lane : m.sequence \in 1 .. queuedLane'[e]
    /\ UNCHANGED <<state, keyed, nextSequence, rx, loose, queuedLoose, handed, net, losses>>

(* The owner queues reliable bytes,                                          *)
LEMMA SendReliableIs ==
    ASSUME BookInv, NEW e \in End, SendReliable(e)
    PROVE  \E t : Queues(e, t) /\ t.lane = tx[e].lane /\ UNCHANGED queuedLane
  <1> DEFINE q == Queue(tx[e].sender, 1)
             t == [tx[e] EXCEPT !.sender = q]
  <1>1. EndOK(e) /\ tx[e] \in Sending /\ tx \in [End -> Sending]
    BY BookFacts DEF BookInv, Types
  <1>2. SendingOK(tx[e], nextSequence[e]) /\ SenderOK(tx[e].sender)
    BY <1>1 DEF EndOK, SendingOK
  <1>3. /\ SenderOK(q) /\ q.acked = tx[e].sender.acked /\ q.lost = tx[e].sender.lost
        /\ q.nextNew = tx[e].sender.nextNew
    BY <1>2, QueueOK
  <1>4. /\ tx' = [tx EXCEPT ![e] = t]
        /\ UNCHANGED <<state, keyed, nextSequence, rx, loose, queuedLoose, queuedLane,
                       handed, net, losses>>
    BY <1>1 DEF SendReliable
  <1> HIDE DEF q
  <1>5. /\ t \in Sending /\ t.sender = q /\ t.sent = tx[e].sent /\ t.lane = tx[e].lane
        /\ t.owner = tx[e].owner /\ t.largestAcked = tx[e].largestAcked
    BY <1>1, <1>3 DEF Sending, SenderOK
  <1> HIDE DEF t
  <1>6. SendingOK(t, nextSequence[e])
    BY <1>2, <1>3, <1>5 DEF SendingOK
  <1>7. \A m \in t.lane : m.sequence \in 1 .. queuedLane'[e]
    BY <1>1, <1>4, <1>5 DEF EndOK
  <1> QED BY <1>3, <1>4, <1>5, <1>6, <1>7 DEF Queues

(* or a redundant message: of the messages before it none is renamed.        *)
LEMMA SendRedundantIs ==
    ASSUME BookInv, NEW e \in End, SendRedundant(e)
    PROVE  \E t : Queues(e, t) /\ queuedLane' = [queuedLane EXCEPT ![e] = @ + 1]
  <1> DEFINE lane == tx[e].lane
             full == Cardinality(lane) >= MaxLane
             oldest == CHOOSE m \in lane : \A n \in lane : m.sequence <= n.sequence
             message == [sequence |-> queuedLane[e] + 1, repeats |-> Redundancy, sent |-> FALSE]
             longer == (IF full THEN lane \ {oldest} ELSE lane) \cup {message}
             t == [tx[e] EXCEPT !.lane = longer]
  <1>1. /\ EndOK(e) /\ tx[e] \in Sending /\ tx \in [End -> Sending] /\ queuedLane[e] \in Nat
        /\ queuedLane \in [End -> Nat]
    BY BookFacts DEF BookInv, Types
  <1>2. SendingOK(tx[e], nextSequence[e])
    BY <1>1 DEF EndOK
  <1>3. /\ tx' = [tx EXCEPT ![e] = t]
        /\ queuedLane' = [queuedLane EXCEPT ![e] = @ + 1]
        /\ UNCHANGED <<state, keyed, nextSequence, rx, loose, queuedLoose, handed, net, losses>>
    BY <1>1 DEF SendRedundant
  <1>4. message \in LaneMessage /\ message.sequence = queuedLane[e] + 1
    BY <1>1, ChannelAssumption DEF LaneMessage
  <1>5. lane \subseteq LaneMessage /\ \A m \in lane : m.sequence \in 1 .. queuedLane[e]
    BY <1>1 DEF Sending, EndOK
  <1>6. longer \subseteq lane \cup {message}
    OBVIOUS
  <1> HIDE DEF message, longer
  <1>7. longer \subseteq LaneMessage
    BY <1>4, <1>5, <1>6
  <1>8. /\ t \in Sending /\ t.sender = tx[e].sender /\ t.sent = tx[e].sent
        /\ t.lane = longer /\ t.owner = tx[e].owner /\ t.largestAcked = tx[e].largestAcked
    BY <1>1, <1>7 DEF Sending
  <1> HIDE DEF t
  <1>9. SendingOK(t, nextSequence[e])
    BY <1>2, <1>8 DEF SendingOK
  <1>10. \A m \in t.lane : m.sequence \in 1 .. queuedLane'[e]
    <2>1. queuedLane'[e] = queuedLane[e] + 1
      BY <1>1, <1>3
    <2> QED BY <1>1, <1>4, <1>5, <1>6, <1>8, <2>1
  <1> QED BY <1>3, <1>8, <1>9, <1>10 DEF Queues

(* Either keeps the books.                                                   *)
LEMMA QueuesBook ==
    ASSUME BookInv, NEW e \in End, NEW t, Queues(e, t),
           UNCHANGED queuedLane \/ queuedLane' = [queuedLane EXCEPT ![e] = @ + 1]
    PROVE  BookInv' /\ Counts
  <1>1. Types
    BY DEF BookInv
  <1>2. tx' \in [End -> Sending] /\ tx'[e] = t /\ \A p \in End : p # e => tx'[p] = tx[p]
    BY <1>1 DEF Types, SendingOK, Queues
  <1>3. queuedLane' \in [End -> Nat] /\ \A p \in End : queuedLane'[p] >= queuedLane[p]
    <2>1. queuedLane \in [End -> Nat]
      BY <1>1 DEF Types
    <2>2. CASE UNCHANGED queuedLane
      BY <2>1, <2>2
    <2>3. CASE queuedLane' = [queuedLane EXCEPT ![e] = @ + 1]
      BY <2>1, <2>3
    <2> QED BY <2>2, <2>3
  <1>4. UNCHANGED <<state, keyed, nextSequence, rx, loose, queuedLoose, handed, net, losses>>
    BY DEF Queues
  <1>5. Types'
    BY <1>1, <1>2, <1>3, <1>4 DEF Types
  <1>6. \A p \in End : /\ tx'[p].sender.nextNew = tx[p].sender.nextNew
                       /\ tx'[p].owner = tx[p].owner
    BY <1>2 DEF Queues
  <1>7. Counts
    <2> SUFFICES ASSUME NEW p \in End
                 PROVE  /\ nextSequence'[p] >= nextSequence[p]
                        /\ tx'[p].sender.nextNew >= tx[p].sender.nextNew
                        /\ queuedLane'[p] >= queuedLane[p]
                        /\ queuedLoose'[p] >= queuedLoose[p]
      BY DEF Counts
    <2>1. /\ nextSequence[p] \in Nat /\ queuedLoose[p] \in Nat
          /\ tx[p].sender.nextNew \in Nat
      BY BookFacts
    <2> QED BY <1>3, <1>4, <1>6, <2>1
  <1>8. ASSUME NEW p \in End PROVE EndOK(p)'
    <2>1. EndOK(p) /\ Peer(p) \in End
      BY BookFacts
    <2>2. SendingOK(tx'[p], nextSequence'[p])
      BY <1>2, <1>4, <2>1 DEF EndOK, Queues
    <2>3. nextSequence'[p] <= tx'[p].owner.last
      BY <1>4, <1>6, <2>1 DEF EndOK
    <2>4. \A m \in tx'[p].lane : m.sequence \in 1 .. queuedLane'[p]
      <3>1. CASE p = e
        BY <1>2, <3>1 DEF Queues
      <3>2. CASE p # e
        <4>1. queuedLane'[p] = queuedLane[p]
          BY <1>1, <3>2 DEF Types
        <4> QED BY <1>2, <2>1, <3>2, <4>1 DEF EndOK
      <3> QED BY <3>1, <3>2
    <2>5. loose'[p] \subseteq 1 .. queuedLoose'[p]
      BY <1>4, <2>1 DEF EndOK
    <2>6. rx'[p].window.newest < nextSequence'[Peer(p)]
      BY <1>4, <2>1 DEF EndOK
    <2>7. rx'[p].receiver \in Receivers(tx'[Peer(p)].sender.nextNew)
      BY <1>4, <1>6, <2>1 DEF EndOK
    <2> QED BY <2>2, <2>3, <2>4, <2>5, <2>6, <2>7 DEF EndOK
  <1>9. \A p \in End : EndOK(p)'
    BY <1>8
  <1>10. \A m \in net' : m \in net \/ PacketOK(m)'
    BY <1>4
  <1> QED BY <1>5, <1>7, <1>9, <1>10, BookKept

(* An unreliable message queued keeps the books.                             *)
LEMMA SendUnreliableBook ==
    ASSUME BookInv, NEW e \in End, SendUnreliable(e)
    PROVE  BookInv' /\ Counts
  <1>1. Types
    BY DEF BookInv
  <1>2. /\ queuedLoose' = [queuedLoose EXCEPT ![e] = @ + 1]
        /\ loose' = [loose EXCEPT ![e] = @ \cup {queuedLoose[e] + 1}]
        /\ UNCHANGED <<state, keyed, nextSequence, tx, rx, queuedLane, handed, net, losses>>
    BY DEF SendUnreliable
  <1>3. queuedLoose' \in [End -> Nat] /\ \A p \in End : queuedLoose'[p] >= queuedLoose[p]
    BY <1>1, <1>2 DEF Types
  <1>4. loose' \in [End -> SUBSET Nat]
    BY <1>1, <1>2 DEF Types
  <1>5. Types'
    BY <1>1, <1>2, <1>3, <1>4 DEF Types
  <1>6. Counts
    <2> SUFFICES ASSUME NEW p \in End
                 PROVE  /\ nextSequence'[p] >= nextSequence[p]
                        /\ tx'[p].sender.nextNew >= tx[p].sender.nextNew
                        /\ queuedLane'[p] >= queuedLane[p]
                        /\ queuedLoose'[p] >= queuedLoose[p]
      BY DEF Counts
    <2>1. /\ nextSequence[p] \in Nat /\ queuedLane[p] \in Nat
          /\ tx[p].sender.nextNew \in Nat
      BY BookFacts
    <2> QED BY <1>2, <1>3, <2>1
  <1>7. ASSUME NEW p \in End PROVE EndOK(p)'
    <2>1. EndOK(p) /\ queuedLoose[p] \in Nat
      BY BookFacts
    <2>2. loose'[p] \subseteq 1 .. queuedLoose'[p]
      <3>1. loose[p] \subseteq 1 .. queuedLoose[p]
        BY <2>1 DEF EndOK
      <3>2. CASE p = e
        <4>1. loose'[p] = loose[p] \cup {queuedLoose[p] + 1} /\ queuedLoose'[p] = queuedLoose[p] + 1
          BY <1>1, <1>2, <3>2 DEF Types
        <4> QED BY <2>1, <3>1, <4>1
      <3>3. CASE p # e
        BY <1>1, <1>2, <3>1, <3>3 DEF Types
      <3> QED BY <3>2, <3>3
    <2> QED BY <1>2, <2>1, <2>2 DEF EndOK
  <1>8. \A p \in End : EndOK(p)'
    BY <1>7
  <1>9. \A m \in net' : m \in net \/ PacketOK(m)'
    BY <1>2
  <1> QED BY <1>5, <1>6, <1>8, <1>9, BookKept

(* The other steps change at most whether an end is keyed or open, and lose  *)
(* datagrams.                                                                *)
Idles ==
    /\ UNCHANGED <<nextSequence, tx, rx, loose, queuedLoose, queuedLane, handed>>
    /\ net' \subseteq net
    /\ \A e \in End : state'[e] # "Failed" => state[e] # "Failed"

(* They keep the books.                                                      *)
LEMMA IdlesBook ==
    ASSUME BookInv, Idles,
           state' \in [End -> {"Connecting", "Connected", "TimedOut", "Failed"}],
           keyed' \in [End -> BOOLEAN]
    PROVE  BookInv' /\ Counts
  <1>1. Types
    BY DEF BookInv
  <1>2. /\ UNCHANGED <<nextSequence, tx, rx, loose, queuedLoose, queuedLane, handed>>
        /\ net' \subseteq net
    BY DEF Idles
  <1>3. Types'
    BY <1>1, <1>2 DEF Types
  <1>4. Counts
    <2>1. \A p \in End : /\ nextSequence[p] \in Nat /\ queuedLane[p] \in Nat
                         /\ queuedLoose[p] \in Nat /\ tx[p].sender.nextNew \in Nat
      BY BookFacts
    <2> QED BY <1>2, <2>1 DEF Counts
  <1>5. \A p \in End : EndOK(p)'
    BY <1>2 DEF BookInv, EndOK
  <1>6. \A m \in net' : m \in net \/ PacketOK(m)'
    BY <1>2
  <1> QED BY <1>3, <1>4, <1>5, <1>6, BookKept

OtherSteps ==
    /\ Idles
    /\ state' \in [End -> {"Connecting", "Connected", "TimedOut", "Failed"}]
    /\ keyed' \in [End -> BOOLEAN]

OwnerQueues ==
    \E e \in End : \E t :
        /\ Queues(e, t)
        /\ UNCHANGED queuedLane \/ queuedLane' = [queuedLane EXCEPT ![e] = @ + 1]

(* The steps of the channel, as the invariants tell them apart.              *)
LEMMA StepCases ==
    ASSUME BookInv, [Next]_vars
    PROVE  \/ \E e \in End : Poll(e)
           \/ \E d \in net : Receive(d)
           \/ OwnerQueues
           \/ \E e \in End : SendUnreliable(e)
           \/ OtherSteps
  <1>1. Types
    BY DEF BookInv
  <1>2. ASSUME NEW e \in End, SendReliable(e) PROVE OwnerQueues
    BY <1>2, SendReliableIs DEF OwnerQueues
  <1>3. ASSUME NEW e \in End, SendRedundant(e) PROVE OwnerQueues
    BY <1>3, SendRedundantIs DEF OwnerQueues
  <1>4. ASSUME NEW e \in End, SetKeys(e) PROVE OtherSteps
    <2>1. /\ keyed' = [keyed EXCEPT ![e] = TRUE]
          /\ UNCHANGED <<state, nextSequence, tx, rx, loose, queuedLoose, queuedLane, handed,
                         net, losses>>
      BY <1>4 DEF SetKeys
    <2> QED BY <1>1, <2>1 DEF OtherSteps, Idles, Types
  <1>5. ASSUME NEW e \in End, TimeOut(e) PROVE OtherSteps
    <2>1. /\ Open(e) /\ state' = [state EXCEPT ![e] = "TimedOut"]
          /\ UNCHANGED <<keyed, nextSequence, tx, rx, loose, queuedLoose, queuedLane, handed,
                         net, losses>>
      BY <1>5 DEF TimeOut
    <2>2. \A p \in End : state'[p] # "Failed" => state[p] # "Failed"
      BY <1>1, <2>1 DEF Open, Types
    <2> QED BY <1>1, <2>1, <2>2 DEF OtherSteps, Idles, Types
  <1>6. ASSUME NEW d \in net, Dropped(d) PROVE OtherSteps
    BY <1>1, <1>6 DEF Dropped, OtherSteps, Idles, Types
  <1>7. ASSUME NEW d \in net, Lose(d) PROVE OtherSteps
    BY <1>1, <1>7 DEF Lose, OtherSteps, Idles, Types
  <1>8. CASE UNCHANGED vars
    BY <1>1, <1>8 DEF vars, OtherSteps, Idles, Types
  <1> QED BY <1>2, <1>3, <1>4, <1>5, <1>6, <1>7, <1>8 DEF Next

(* Every step keeps the books.                                               *)
LEMMA BookStep ==
    ASSUME BookInv, [Next]_vars
    PROVE  BookInv' /\ Counts
  <1>1. CASE OwnerQueues
    BY <1>1, QueuesBook DEF OwnerQueues
  <1>2. CASE OtherSteps
    BY <1>2, IdlesBook DEF OtherSteps
  <1> QED BY <1>1, <1>2, StepCases, PollBook, ReceiveBook, SendUnreliableBook

(* The books are right in every state.                                       *)
LEMMA BookHolds == Spec => []BookInv
  <1>1. Init => BookInv
    BY BookInit
  <1>2. BookInv /\ [Next]_vars => BookInv'
    BY BookStep
  <1> QED BY <1>1, <1>2, PTL DEF Spec

(* Right books have the right types.                                         *)
LEMMA BookType == BookInv => TypeOK
  <1> SUFFICES ASSUME BookInv PROVE TypeOK
    OBVIOUS
  <1>1. Types
    BY DEF BookInv
  <1>2. ASSUME NEW e \in End
        PROVE  /\ nextSequence[e] \in 1 .. tx[e].owner.last
               /\ rx[e].window \in Window /\ rx[e].lane \in Window
               /\ rx[e].window.newest < nextSequence[Peer(e)]
               /\ tx[e].largestAcked < nextSequence[e]
               /\ tx[e].sender.nextNew <= tx[e].sender.end
               /\ tx[e].sender.nextNew <= PrefixEnd(tx[e].sender.acked) + MaxInFlight
               /\ rx[e].receiver.delivered <= tx[Peer(e)].sender.nextNew
    <2>1. EndOK(e)
      BY <1>2 DEF BookInv
    <2>2. nextSequence[e] \in 1 .. tx[e].owner.last
      BY <2>1, BookFacts DEF EndOK
    <2>3. rx[e].window \in Window /\ rx[e].lane \in Window
      BY <1>1 DEF Types, Receiving
    <2>4. tx[e].largestAcked < nextSequence[e] /\ SenderOK(tx[e].sender)
      BY <2>1 DEF EndOK, SendingOK
    <2>5. rx[e].window.newest < nextSequence[Peer(e)]
      BY <2>1 DEF EndOK
    <2>6. rx[e].receiver.delivered <= tx[Peer(e)].sender.nextNew
      <3>1. tx[Peer(e)].sender.nextNew \in Nat
        BY BookFacts
      <3>2. rx[e].receiver.delivered \in 0 .. tx[Peer(e)].sender.nextNew
        BY <2>1 DEF EndOK, Receivers
      <3> QED BY <3>1, <3>2
    <2> QED BY <2>2, <2>3, <2>4, <2>5, <2>6 DEF SenderOK
  <1> QED BY <1>1, <1>2 DEF TypeOK, Types

(* Type correctness: in particular no channel acks what was not sent to it, and *)
(* no more than MaxInFlight bytes are out past the acked prefix.             *)
THEOREM TypeCorrect == Spec => []TypeOK
  BY BookHolds, BookType, PTL

(* Nothing that was sent is forgotten.                                       *)
OwedInv == \A e \in End : state[e] # "Failed" => Owed(tx[e])

(* No step forgets a byte of a channel that has not failed.                  *)
LEMMA OwedStep ==
    ASSUME BookInv, [Next]_vars, OwedInv
    PROVE  OwedInv'
  <1>1. Types
    BY DEF BookInv
  <1> SUFFICES ASSUME NEW p \in End, state'[p] # "Failed" PROVE Owed(tx'[p])
    BY DEF OwedInv
  <1>2. state[p] # "Failed" => Owed(tx[p])
    BY DEF OwedInv
  <1>3. CASE OtherSteps
    BY <1>2, <1>3 DEF OtherSteps, Idles
  <1>4. CASE \E e \in End : SendUnreliable(e)
    BY <1>2, <1>4 DEF SendUnreliable
  <1>5. CASE OwnerQueues
    <2>0. PICK e \in End : \E t : Queues(e, t)
      BY <1>5 DEF OwnerQueues
    <2>1. PICK t : Queues(e, t)
      BY <2>0
    <2>2. Owed(tx[e]) => Owed(t)
      BY <2>1 DEF Queues, Owed
    <2>3. UNCHANGED state /\ tx' = [tx EXCEPT ![e] = t]
      BY <2>1 DEF Queues
    <2> QED BY <1>1, <1>2, <2>2, <2>3 DEF Types
  <1>6. CASE \E d \in net : Receive(d)
    <2>1. PICK d \in net : Receive(d)
      BY <1>6
    <2>2. PICK u : /\ Acknowledges(tx[d.to], u, d)
                   /\ state' = [state EXCEPT ![d.to] = "Connected"]
                   /\ state[d.to] # "Failed"
                   /\ tx' = [tx EXCEPT ![d.to] = u]
      BY <2>1, ReceiveCases
    <2>3. Owed(tx[d.to]) => Owed(u)
      BY <2>2 DEF Acknowledges
    <2> QED BY <1>1, <1>2, <2>2, <2>3 DEF Types
  <1>7. CASE \E e \in End : Poll(e)
    <2>1. PICK e \in End : Poll(e)
      BY <1>7
    <2>2. PICK u : /\ tx' = [tx EXCEPT ![e] = u]
                   /\ Quiet(e, u) \/ \E d \in Packet : Emits(e, u, d)
      BY <2>1, PollCases
    <2>3. CASE UNCHANGED state /\ (Owed(tx[e]) => Owed(u))
      BY <1>1, <1>2, <2>2, <2>3 DEF Types
    <2>4. CASE state' = [state EXCEPT ![e] = "Failed"]
      BY <1>1, <1>2, <2>2, <2>4 DEF Types
    <2> QED BY <2>2, <2>3, <2>4 DEF Quiet, Emits
  <1> QED BY <1>3, <1>4, <1>5, <1>6, <1>7, StepCases

(* A byte that was sent is acked, queued to go again, or carried by a datagram *)
(* that mSent keeps and that may still be acked or counted lost: DropSettled, *)
(* DetectLoss and ProcessAcks never lose the last trace of one.              *)
THEOREM NothingIsForgotten == Spec => []NothingForgotten
  <1>1. Init => OwedInv
    <2> SUFFICES ASSUME Init, NEW e \in End PROVE Owed(tx[e])
      BY DEF OwedInv
    <2>1. tx[e].sender = NewSender
      BY DEF Init
    <2> QED BY <2>1 DEF Owed, NewSender
  <1>2. BookInv /\ OwedInv /\ [Next]_vars => OwedInv'
    BY OwedStep
  <1>3. OwedInv => NothingForgotten
    BY DEF OwedInv, NothingForgotten, Owed
  <1> QED BY <1>1, <1>2, <1>3, BookHolds, PTL DEF Spec

(* What a step remembers as newly sent was owed.                             *)
THEOREM OnlyTheOwedIsSent == Spec => SendsOnlyWhatIsOwed
  <1> DEFINE Fresh == \A e \in End : \A p \in tx'[e].sent :
                         p.sequence = nextSequence[e] =>
                           /\ p.reliable \subseteq tx[e].sender.base .. tx[e].sender.end - 1
                           /\ p.reliable \cap tx[e].sender.acked = {}
  <1>1. BookInv /\ [Next]_vars => Fresh
    <2> SUFFICES ASSUME BookInv, [Next]_vars, NEW e \in End, NEW p \in tx'[e].sent,
                        p.sequence = nextSequence[e]
                 PROVE  /\ p.reliable \subseteq tx[e].sender.base .. tx[e].sender.end - 1
                        /\ p.reliable \cap tx[e].sender.acked = {}
      OBVIOUS
    <2>1. Types /\ EndOK(e) /\ nextSequence[e] \in Nat
      BY BookFacts DEF BookInv
    <2>2. \A q \in tx[e].sent : q.sequence # nextSequence[e]
      BY <2>1 DEF EndOK, SendingOK
    <2>3. ASSUME NEW c, NEW u, tx' = [tx EXCEPT ![c] = u],
                 e = c => Remembers(tx[e], u)
          PROVE  FALSE
      <3>1. tx'[e] = IF e = c THEN u ELSE tx[e]
        BY <2>1, <2>3 DEF Types
      <3> QED BY <2>2, <2>3, <3>1 DEF Remembers
    <2>4. tx' # tx
      BY <2>2
    <2>5. ~OtherSteps
      BY <2>4 DEF OtherSteps, Idles
    <2>6. ~(\E c \in End : SendUnreliable(c))
      BY <2>4 DEF SendUnreliable
    <2>7. ~OwnerQueues
      <3> SUFFICES ASSUME NEW c \in End, NEW t, Queues(c, t) PROVE FALSE
        BY DEF OwnerQueues
      <3>1. tx' = [tx EXCEPT ![c] = t] /\ Remembers(tx[c], t)
        BY DEF Queues, Remembers
      <3> QED BY <2>3, <3>1
    <2>8. ~(\E d \in net : Receive(d))
      <3> SUFFICES ASSUME NEW d \in net, Receive(d) PROVE FALSE
        OBVIOUS
      <3>1. PICK u : tx' = [tx EXCEPT ![d.to] = u] /\ Remembers(tx[d.to], u)
        BY ReceiveCases DEF Acknowledges
      <3> QED BY <2>3, <3>1
    <2>9. PICK c \in End : Poll(c)
      BY <2>5, <2>6, <2>7, <2>8, StepCases
    <2>10. PICK u : /\ tx' = [tx EXCEPT ![c] = u]
                    /\ Quiet(c, u) \/ \E d \in Packet : Emits(c, u, d)
      BY <2>9, PollCases
    <2>11. e = c /\ ~Remembers(tx[e], u)
      BY <2>3, <2>10
    <2>12. tx'[e] = u
      BY <2>1, <2>10, <2>11 DEF Types
    <2>13. PICK d \in Packet : Emits(e, u, d)
      BY <2>10, <2>11 DEF Quiet
    <2>14. RemembersNew(e, u, d)
      BY <2>13 DEF Emits
    <2> QED BY <2>2, <2>12, <2>14 DEF RemembersNew
  <1> QED BY <1>1, BookHolds, PTL DEF SendsOnlyWhatIsOwed, Spec

-----------------------------------------------------------------------------
(***************************************************************************)
(* Acked is held.                                                          *)
(***************************************************************************)

(* The receiver has room for all that may be in flight: the code's limits are*)
(* 256 KiB in flight and a receive window of 1 MiB (NetChannel.h).  Where it *)
(* has not, a fragment is dropped after its datagram was accepted and acked. *)
Roomy == MaxInFlight <= HoldLimit

HasAll(r, bytes) == \A o \in bytes : Has(r.receiver, o)

(* What end e counts as acked, and what a datagram its peer received         *)
(* carried, the peer has.                                                    *)
LinkHeld(e) ==
    /\ HasAll(rx[Peer(e)], tx[e].sender.acked)
    /\ \A p \in tx[e].sent :
         Received(rx[Peer(e)].window, p.sequence) => HasAll(rx[Peer(e)], p.reliable)

(* A datagram on its way carries what its sender remembers it for, and the   *)
(* receiver has room for it.                                                 *)
Carried(d) ==
    /\ \A p \in tx[Peer(d.to)].sent : p.sequence = d.sequence => Covers(d, p.reliable)
    /\ \A f \in d.fragments : f[2] <= rx[d.to].receiver.delivered + HoldLimit

(* What it acks, its sender has.                                             *)
AcksTrue(d) ==
    \A s \in d.acks :
        /\ s < nextSequence[d.to]
        /\ \A p \in tx[d.to].sent : p.sequence = s => HasAll(rx[Peer(d.to)], p.reliable)

HeldInv ==
    /\ \A e \in End : LinkHeld(e)
    /\ \A d \in net : Carried(d) /\ AcksTrue(d)

(* What a receiving half had it still has.                                   *)
LEMMA StillHas ==
    ASSUME NEW q, NEW r, Keeps(q, r), NEW bytes, bytes \subseteq Int, HasAll(q, bytes)
    PROVE  HasAll(r, bytes)
  BY DEF Keeps, HasAll

(* The types of what mSent keeps.                                            *)
LEMMA RememberedBytes ==
    ASSUME BookInv, NEW e \in End, NEW p \in tx[e].sent
    PROVE  p.sequence \in Nat /\ p.reliable \subseteq Int /\ p.sequence < nextSequence[e]
  <1>1. p \in Remembered
    BY BookFacts DEF Sending
  <1>2. p.sequence \in 1 .. nextSequence[e] - 1 /\ nextSequence[e] \in Nat
    BY BookFacts DEF EndOK, SendingOK
  <1> QED BY <1>1, <1>2 DEF Remembered

(* The acked prefix has been delivered.                                      *)
LEMMA PrefixDelivered ==
    ASSUME BookInv, NEW e \in End, LinkHeld(e)
    PROVE  PrefixEnd(tx[e].sender.acked) <= rx[Peer(e)].receiver.delivered
  <1> DEFINE r == rx[Peer(e)].receiver
             A == tx[e].sender.acked
             n == tx[e].sender.nextNew
  <1>1. /\ EndOK(e) /\ EndOK(Peer(e)) /\ Peer(Peer(e)) = e /\ n \in Nat
    BY BookFacts, Peers
  <1>2. A \subseteq 0 .. n - 1
    BY <1>1 DEF EndOK, SendingOK, SenderOK
  <1>3. PrefixEnd(A) \in 0 .. n /\ 0 .. PrefixEnd(A) - 1 \subseteq A
    BY <1>1, <1>2, AckedPrefix
  <1>4. r \in Receivers(n)
    BY <1>1 DEF EndOK
  <1>5. r.delivered \in Nat /\ r.delivered \notin r.held
    BY <1>1, <1>4 DEF Receivers, ReceiverOK
  <1>6. ~Has(r, r.delivered)
    BY <1>5 DEF Has
  <1>7. r.delivered \notin A
    BY <1>6 DEF LinkHeld, HasAll
  <1> HIDE DEF r, A, n
  <1>8. PrefixEnd(A) <= r.delivered
    BY <1>1, <1>3, <1>5, <1>7
  <1> QED BY <1>8 DEF r, A

(* A step that sends and receives nothing.                                   *)
LEMMA HeldSame ==
    ASSUME BookInv, HeldInv, UNCHANGED <<rx, nextSequence>>, net' \subseteq net,
           \A e \in End : /\ tx'[e].sent = tx[e].sent
                          /\ tx'[e].sender.acked = tx[e].sender.acked
    PROVE  HeldInv'
  <1>1. \A e \in End : LinkHeld(e)'
    BY DEF HeldInv, LinkHeld, HasAll
  <1>2. ASSUME NEW d \in net' PROVE Carried(d)' /\ AcksTrue(d)'
    <2>1. d \in net /\ d.to \in End /\ Peer(d.to) \in End
      BY Peers DEF BookInv, Types, Packet
    <2> QED BY <2>1 DEF HeldInv, Carried, AcksTrue, HasAll
  <1> QED BY <1>1, <1>2 DEF HeldInv

(* A datagram sent carries what it is remembered for, finds room, and acks   *)
(* only what its sender has.                                                 *)
LEMMA HeldPoll ==
    ASSUME Roomy, BookInv, BookInv', HeldInv, NEW e \in End, Poll(e)
    PROVE  HeldInv'
  <1>1. PICK u : /\ tx' = [tx EXCEPT ![e] = u] /\ Advanced(tx[e], u)
                 /\ Quiet(e, u) \/ \E d \in Packet : Emits(e, u, d)
    BY PollCases
  <1>2. Types /\ tx'[e] = u /\ \A p \in End : p # e => tx'[p] = tx[p]
    BY <1>1 DEF BookInv, Types
  <1>3. \A p \in End : tx'[p].sender.acked = tx[p].sender.acked
    BY <1>1, <1>2 DEF Advanced
  <1>4. Peer(e) \in End /\ Peer(e) # e /\ Peer(Peer(e)) = e
    BY Peers
  <1>5. \A p \in End : p = e \/ p = Peer(e)
    BY Peers
  <1>6. \A d \in net : d.to \in End /\ d \in Packet
    BY <1>2 DEF Types, Packet
  <1>7. CASE Quiet(e, u)
    <2>1. UNCHANGED <<rx, nextSequence, net>> /\ Remembers(tx[e], u)
      BY <1>7 DEF Quiet
    <2>2. ASSUME NEW p \in End, NEW q \in tx'[p].sent
          PROVE  \E k \in tx[p].sent : k.sequence = q.sequence /\ k.reliable = q.reliable
      BY <1>2, <2>1, <2>2 DEF Remembers
    <2>3. \A p \in End : LinkHeld(p)'
      BY <1>3, <2>1, <2>2 DEF HeldInv, LinkHeld, HasAll
    <2>4. ASSUME NEW d \in net PROVE Carried(d)' /\ AcksTrue(d)'
      <3>1. d.to \in End /\ Peer(d.to) \in End /\ Carried(d) /\ AcksTrue(d)
        BY <1>6, Peers DEF HeldInv
      <3>2. Carried(d)'
        BY <2>1, <2>2, <3>1 DEF Carried
      <3>3. AcksTrue(d)'
        BY <2>1, <2>2, <3>1 DEF AcksTrue, HasAll
      <3> QED BY <3>2, <3>3
    <2> QED BY <2>1, <2>3, <2>4 DEF HeldInv
  <1>8. ASSUME NEW n \in Packet, Emits(e, u, n) PROVE HeldInv'
    <2>1. /\ net' = net \cup {n} /\ Header(e, n) /\ Content(e, u, n) /\ RemembersNew(e, u, n)
          /\ nextSequence' = [nextSequence EXCEPT ![e] = @ + 1]
      BY <1>8 DEF Emits
    <2>2. \A p \in End : /\ rx'[p].window = rx[p].window
                         /\ rx'[p].receiver = rx[p].receiver
      <3>1. rx' = [rx EXCEPT ![e].ackPending = FALSE, ![e].reportFrom = 0]
        BY <1>8 DEF Emits
      <3> QED BY <1>2, <3>1 DEF Types, Receiving
    <2>3. /\ nextSequence'[e] = nextSequence[e] + 1
          /\ \A p \in End : p # e => nextSequence'[p] = nextSequence[p]
          /\ nextSequence[e] \in Nat
      BY <1>2, <2>1 DEF Types
    <2>4. n.to = Peer(e) /\ n.sequence = nextSequence[e] /\ n.acks = Reported(rx[e])
      BY <2>1 DEF Header
    <2>5. ASSUME NEW q \in tx'[e].sent
          PROVE  \/ \E k \in tx[e].sent : k.sequence = q.sequence /\ k.reliable = q.reliable
                 \/ q.sequence = nextSequence[e] /\ Covers(n, q.reliable)
      BY <1>2, <2>1 DEF RemembersNew
    <2>6. LinkHeld(e)'
      <3>1. HasAll(rx[Peer(e)], tx[e].sender.acked)'
        BY <1>3, <1>4, <2>2 DEF HeldInv, LinkHeld, HasAll
      <3>2. ASSUME NEW q \in tx'[e].sent, Received(rx'[Peer(e)].window, q.sequence)
            PROVE  HasAll(rx'[Peer(e)], q.reliable)
        <4>1. Received(rx[Peer(e)].window, q.sequence)
          BY <1>4, <2>2, <3>2
        <4>2. CASE \E k \in tx[e].sent : k.sequence = q.sequence /\ k.reliable = q.reliable
          BY <1>4, <2>2, <4>1, <4>2 DEF HeldInv, LinkHeld, HasAll
        <4>3. CASE q.sequence = nextSequence[e]
          <5>1. rx[Peer(e)].window.newest < nextSequence[e] /\ rx[Peer(e)].window.newest \in Nat
            BY <1>4, BookFacts DEF EndOK
          <5> QED BY <2>3, <4>1, <4>3, <5>1 DEF Received
        <4> QED BY <2>5, <4>2, <4>3
      <3> QED BY <3>1, <3>2 DEF LinkHeld
    <2>7. LinkHeld(Peer(e))'
      BY <1>2, <1>4, <2>2 DEF HeldInv, LinkHeld, HasAll
    <2>8. \A p \in End : LinkHeld(p)'
      BY <1>5, <2>6, <2>7
    <2>9. ASSUME NEW d \in net PROVE Carried(d)'
      <3>1. d.to \in End /\ Peer(d.to) \in End /\ Carried(d) /\ PacketOK(d)
        BY <1>6, Peers DEF HeldInv, BookInv
      <3>2. \A f \in d.fragments : f[2] <= rx'[d.to].receiver.delivered + HoldLimit
        BY <2>2, <3>1 DEF Carried
      <3>3. ASSUME NEW q \in tx'[Peer(d.to)].sent, q.sequence = d.sequence
            PROVE  Covers(d, q.reliable)
        <4>1. CASE Peer(d.to) # e
          BY <1>2, <3>1, <3>3, <4>1 DEF Carried
        <4>2. CASE Peer(d.to) = e
          <5>1. d.sequence \in 1 .. nextSequence[e] - 1
            BY <3>1, <4>2 DEF PacketOK
          <5>2. q.sequence # nextSequence[e]
            BY <2>3, <3>3, <5>1
          <5>3. PICK k \in tx[e].sent : k.sequence = q.sequence /\ k.reliable = q.reliable
            BY <2>5, <3>3, <4>2, <5>2
          <5> QED BY <3>1, <3>3, <4>2, <5>3 DEF Carried
        <4> QED BY <4>1, <4>2
      <3> QED BY <3>2, <3>3 DEF Carried
    <2>10. ASSUME NEW d \in net PROVE AcksTrue(d)'
      <3>1. d.to \in End /\ Peer(d.to) \in End /\ AcksTrue(d) /\ d.acks \subseteq Nat
        BY <1>6, Peers DEF HeldInv, Packet
      <3>2. ASSUME NEW s \in d.acks PROVE s < nextSequence'[d.to]
        <4>1. s < nextSequence[d.to] /\ s \in Nat /\ nextSequence[d.to] \in Nat
          BY <1>2, <3>1 DEF AcksTrue, Types
        <4> QED BY <1>5, <2>3, <3>1, <4>1
      <3>3. ASSUME NEW s \in d.acks, NEW q \in tx'[d.to].sent, q.sequence = s
            PROVE  HasAll(rx'[Peer(d.to)], q.reliable)
        <4>1. s < nextSequence[d.to] /\ s \in Nat /\ nextSequence[d.to] \in Nat
          BY <1>2, <3>1 DEF AcksTrue, Types
        <4>2. PICK k \in tx[d.to].sent : k.sequence = q.sequence /\ k.reliable = q.reliable
          <5>1. CASE d.to # e
            BY <1>2, <3>1, <5>1
          <5>2. CASE d.to = e
            BY <2>5, <3>3, <4>1, <5>2
          <5> QED BY <5>1, <5>2
        <4>3. HasAll(rx[Peer(d.to)], q.reliable)
          BY <3>1, <3>3, <4>2 DEF AcksTrue
        <4> QED BY <2>2, <3>1, <4>3 DEF HasAll
      <3> QED BY <3>2, <3>3 DEF AcksTrue
    <2>11. Carried(n)'
      <3>1. ASSUME NEW q \in tx'[e].sent, q.sequence = n.sequence PROVE Covers(n, q.reliable)
        <4>1. \A k \in tx[e].sent : k.sequence < nextSequence[e] /\ k.sequence \in Nat
          BY RememberedBytes
        <4> QED BY <2>3, <2>4, <2>5, <3>1, <4>1
      <3>2. ASSUME NEW f \in n.fragments PROVE f[2] <= rx'[Peer(e)].receiver.delivered + HoldLimit
        <4> DEFINE top == u.sender.nextNew
                   prefix == PrefixEnd(tx[e].sender.acked)
                   have == rx[Peer(e)].receiver.delivered
        <4>1. SenderOK(u.sender) /\ u.sender.acked = tx[e].sender.acked
          BY <1>1, <1>8 DEF Emits, SendingOK, Advanced
        <4>2. top <= prefix + MaxInFlight /\ top \in Nat
          BY <4>1 DEF SenderOK, Sender
        <4>3. prefix <= have
          BY PrefixDelivered DEF HeldInv
        <4>4. have \in Nat
          BY <1>4, BookFacts DEF Receiving
        <4>5. prefix \in Nat
          <5>1. tx[e].sender.nextNew \in Nat /\ SenderOK(tx[e].sender)
            BY BookFacts DEF EndOK, SendingOK
          <5>2. PrefixEnd(tx[e].sender.acked) \in 0 .. tx[e].sender.nextNew
            BY <5>1, AckedPrefix DEF SenderOK
          <5> QED BY <5>1, <5>2
        <4>6. f[2] \in 0 .. top
          BY <2>1, <3>2 DEF Content
        <4>7. rx'[Peer(e)].receiver.delivered = have
          BY <1>4, <2>2
        <4>8. MaxInFlight \in Nat /\ HoldLimit \in Nat /\ MaxInFlight <= HoldLimit
          BY StreamAssumption DEF Roomy
        <4> HIDE DEF top, prefix, have
        <4> QED BY <4>2, <4>3, <4>4, <4>5, <4>6, <4>7, <4>8
      <3> QED BY <1>4, <2>4, <3>1, <3>2 DEF Carried
    <2>12. AcksTrue(n)'
      <3> SUFFICES ASSUME NEW s \in n.acks
                   PROVE  /\ s < nextSequence'[Peer(e)]
                          /\ \A q \in tx'[Peer(e)].sent :
                               q.sequence = s => HasAll(rx'[e], q.reliable)
        BY <1>4, <2>4 DEF AcksTrue
      <3>1. Received(rx[e].window, s)
        BY <2>4, BookFacts, ReportedIsReceived
      <3>2. s < nextSequence[Peer(e)]
        <4>1. s \in 1 .. rx[e].window.newest
          BY <3>1 DEF Received
        <4>2. rx[e].window.newest < nextSequence[Peer(e)] /\ rx[e].window.newest \in Nat
              /\ nextSequence[Peer(e)] \in Nat
          BY <1>4, BookFacts DEF EndOK
        <4> QED BY <4>1, <4>2
      <3>3. \A q \in tx[Peer(e)].sent : q.sequence = s => HasAll(rx[e], q.reliable)
        BY <1>4, <3>1 DEF HeldInv, LinkHeld
      <3> QED BY <1>2, <1>4, <2>2, <2>3, <3>2, <3>3 DEF HasAll
    <2> QED BY <2>1, <2>8, <2>9, <2>10, <2>11, <2>12 DEF HeldInv
  <1> QED BY <1>1, <1>7, <1>8

(* A datagram received makes true what it acks, and what it is received for. *)
LEMMA HeldReceive ==
    ASSUME BookInv, HeldInv, NEW n \in net, Receive(n)
    PROVE  HeldInv'
  <1> DEFINE e == n.to
             c == Peer(e)
  <1>1. PICK u, r, h :
             /\ IsNew(rx[e].window, n.sequence)
             /\ Acknowledges(tx[e], u, n)
             /\ r \in Receiving
             /\ Takes(rx[e], r, n)
             /\ tx' = [tx EXCEPT ![e] = u]
             /\ rx' = [rx EXCEPT ![e] = r]
             /\ net' \subseteq net
             /\ UNCHANGED nextSequence
    BY ReceiveCases
  <1>2. Types /\ n \in Packet /\ e \in End /\ n.acks \subseteq Nat /\ n.sequence \in Nat
    BY DEF BookInv, Types, Packet
  <1>3. c \in End /\ c # e /\ Peer(c) = e /\ \A p \in End : p = e \/ p = c
    BY <1>2, Peers
  <1>4. Carried(n) /\ AcksTrue(n) /\ LinkHeld(e) /\ LinkHeld(c)
    BY <1>2, <1>3 DEF HeldInv
  <1>5. \A d \in net : d.to \in End
    BY <1>2 DEF Types, Packet
  <1>6. n.to = e
    OBVIOUS
  <1> HIDE DEF e, c
  <1>7. /\ tx'[e] = u /\ tx'[c] = tx[c] /\ rx'[e] = r /\ rx'[c] = rx[c]
    BY <1>1, <1>2, <1>3 DEF Types
  <1>8. Keeps(rx[e], r) /\ Keeps(rx[c], rx'[c])
    BY <1>1, <1>7 DEF Takes, Keeps
  <1>9. Peer(e) = c
    BY DEF c
  <1>10. \A p \in End : \A q \in tx'[p].sent :
            \E k \in tx[p].sent : k.sequence = q.sequence /\ k.reliable = q.reliable
    BY <1>1, <1>3, <1>7 DEF Acknowledges, Remembers
  <1>11. \A p \in End : Keeps(rx[p], rx'[p])
    BY <1>3, <1>7, <1>8
  <1>12. \A p \in End : \A k \in tx[p].sent : k.reliable \subseteq Int /\ k.sequence \in Nat
    BY RememberedBytes
  <1>13. \A p \in End : tx[p].sender.acked \subseteq Int
    BY BookFacts DEF Sending, Sender
  <1>14. LinkHeld(e)'
    <2>1. HasAll(rx[c], tx[e].sender.acked)
      BY <1>4, <1>9 DEF LinkHeld
    <2>2. ASSUME NEW o \in u.sender.acked PROVE Has(rx[c].receiver, o)
      <3>1. CASE o \in tx[e].sender.acked
        BY <2>1, <3>1 DEF HasAll
      <3>2. CASE o \notin tx[e].sender.acked
        <4>1. PICK p \in tx[e].sent : p.sequence \in n.acks /\ o \in p.reliable
          BY <1>1, <2>2, <3>2 DEF Acknowledges
        <4>2. HasAll(rx[c], p.reliable)
          BY <1>4, <1>6, <1>9, <4>1 DEF AcksTrue
        <4> QED BY <4>1, <4>2 DEF HasAll
      <3> QED BY <3>1, <3>2
    <2>3. ASSUME NEW q \in tx'[e].sent, Received(rx'[c].window, q.sequence)
          PROVE  HasAll(rx'[c], q.reliable)
      <3>1. PICK k \in tx[e].sent : k.sequence = q.sequence /\ k.reliable = q.reliable
        BY <1>2, <1>10
      <3> QED BY <1>4, <1>7, <1>9, <2>3, <3>1 DEF LinkHeld
    <2> QED BY <1>7, <1>9, <2>2, <2>3 DEF LinkHeld, HasAll
  <1>15. LinkHeld(c)'
    <2>1. HasAll(r, tx[c].sender.acked)
      <3>1. HasAll(rx[e], tx[c].sender.acked)
        BY <1>3, <1>4 DEF LinkHeld
      <3> QED BY <1>3, <1>8, <1>13, <3>1, StillHas
    <2>2. ASSUME NEW k \in tx[c].sent, Received(r.window, k.sequence)
          PROVE  HasAll(r, k.reliable)
      <3>1. r.window = Accept(rx[e].window, n.sequence) /\ rx[e].window \in Window
        BY <1>1, <1>2, BookFacts DEF Takes
      <3>2. k.sequence = n.sequence \/ Received(rx[e].window, k.sequence)
        <4>1. k.sequence \in Nat
          BY <1>3, <1>12
        <4> QED BY <1>1, <1>2, <2>2, <3>1, <4>1, ReceivedBefore
      <3>3. CASE Received(rx[e].window, k.sequence)
        <4>1. HasAll(rx[e], k.reliable)
          BY <1>3, <1>4, <3>3 DEF LinkHeld
        <4> QED BY <1>3, <1>8, <1>12, <4>1, StillHas
      <3>4. CASE k.sequence = n.sequence
        <4>1. Covers(n, k.reliable)
          BY <1>4, <1>6, <1>9, <3>4 DEF Carried
        <4>2. \A f \in n.fragments : f[2] <= rx[e].receiver.delivered + HoldLimit
          BY <1>4, <1>6 DEF Carried
        <4>3. \A o \in Int : \A f \in n.fragments :
                 f[1] <= o /\ o < f[2] => Has(r.receiver, o)
          BY <1>1, <4>2 DEF Takes
        <4> QED BY <1>3, <1>12, <4>1, <4>3 DEF Covers, HasAll
      <3> QED BY <3>2, <3>3, <3>4
    <2> QED BY <1>3, <1>7, <2>1, <2>2 DEF LinkHeld
  <1>16. \A p \in End : LinkHeld(p)'
    BY <1>3, <1>14, <1>15
  <1>17. ASSUME NEW d \in net PROVE Carried(d)'
    <2>1. d.to \in End /\ Peer(d.to) \in End /\ Carried(d) /\ d \in Packet
      BY <1>2, <1>5, Peers DEF HeldInv, Types
    <2>2. ASSUME NEW f \in d.fragments PROVE f[2] <= rx'[d.to].receiver.delivered + HoldLimit
      <3> DEFINE a == rx[d.to].receiver.delivered
                 b == rx'[d.to].receiver.delivered
      <3>1. f[2] <= a + HoldLimit /\ f[2] \in Nat
        BY <2>1 DEF Carried, Packet
      <3>2. a \in Nat /\ b \in Nat /\ HoldLimit \in Nat
        BY <1>1, <1>2, <1>3, <1>7, <2>1, StreamAssumption DEF Types, Receiving
      <3>3. a <= b
        BY <1>1, <1>3, <1>7, <2>1, <3>2 DEF Takes
      <3> HIDE DEF a, b
      <3>4. f[2] <= b + HoldLimit
        BY <3>1, <3>2, <3>3
      <3> QED BY <3>4 DEF b
    <2>3. \A q \in tx'[Peer(d.to)].sent : q.sequence = d.sequence => Covers(d, q.reliable)
      BY <1>10, <2>1 DEF Carried
    <2> QED BY <2>2, <2>3 DEF Carried
  <1>18. ASSUME NEW d \in net PROVE AcksTrue(d)'
    <2>1. d.to \in End /\ Peer(d.to) \in End /\ AcksTrue(d)
      BY <1>5, Peers DEF HeldInv
    <2>2. ASSUME NEW s \in d.acks, NEW q \in tx'[d.to].sent, q.sequence = s
          PROVE  HasAll(rx'[Peer(d.to)], q.reliable)
      <3>1. PICK k \in tx[d.to].sent : k.sequence = q.sequence /\ k.reliable = q.reliable
        BY <1>10, <2>1
      <3>2. HasAll(rx[Peer(d.to)], q.reliable)
        BY <2>1, <2>2, <3>1 DEF AcksTrue
      <3>3. q.reliable \subseteq Int
        BY <1>12, <2>1, <3>1
      <3> QED BY <1>11, <2>1, <3>2, <3>3, StillHas
    <2>3. \A s \in d.acks : s < nextSequence'[d.to]
      BY <1>1, <2>1 DEF AcksTrue
    <2> QED BY <2>2, <2>3 DEF AcksTrue
  <1> QED BY <1>1, <1>16, <1>17, <1>18 DEF HeldInv

(* Every step keeps what is acked held.                                      *)
LEMMA HeldStep ==
    ASSUME Roomy, BookInv, BookInv', HeldInv, [Next]_vars
    PROVE  HeldInv'
  <1>1. Types
    BY DEF BookInv
  <1>2. CASE OtherSteps
    BY <1>2, HeldSame DEF OtherSteps, Idles
  <1>3. CASE \E e \in End : SendUnreliable(e)
    <2>1. UNCHANGED <<tx, rx, nextSequence, net>>
      BY <1>3 DEF SendUnreliable
    <2> QED BY <2>1, HeldSame
  <1>4. CASE OwnerQueues
    <2>0. PICK e \in End : \E t : Queues(e, t)
      BY <1>4 DEF OwnerQueues
    <2>1. PICK t : Queues(e, t)
      BY <2>0
    <2>2. UNCHANGED <<rx, nextSequence, net>>
      BY <2>1 DEF Queues
    <2>3. \A p \in End : /\ tx'[p].sent = tx[p].sent
                         /\ tx'[p].sender.acked = tx[p].sender.acked
      BY <1>1, <2>1 DEF Queues, Types
    <2> QED BY <2>2, <2>3, HeldSame
  <1> QED BY <1>2, <1>3, <1>4, StepCases, HeldPoll, HeldReceive

(* What the sender counts as acked the receiver has, when the receiver has   *)
(* room for all that may be in flight.                                       *)
THEOREM AckedBytesAreHeld == Roomy /\ Spec => []AckedIsHeld
  <1>1. Init => HeldInv
    <2> SUFFICES ASSUME Init PROVE HeldInv
      OBVIOUS
    <2>1. \A e \in End : tx[e].sender.acked = {} /\ tx[e].sent = {}
      BY DEF Init, NewSender
    <2>2. net = {}
      BY DEF Init
    <2> QED BY <2>1, <2>2 DEF HeldInv, LinkHeld, HasAll
  <1>2. Roomy /\ BookInv /\ BookInv' /\ HeldInv /\ [Next]_vars => HeldInv'
    BY HeldStep
  <1>3. HeldInv => AckedIsHeld
    BY DEF HeldInv, LinkHeld, HasAll, AckedIsHeld
  <1>4. CASE Roomy
    <2>1. BookInv /\ BookInv' /\ HeldInv /\ [Next]_vars => HeldInv'
      BY <1>2, <1>4
    <2> QED BY <1>1, <1>3, <2>1, BookHolds, PTL DEF Spec
  <1> QED BY <1>4

-----------------------------------------------------------------------------
(***************************************************************************)
(* Handed out at most once.                                                *)
(***************************************************************************)

(* A message that end e has been handed.                                     *)
Out(e, x) == \E i \in DOMAIN handed[e] : handed[e][i] = x

(* A redundant message handed out is known to the lane; an unreliable one    *)
(* has left its sender, and every datagram that carries it is known to the   *)
(* window: copies of one message travel under one sequence.                  *)
LaneKnows(e) == \A s \in Nat : Out(e, <<"lane", s>>) => ~IsNew(rx[e].lane, s)

LooseHasLeft(e) ==
    \A m \in Nat : Out(e, <<"loose", m>>) => m <= queuedLoose[Peer(e)] /\ m \notin loose[Peer(e)]

WindowKnows(d) ==
    \A m \in d.loose :
        /\ m \notin loose[Peer(d.to)]
        /\ Out(d.to, <<"loose", m>>) => ~IsNew(rx[d.to].window, d.sequence)

OneSequence ==
    \A c, d \in net : \A m \in c.loose \cap d.loose :
        c.to = d.to => c.sequence = d.sequence

OnceInv ==
    /\ HandedAtMostOnce
    /\ \A e \in End : LaneKnows(e) /\ LooseHasLeft(e)
    /\ \A d \in net : WindowKnows(d)
    /\ OneSequence

(* An element of a sequence with another behind it is an element of one.     *)
LEMMA Appended ==
    ASSUME NEW a \in Seq(Message), NEW h \in Seq(Message), NEW i \in DOMAIN (a \o h)
    PROVE  \/ i \in DOMAIN a /\ (a \o h)[i] = a[i]
           \/ i - Len(a) \in DOMAIN h /\ (a \o h)[i] = h[i - Len(a)]
  <1>1. i \in 1 .. Len(a) + Len(h) /\ Len(a) \in Nat /\ Len(h) \in Nat
    OBVIOUS
  <1>2. CASE i <= Len(a)
    BY <1>1, <1>2
  <1>3. CASE i > Len(a)
    BY <1>1, <1>3
  <1> QED BY <1>1, <1>2, <1>3

(* A step that hands out nothing and moves no unreliable message.            *)
LEMMA OnceSame ==
    ASSUME BookInv, OnceInv, UNCHANGED <<rx, loose, queuedLoose, handed>>, net' \subseteq net
    PROVE  OnceInv'
  <1>1. HandedAtMostOnce' /\ OneSequence'
    BY DEF OnceInv, HandedAtMostOnce, OneSequence
  <1>2. \A e \in End : LaneKnows(e)' /\ LooseHasLeft(e)'
    BY DEF OnceInv, LaneKnows, LooseHasLeft, Out
  <1>3. \A d \in net' : WindowKnows(d)'
    BY DEF OnceInv, WindowKnows, Out
  <1> QED BY <1>1, <1>2, <1>3 DEF OnceInv

(* A message queued is one that nobody has been handed or sent.              *)
LEMMA OnceQueued ==
    ASSUME BookInv, OnceInv, NEW e \in End, SendUnreliable(e)
    PROVE  OnceInv'
  <1>1. Types
    BY DEF BookInv
  <1>2. /\ queuedLoose' = [queuedLoose EXCEPT ![e] = @ + 1]
        /\ loose' = [loose EXCEPT ![e] = @ \cup {queuedLoose[e] + 1}]
        /\ UNCHANGED <<rx, handed, net>>
    BY DEF SendUnreliable
  <1>3. /\ queuedLoose'[e] = queuedLoose[e] + 1 /\ queuedLoose[e] \in Nat
        /\ \A p \in End : p # e => queuedLoose'[p] = queuedLoose[p]
        /\ loose'[e] = loose[e] \cup {queuedLoose[e] + 1}
        /\ \A p \in End : p # e => loose'[p] = loose[p]
    BY <1>1, <1>2 DEF Types
  <1>4. HandedAtMostOnce' /\ OneSequence' /\ \A p \in End : LaneKnows(p)'
    BY <1>2 DEF OnceInv, HandedAtMostOnce, OneSequence, LaneKnows, Out
  <1>5. ASSUME NEW p \in End PROVE LooseHasLeft(p)'
    <2> SUFFICES ASSUME NEW m \in Nat, Out(p, <<"loose", m>>)'
                 PROVE  m <= queuedLoose'[Peer(p)] /\ m \notin loose'[Peer(p)]
      BY DEF LooseHasLeft
    <2>1. Peer(p) \in End /\ m <= queuedLoose[Peer(p)] /\ m \notin loose[Peer(p)]
      BY <1>2, Peers DEF OnceInv, LooseHasLeft, Out
    <2>2. CASE Peer(p) = e
      BY <1>3, <2>1, <2>2
    <2>3. CASE Peer(p) # e
      BY <1>3, <2>1, <2>3
    <2> QED BY <2>2, <2>3
  <1>6. ASSUME NEW d \in net PROVE WindowKnows(d)'
    <2>1. /\ WindowKnows(d) /\ Peer(d.to) \in End
          /\ d.loose \subseteq 1 .. queuedLoose[Peer(d.to)]
      BY <1>1, Peers DEF OnceInv, BookInv, PacketOK, Types, Packet
    <2>2. ASSUME NEW m \in d.loose PROVE m \notin loose'[Peer(d.to)]
      <3>1. m \in 1 .. queuedLoose[Peer(d.to)] /\ m \notin loose[Peer(d.to)]
        BY <2>1 DEF WindowKnows
      <3>2. CASE Peer(d.to) = e
        <4>1. m # queuedLoose[e] + 1
          BY <1>3, <3>1, <3>2
        <4> QED BY <1>3, <3>1, <3>2, <4>1
      <3>3. CASE Peer(d.to) # e
        BY <1>3, <2>1, <3>1, <3>3
      <3> QED BY <3>2, <3>3
    <2> QED BY <1>2, <2>1, <2>2 DEF WindowKnows, Out
  <1> QED BY <1>2, <1>4, <1>5, <1>6 DEF OnceInv

(* A datagram takes each unreliable message away from its sender.            *)
LEMMA OncePoll ==
    ASSUME BookInv, OnceInv, NEW e \in End, Poll(e)
    PROVE  OnceInv'
  <1>1. PICK u : Quiet(e, u) \/ \E d \in Packet : Emits(e, u, d)
    BY PollCases
  <1>2. UNCHANGED <<queuedLoose, handed>>
    BY PollCases
  <1>3. Types /\ Peer(e) \in End /\ Peer(Peer(e)) = e
    BY Peers DEF BookInv
  <1>4. \A p \in End : /\ rx'[p].window = rx[p].window
                       /\ rx'[p].lane = rx[p].lane
    <2>1. CASE rx' = rx
      BY <2>1
    <2>2. CASE rx' = [rx EXCEPT ![e].ackPending = FALSE, ![e].reportFrom = 0]
      BY <1>3, <2>2 DEF Types, Receiving
    <2> QED BY <1>1, <2>1, <2>2 DEF Quiet, Emits
  <1>5. \A p \in End : loose'[p] \subseteq loose[p]
    <2>1. loose' = loose \/ (\E X : loose' = [loose EXCEPT ![e] = @ \ X])
          \/ loose' = [loose EXCEPT ![e] = {}]
      BY <1>1 DEF Quiet, Emits
    <2> QED BY <1>3, <2>1 DEF Types
  <1>6. HandedAtMostOnce' /\ \A p \in End : LaneKnows(p)'
    BY <1>2, <1>4 DEF OnceInv, HandedAtMostOnce, LaneKnows, Out
  <1>7. \A p \in End : LooseHasLeft(p)'
    BY <1>2, <1>5, Peers DEF OnceInv, LooseHasLeft, Out
  <1>8. \A d \in net : d.to \in End /\ Peer(d.to) \in End /\ d \in Packet
    BY <1>3, Peers DEF Types, Packet
  <1>9. \A d \in net : WindowKnows(d)'
    BY <1>2, <1>4, <1>5, <1>8 DEF OnceInv, WindowKnows, Out
  <1>10. CASE Quiet(e, u)
    <2>1. net' = net
      BY <1>10 DEF Quiet
    <2>2. OneSequence'
      BY <2>1 DEF OnceInv, OneSequence
    <2> QED BY <1>6, <1>7, <1>9, <2>1, <2>2 DEF OnceInv
  <1>11. ASSUME NEW n \in Packet, Emits(e, u, n) PROVE OnceInv'
    <2>1. /\ net' = net \cup {n} /\ n.to = Peer(e) /\ n.loose \subseteq loose[e]
          /\ loose' = [loose EXCEPT ![e] = @ \ n.loose]
      BY <1>11 DEF Emits, Header, Content
    <2>2. \A d \in net : d.to = n.to => d.loose \cap n.loose = {}
      BY <1>3, <2>1 DEF OnceInv, WindowKnows
    <2>3. OneSequence'
      <3> SUFFICES ASSUME NEW c \in net', NEW d \in net', NEW m \in c.loose \cap d.loose,
                          c.to = d.to
                   PROVE  c.sequence = d.sequence
        BY DEF OneSequence
      <3> QED BY <2>1, <2>2 DEF OnceInv, OneSequence
    <2>4. WindowKnows(n)'
      <3>1. \A m \in n.loose : m \notin loose'[e]
        BY <1>3, <2>1 DEF Types
      <3>2. ASSUME NEW m \in n.loose PROVE ~Out(Peer(e), <<"loose", m>>)'
        <4>1. m \in loose[e] /\ m \in Nat
          BY <1>3, <2>1 DEF Types
        <4>2. ~Out(Peer(e), <<"loose", m>>)
          BY <1>3, <4>1 DEF OnceInv, LooseHasLeft
        <4> QED BY <1>2, <4>2 DEF Out
      <3> QED BY <1>3, <2>1, <3>1, <3>2 DEF WindowKnows
    <2> QED BY <1>6, <1>7, <1>9, <2>1, <2>3, <2>4 DEF OnceInv
  <1> QED BY <1>1, <1>10, <1>11

(* A datagram hands out only what was not handed out, and makes it known.    *)
LEMMA OnceReceived ==
    ASSUME BookInv, OnceInv, NEW n \in net, Receive(n)
    PROVE  OnceInv'
  <1> DEFINE e == n.to
  <1>1. PICK r, h :
             /\ IsNew(rx[e].window, n.sequence)
             /\ Takes(rx[e], r, n)
             /\ HandsOut(rx[e], h, n)
             /\ rx' = [rx EXCEPT ![e] = r]
             /\ handed' = [handed EXCEPT ![e] = @ \o h]
             /\ net' \subseteq net
             /\ UNCHANGED <<loose, queuedLoose>>
    BY ReceiveCases
  <1>2. /\ Types /\ n \in Packet /\ e \in End /\ n.sequence \in Nat /\ Peer(e) \in End
        /\ PacketOK(n) /\ rx[e].window \in Window
    BY BookFacts DEF BookInv, Types, Packet
  <1>3. n.to = e
    OBVIOUS
  <1> HIDE DEF e
  <1> DEFINE old == handed[e]
             new == old \o h
  <1>4. old \in Seq(Message) /\ h \in Seq(Message)
    BY <1>1, <1>2 DEF Types, HandsOut
  <1>5. /\ handed'[e] = new /\ \A p \in End : p # e => handed'[p] = handed[p]
    BY <1>1, <1>2 DEF Types
  <1>6. /\ rx'[e] = r /\ \A p \in End : p # e => rx'[p] = rx[p]
    BY <1>1, <1>2 DEF Types
  <1> HIDE DEF new
  <1>7. ASSUME NEW i \in DOMAIN new
        PROVE  \/ i \in DOMAIN old /\ new[i] = old[i]
               \/ i - Len(old) \in DOMAIN h /\ new[i] = h[i - Len(old)]
    BY <1>4, Appended DEF new
  <1>8. \A i \in DOMAIN new : i \in Int
    BY <1>4 DEF new
  <1>9. Len(old) \in Nat
    BY <1>4
  <1> HIDE DEF old
  <1>10. n.lane \subseteq Nat /\ n.loose \subseteq Nat
    BY <1>2 DEF Packet
  <1>11. ASSUME NEW i \in DOMAIN h
         PROVE  ~Out(e, h[i])
    <2>1. CASE \E s \in n.lane : IsNew(rx[e].lane, s) /\ h[i] = <<"lane", s>>
      BY <1>2, <1>10, <2>1 DEF OnceInv, LaneKnows
    <2>2. CASE \E m \in n.loose : h[i] = <<"loose", m>>
      BY <1>1, <1>3, <2>2 DEF OnceInv, WindowKnows
    <2> QED BY <1>1, <2>1, <2>2 DEF HandsOut
  <1>12. \A i \in DOMAIN old, j \in DOMAIN h : old[i] # h[j]
    BY <1>11 DEF Out, old
  <1>13. ASSUME NEW i \in DOMAIN new, NEW j \in DOMAIN new, new[i] = new[j]
         PROVE  i = j
    <2>1. \A a, b \in DOMAIN h : h[a] = h[b] => a = b
      BY <1>1 DEF HandsOut
    <2>2. \A a, b \in DOMAIN old : old[a] = old[b] => a = b
      BY <1>2 DEF OnceInv, HandedAtMostOnce, old
    <2>3. i \in Int /\ j \in Int
      BY <1>8, <1>13
    <2>4. CASE i \in DOMAIN old /\ new[i] = old[i]
      BY <1>7, <1>12, <1>13, <2>2, <2>4
    <2>5. CASE i - Len(old) \in DOMAIN h /\ new[i] = h[i - Len(old)]
      <3>1. CASE j \in DOMAIN old /\ new[j] = old[j]
        BY <1>12, <1>13, <2>5, <3>1
      <3>2. CASE j - Len(old) \in DOMAIN h /\ new[j] = h[j - Len(old)]
        <4>1. i - Len(old) = j - Len(old)
          BY <1>13, <2>1, <2>5, <3>2
        <4> QED BY <1>9, <2>3, <4>1
      <3> QED BY <1>7, <3>1, <3>2
    <2> QED BY <1>7, <2>4, <2>5
  <1>14. HandedAtMostOnce'
    <2> SUFFICES ASSUME NEW p \in End, NEW i \in DOMAIN handed'[p], NEW j \in DOMAIN handed'[p],
                        handed'[p][i] = handed'[p][j]
                 PROVE  i = j
      BY DEF HandedAtMostOnce
    <2>1. CASE p = e
      BY <1>5, <1>13, <2>1
    <2>2. CASE p # e
      BY <1>5, <2>2 DEF OnceInv, HandedAtMostOnce
    <2> QED BY <2>1, <2>2
  <1>15. ASSUME NEW p \in End, NEW x, Out(p, x)'
         PROVE  \/ Out(p, x)
                \/ p = e /\ \E s \in n.lane : IsNew(rx[e].lane, s) /\ x = <<"lane", s>>
                \/ p = e /\ \E m \in n.loose : x = <<"loose", m>>
    <2>1. CASE p # e
      BY <1>5, <1>15, <2>1 DEF Out
    <2>2. CASE p = e
      <3>1. PICK i \in DOMAIN new : new[i] = x
        BY <1>5, <1>15, <2>2 DEF Out
      <3>2. CASE i \in DOMAIN old /\ new[i] = old[i]
        BY <2>2, <3>1, <3>2 DEF Out, old
      <3>3. CASE i - Len(old) \in DOMAIN h /\ new[i] = h[i - Len(old)]
        BY <1>1, <2>2, <3>1, <3>3 DEF HandsOut
      <3> QED BY <1>7, <3>2, <3>3
    <2> QED BY <2>1, <2>2
  <1>16. \A s \in Nat : IsNew(r.lane, s) => IsNew(rx[e].lane, s) /\ s \notin n.lane
    BY <1>1 DEF Takes
  <1>17. ASSUME NEW p \in End PROVE LaneKnows(p)'
    <2> SUFFICES ASSUME NEW s \in Nat, Out(p, <<"lane", s>>)'
                 PROVE  ~IsNew(rx'[p].lane, s)
      BY DEF LaneKnows
    <2>1. CASE Out(p, <<"lane", s>>)
      <3>1. ~IsNew(rx[p].lane, s)
        BY <2>1 DEF OnceInv, LaneKnows
      <3> QED BY <1>6, <1>16, <3>1
    <2>2. CASE p = e /\ s \in n.lane
      BY <1>6, <1>16, <2>2
    <2> QED BY <1>15, <2>1, <2>2
  <1>18. ASSUME NEW p \in End PROVE LooseHasLeft(p)'
    <2> SUFFICES ASSUME NEW m \in Nat, Out(p, <<"loose", m>>)'
                 PROVE  m <= queuedLoose[Peer(p)] /\ m \notin loose[Peer(p)]
      BY <1>1 DEF LooseHasLeft
    <2>1. CASE Out(p, <<"loose", m>>)
      BY <2>1 DEF OnceInv, LooseHasLeft
    <2>2. CASE p = e /\ m \in n.loose
      <3>1. m \notin loose[Peer(e)]
        BY <1>3, <2>2 DEF OnceInv, WindowKnows
      <3>2. m \in 1 .. queuedLoose[Peer(e)] /\ queuedLoose[Peer(e)] \in Nat
        BY <1>2, <1>3, <2>2 DEF PacketOK, Types
      <3> QED BY <2>2, <3>1, <3>2
    <2> QED BY <1>15, <2>1, <2>2
  <1>19. r.window = Accept(rx[e].window, n.sequence)
    BY <1>1 DEF Takes
  <1>20. ASSUME NEW d \in net PROVE WindowKnows(d)'
    <2>1. WindowKnows(d) /\ d.to \in End /\ d.sequence \in Nat
      BY <1>2 DEF OnceInv, Types, Packet
    <2> SUFFICES ASSUME NEW m \in d.loose, Out(d.to, <<"loose", m>>)'
                 PROVE  ~IsNew(rx'[d.to].window, d.sequence)
      BY <1>1, <2>1 DEF WindowKnows
    <2>2. CASE Out(d.to, <<"loose", m>>)
      <3>1. ~IsNew(rx[d.to].window, d.sequence)
        BY <2>1, <2>2 DEF WindowKnows
      <3> QED BY <1>2, <1>6, <1>19, <2>1, <3>1, NewBefore
    <2>3. CASE d.to = e /\ m \in n.loose
      <3>1. d.sequence = n.sequence
        BY <1>3, <2>3 DEF OnceInv, OneSequence
      <3> QED BY <1>2, <1>6, <1>19, <2>1, <2>3, <3>1, NewBefore
    <2> QED BY <1>15, <2>1, <2>2, <2>3
  <1>21. OneSequence'
    BY <1>1 DEF OnceInv, OneSequence
  <1> QED BY <1>1, <1>14, <1>17, <1>18, <1>20, <1>21 DEF OnceInv

(* Every step hands out no message twice.                                    *)
LEMMA OnceStep ==
    ASSUME BookInv, OnceInv, [Next]_vars
    PROVE  OnceInv'
  <1>1. CASE OtherSteps
    BY <1>1, OnceSame DEF OtherSteps, Idles
  <1>2. CASE OwnerQueues
    BY <1>2, OnceSame DEF OwnerQueues, Queues
  <1> QED BY <1>1, <1>2, StepCases, OncePoll, OnceReceived, OnceQueued

(* No message is handed out twice.                                           *)
THEOREM HandedOutOnce == Spec => []HandedAtMostOnce
  <1>1. Init => OnceInv
    <2> SUFFICES ASSUME Init PROVE OnceInv
      OBVIOUS
    <2>1. \A e \in End : handed[e] = <<>>
      BY DEF Init
    <2>2. \A e \in End : \A x : ~Out(e, x)
      BY <2>1 DEF Out
    <2>3. HandedAtMostOnce
      BY <2>1 DEF HandedAtMostOnce
    <2>4. net = {}
      BY DEF Init
    <2> QED BY <2>2, <2>3, <2>4 DEF OnceInv, LaneKnows, LooseHasLeft, OneSequence
  <1>2. BookInv /\ OnceInv /\ [Next]_vars => OnceInv'
    BY OnceStep
  <1>3. OnceInv => HandedAtMostOnce
    BY DEF OnceInv
  <1> QED BY <1>1, <1>2, <1>3, BookHolds, PTL DEF Spec

=============================================================================
