----------------------------- MODULE NetChannel -----------------------------
(***************************************************************************)
(* The net channel: two NetChannel objects joined by a network that loses, *)
(* repeats and reorders datagrams.                                         *)
(*                                                                         *)
(* A channel reads no clock: its owner gives it the time.  What the time   *)
(* decides (that a datagram is older than the retransmission timeout, or   *)
(* old enough behind an acked one, that an ack or a repeat is due) is a    *)
(* choice, but a consistent one: age grows from the newest datagram to the *)
(* oldest.  RTT estimation and statistics are left out.  A datagram has    *)
(* room for every unreliable and redundant message and Budget stream       *)
(* bytes, and the owner takes what is handed out before its queue is full. *)
(***************************************************************************)
EXTENDS ReceiveWindow, ReliableStream, SequencesExt

CONSTANTS
    End,            \* the two ends
    HeaderReach,    \* 33: sequences the header acks
    BlockSize,      \* 32: sequences a block of the ack chunk acks
    MaxAckBlocks,   \* kMaxAckBlocks
    LossThreshold,  \* lossThreshold: mStats.reorderThreshold at first
    MaxThreshold,   \* kMaxReorderThreshold
    MaxLane,        \* kMaxLaneMessages
    Redundancy,     \* redundancy: how often a redundant message is repeated
    Owners,         \* what the owners of the two channels may do: see Owner
    Timely,         \* whether the network delivers before the peer loses patience
    MaxLosses       \* bound: datagrams a timely network loses

(* Bounds of one end: reliable bytes, and unreliable and redundant messages, *)
(* that its owner queues; last stands for UINT32_MAX, which no datagram may  *)
(* bear; sequences up to keepalives may be keepalives; whether the owner     *)
(* turns on encryption, and whether it may give up on a silent peer.         *)
Owner == [bytes : Nat, messages : Nat, last : Nat \ {0}, keepalives : Nat,
          seals : BOOLEAN, impatient : BOOLEAN]

ASSUME ChannelAssumption ==
    /\ IsFiniteSet(End) /\ Cardinality(End) = 2
    /\ HeaderReach \in 1 .. WindowSize
    /\ BlockSize \in Nat \ {0} /\ MaxAckBlocks \in Nat
    /\ MaxThreshold \in Nat /\ LossThreshold \in 1 .. MaxThreshold
    /\ MaxLane \in Nat \ {0} /\ Redundancy \in Nat
    /\ Owners \subseteq [End -> Owner]
    /\ Timely \in BOOLEAN /\ MaxLosses \in Nat

Peer(e) == CHOOSE p \in End : p # e

VARIABLES
    state,        \* mState
    keyed,        \* mKeys is set
    nextSequence, \* mNextSequence
    tx,           \* the sending half: mSent, mLargestAcked, the allowance, mSender, mLaneOut;
                  \* and its owner, which never changes
    rx,           \* the receiving half: mWindow, mReportFrom, mAckPending, mReceiver, mLaneIn
    loose,        \* mUnreliableOut
    queuedLoose,  \* unreliable messages queued so far (their names)
    queuedLane,   \* mNextLaneSequence - 1
    handed,       \* unreliable and redundant messages handed out
    net,          \* datagrams on their way
    losses        \* datagrams lost so far, on a timely network

vars == <<state, keyed, nextSequence, tx, rx, loose, queuedLoose, queuedLane, handed,
          net, losses>>

Open(e) == state[e] \in {"Connecting", "Connected"}

Init ==
    /\ state = [e \in End |-> "Connecting"]
    /\ keyed = [e \in End |-> FALSE]
    /\ nextSequence = [e \in End |-> 1]
    /\ \E owners \in Owners :
         tx = [e \in End |-> [sent |-> {}, largestAcked |-> 0, threshold |-> LossThreshold,
                              sender |-> NewSender, lane |-> {}, owner |-> owners[e]]]
    /\ rx = [e \in End |-> [window |-> EmptyWindow, reportFrom |-> 0, ackPending |-> FALSE,
                            receiver |-> NewReceiver, lane |-> EmptyWindow]]
    /\ loose = [e \in End |-> {}]
    /\ queuedLoose = [e \in End |-> 0]
    /\ queuedLane = [e \in End |-> 0]
    /\ handed = [e \in End |-> <<>>]
    /\ net = {}
    /\ losses = 0

-----------------------------------------------------------------------------
(* The datagrams sent, mSent: resolved ones stay while the peer may still    *)
(* ack them.                                                                 *)
Sent(sequence, reliable, lane) ==
    [sequence |-> sequence, acked |-> FALSE, lost |-> FALSE, behind |-> 0,
     reliable |-> reliable, lane |-> lane]

(* DropSettled.  A lost datagram of age 4 RTO, up to expired, is given up.   *)
Settled(t, p, expired) ==
    \/ p.acked
    \/ p.lost /\ (t.largestAcked - p.sequence > HeaderReach + BlockSize * MaxAckBlocks
                  \/ p.sequence <= expired)

FaultyDropSettled(t, expired) ==
    [t EXCEPT !.sent = {p \in @ : \A q \in @ :
        q.sequence >= p.sequence => ~Settled(t, q, expired)}]

DropSettled(t, expired) ==
    [t EXCEPT !.sent = {p \in @ : \E q \in @ :
        q.sequence <= p.sequence /\ ~Settled(t, q, expired)}]

(* DetectLoss.  Up to aged, datagrams are older than the timeout; up to      *)
(* late, older than the reordering delay.                                    *)
BehindBy(t, p) == IF p.sequence < t.largestAcked THEN t.largestAcked - p.sequence ELSE 0

FaultyCountsAsLost(t, p, aged, late) ==
    /\ ~p.acked /\ ~p.lost
    /\ BehindBy(t, p) >= t.threshold \/ (BehindBy(t, p) > 0 /\ p.sequence <= late)

CountsAsLost(t, p, aged, late) ==
    /\ ~p.acked /\ ~p.lost
    /\ \/ BehindBy(t, p) >= t.threshold
       \/ BehindBy(t, p) > 0 /\ p.sequence <= late
       \/ p.sequence <= aged

MarkLost(t, p) ==
    [p EXCEPT !.lost = TRUE,
              !.behind = IF BehindBy(t, p) >= t.threshold THEN BehindBy(t, p) ELSE 0]

DetectLoss(t, aged, late, expired) ==
    LET gone == {p \in t.sent : CountsAsLost(t, p, aged, late)}
    IN  DropSettled([t EXCEPT
            !.sent = (@ \ gone) \cup {MarkLost(t, p) : p \in gone},
            !.sender = OnLost(@, UNION {p.reliable : p \in gone})], expired)

-----------------------------------------------------------------------------
(* The redundant lane, mLaneOut, in the order of its sequences: each message *)
(* rides on until one datagram carrying it is acked, or its repeats have run *)
(* out.                                                                      *)
LaneNew(lane) == \E m \in lane : ~m.sent

LaneRepeats(lane) == \E m \in lane : m.sent /\ m.repeats > 0

Carries(m) == ~m.sent \/ m.repeats > 0

LaneCarried(lane) == {m.sequence : m \in {n \in lane : Carries(n)}}

(* WriteLane: new messages, repeats of the others; the spent front goes.     *)
Written(m) ==
    CASE ~m.sent -> [m EXCEPT !.sent = TRUE]
      [] m.sent /\ m.repeats > 0 -> [m EXCEPT !.repeats = @ - 1]
      [] OTHER -> m

AfterWriteLane(lane) ==
    LET written == {Written(m) : m \in lane}
    IN  {m \in written : \E n \in written : n.sequence <= m.sequence /\ Carries(n)}

LaneAcked(lane, sequences) == {m \in lane : m.sequence \notin sequences}

-----------------------------------------------------------------------------
(* ProcessAcks: a datagram acked in time, or late and counted lost already,  *)
(* which raises the reordering allowance.                                    *)
Allowances(t, now) ==
    {t.threshold} \cup
    {Least(p.behind + 1, MaxThreshold) : p \in {q \in now : q.lost /\ q.behind # 0}}

ProcessAcks(t, d, expired) ==
    LET now == {p \in t.sent : ~p.acked /\ p.sequence \in d.acks}
    IN  IF d.ack = 0 THEN t
        ELSE DropSettled([t EXCEPT
                 !.sent = (@ \ now) \cup {[p EXCEPT !.acked = TRUE] : p \in now},
                 !.largestAcked = IF d.ack > @ THEN d.ack ELSE @,
                 !.threshold = Max(Allowances(t, now)),
                 !.sender = OnAcked(@, UNION {p.reliable : p \in now}),
                 !.lane = LaneAcked(@, UNION {p.lane : p \in now})], expired)

(* AckBits, and WriteAckChunk: below the header's reach, blocks with nothing *)
(* received are left out, and none below reportFrom's block is written.      *)
HeaderAcks(w) == {s \in w.newest - HeaderReach + 1 .. w.newest : Received(w, s)}

BlockTop(w, s) ==
    LET top == w.newest - HeaderReach IN top - BlockSize * ((top - s) \div BlockSize)

BlockAcks(r) ==
    LET below == {s \in 1 .. r.window.newest - HeaderReach :
                      Received(r.window, s) /\ BlockTop(r.window, s) >= r.reportFrom}
        tops == {BlockTop(r.window, s) : s \in below}
        written == {b \in tops : Cardinality({x \in tops : x > b}) < MaxAckBlocks}
    IN  IF r.reportFrom = 0 THEN {}
        ELSE {s \in below : BlockTop(r.window, s) \in written}

Reported(r) == HeaderAcks(r.window) \cup BlockAcks(r)

-----------------------------------------------------------------------------
(* The owner's calls.                                                        *)
SendReliable(e) ==
    /\ Open(e)
    /\ tx[e].sender.end < tx[e].owner.bytes
    /\ tx' = [tx EXCEPT ![e].sender = Queue(@, 1)]
    /\ UNCHANGED <<state, keyed, nextSequence, rx, loose, queuedLoose, queuedLane,
                   handed, net, losses>>

SendUnreliable(e) ==
    /\ Open(e)
    /\ queuedLoose[e] + queuedLane[e] < tx[e].owner.messages
    /\ queuedLoose' = [queuedLoose EXCEPT ![e] = @ + 1]
    /\ loose' = [loose EXCEPT ![e] = @ \cup {queuedLoose[e] + 1}]
    /\ UNCHANGED <<state, keyed, nextSequence, tx, rx, queuedLane, handed, net, losses>>

(* A full lane gives up its oldest message, if that one has gone out.        *)
SendRedundant(e) ==
    LET lane == tx[e].lane
        full == Cardinality(lane) >= MaxLane
        oldest == CHOOSE m \in lane : \A n \in lane : m.sequence <= n.sequence
        message == [sequence |-> queuedLane[e] + 1, repeats |-> Redundancy, sent |-> FALSE]
    IN  /\ Open(e)
        /\ queuedLoose[e] + queuedLane[e] < tx[e].owner.messages
        /\ full => oldest.sent
        /\ queuedLane' = [queuedLane EXCEPT ![e] = @ + 1]
        /\ tx' = [tx EXCEPT ![e].lane =
                     (IF full THEN lane \ {oldest} ELSE lane) \cup {message}]
        /\ UNCHANGED <<state, keyed, nextSequence, rx, loose, queuedLoose, handed, net, losses>>

SetKeys(e) ==
    /\ tx[e].owner.seals
    /\ ~keyed[e]
    /\ keyed' = [keyed EXCEPT ![e] = TRUE]
    /\ UNCHANGED <<state, nextSequence, tx, rx, loose, queuedLoose, queuedLane, handed,
                   net, losses>>

-----------------------------------------------------------------------------
(* Poll.                                                                     *)

(* Emit: t is the sending half once the payload is written.  An ack-only     *)
(* datagram is not itself acked and is not remembered.                       *)
Emit(e, t, ackOnly, fragments, reliable, lane, unreliable) ==
    IF nextSequence[e] = tx[e].owner.last
    THEN /\ state' = [state EXCEPT ![e] = "Failed"]
         /\ tx' = [tx EXCEPT ![e] = t]
         /\ UNCHANGED <<nextSequence, rx, net>>
    ELSE /\ net' = net \cup {[to |-> Peer(e), sequence |-> nextSequence[e],
                              ack |-> rx[e].window.newest, acks |-> Reported(rx[e]),
                              sealed |-> keyed[e], ackOnly |-> ackOnly,
                              fragments |-> fragments, lane |-> lane,
                              loose |-> unreliable]}
         /\ nextSequence' = [nextSequence EXCEPT ![e] = @ + 1]
         /\ rx' = [rx EXCEPT ![e].ackPending = FALSE, ![e].reportFrom = 0]
         /\ tx' = [tx EXCEPT ![e] =
              IF ackOnly THEN t
              ELSE [t EXCEPT !.sent = @ \cup {Sent(nextSequence[e], reliable, lane)}]]
         /\ UNCHANGED state

(* New data of any kind, the redundant lane's repeats riding along.          *)
SendData(e, t) ==
    /\ loose' = [loose EXCEPT ![e] = {}]
    /\ Emit(e, [t EXCEPT !.sender = AfterWrite(@), !.lane = AfterWriteLane(@)], FALSE,
            Fragments(t.sender), Resends(t.sender) \cup FirstSends(t.sender),
            LaneCarried(t.lane), loose[e])

SendNothingNew(e, t, ackOnly) ==
    /\ loose' = loose
    /\ Emit(e, t, ackOnly, {}, {}, {}, {})

SendNothing(e, t) ==
    /\ tx' = [tx EXCEPT ![e] = t]
    /\ UNCHANGED <<state, nextSequence, rx, loose, net>>

(* What the time decides.  On a timely network a timeout is longer than a    *)
(* round trip with the peer's ack delay.                                     *)
OnTheirWay == net # {} \/ \E p \in End : rx[p].ackPending

Upto(sequences) == IF Timely /\ OnTheirWay THEN {0} ELSE {0} \cup sequences

Aged(e) == Upto({p.sequence : p \in {q \in tx[e].sent : ~q.acked /\ ~q.lost}})

Expired(e) == Upto({p.sequence : p \in {q \in tx[e].sent : q.lost}})

(* The datagrams of one call are as many polls.                              *)
Poll(e) ==
    /\ Open(e)
    /\ \E aged, late \in Aged(e), expired \in Expired(e), repeatDue \in BOOLEAN :
         LET t == DetectLoss(tx[e], aged, late, expired)
             fresh == LaneNew(t.lane) \/ loose[e] # {} \/ HasPending(t.sender)
             repeat == repeatDue /\ LaneRepeats(t.lane)
         IN  /\ aged <= late
             /\ \/ (fresh \/ repeat) /\ SendData(e, t)
                \/ ~fresh /\ ~repeat /\ rx[e].ackPending /\ SendNothingNew(e, t, TRUE)
                \/ ~fresh /\ ~repeat /\ nextSequence[e] <= tx[e].owner.keepalives
                   /\ SendNothingNew(e, t, FALSE)
                \/ ~fresh /\ ~repeat /\ SendNothing(e, t)
    /\ UNCHANGED <<keyed, queuedLoose, queuedLane, handed, losses>>

TimeOut(e) ==
    /\ Open(e)
    /\ tx[e].owner.impatient
    /\ state' = [state EXCEPT ![e] = "TimedOut"]
    /\ UNCHANGED <<keyed, nextSequence, tx, rx, loose, queuedLoose, queuedLane, handed,
                   net, losses>>

-----------------------------------------------------------------------------
(* Receive.                                                                  *)
Malformed(e, d) == d.ack >= nextSequence[e]

Accepts(e, d) ==
    /\ Open(e)
    /\ d.sealed = keyed[e]
    /\ IsNew(rx[e].window, d.sequence)
    /\ ~Malformed(e, d)

(* The fragments of a datagram in the order of the stream.                   *)
TakeFragments(r, fragments) ==
    LET Taken[some \in SUBSET fragments] ==
            IF some = {} THEN r
            ELSE LET last == CHOOSE f \in some : \A g \in some : g[1] <= f[1]
                 IN  OnFragment(Taken[some \ {last}], last[1], last[2])
    IN  Taken[fragments]

NewLane(w, sequences) == {s \in sequences : IsNew(w, s)}

(* The new redundant messages of a datagram.  Their order in it does not     *)
(* matter as long as the lane spans less than the window.                    *)
AcceptLane(w, sequences) ==
    LET Accepted[some \in SUBSET NewLane(w, sequences)] ==
            IF some = {} THEN w
            ELSE Accept(Accepted[some \ {Max(some)}], Max(some))
    IN  Accepted[NewLane(w, sequences)]

AfterAccept(r, d) ==
    [r EXCEPT
        !.window = Accept(@, d.sequence),
        !.reportFrom = IF @ = 0 \/ d.sequence < @ THEN d.sequence ELSE @,
        !.ackPending = @ \/ ~d.ackOnly,
        !.receiver = TakeFragments(@, d.fragments),
        !.lane = AcceptLane(@, d.lane)]

(* What a datagram hands out, in some order.                                 *)
Handed(e, d) ==
    SetToSeq({<<"lane", s>> : s \in NewLane(rx[e].lane, d.lane)}
                 \cup {<<"loose", m>> : m \in d.loose})

Receive(d) ==
    LET e == d.to
    IN  /\ Accepts(e, d)
        /\ state' = [state EXCEPT ![e] = "Connected"]
        /\ \E expired \in Expired(e) :
             tx' = [tx EXCEPT ![e] = ProcessAcks(tx[e], d, expired)]
        /\ rx' = [rx EXCEPT ![e] = AfterAccept(rx[e], d)]
        /\ handed' = [handed EXCEPT ![e] = @ \o Handed(e, d)]
        /\ net' = IF Timely THEN net \ {d} ELSE net
        /\ UNCHANGED <<keyed, nextSequence, loose, queuedLoose, queuedLane, losses>>

(* A datagram dropped at its arrival changes nothing.  A network that is not *)
(* timely keeps every datagram, to deliver it never, late or repeatedly.     *)
Dropped(d) ==
    /\ Timely
    /\ ~Accepts(d.to, d)
    /\ net' = net \ {d}
    /\ UNCHANGED <<state, keyed, nextSequence, tx, rx, loose, queuedLoose, queuedLane,
                   handed, losses>>

Lose(d) ==
    /\ Timely
    /\ losses < MaxLosses
    /\ losses' = losses + 1
    /\ net' = net \ {d}
    /\ UNCHANGED <<state, keyed, nextSequence, tx, rx, loose, queuedLoose, queuedLane,
                   handed>>

-----------------------------------------------------------------------------
Next ==
    \/ \E e \in End :
          \/ SendReliable(e)
          \/ SendUnreliable(e)
          \/ SendRedundant(e)
          \/ SetKeys(e)
          \/ Poll(e)
          \/ TimeOut(e)
    \/ \E d \in net :
          \/ Receive(d)
          \/ Dropped(d)
          \/ Lose(d)

Spec == Init /\ [][Next]_vars

(* The owner polls and delivers what arrives, over a timely network; an      *)
(* owner that has keys to set sets them.                                     *)
Fairness ==
    /\ \A e \in End : WF_vars(Poll(e)) /\ WF_vars(SetKeys(e))
    /\ WF_vars(\E d \in net : Receive(d) \/ Dropped(d))

FairSpec == Spec /\ Fairness

-----------------------------------------------------------------------------
(* Type invariant; a channel never acks what has not been sent to it, and no *)
(* more than maxReliableInFlight bytes are out past the acked prefix, so     *)
(* that the receiver never has to drop one.                                  *)
TypeOK ==
    /\ state \in [End -> {"Connecting", "Connected", "TimedOut", "Failed"}]
    /\ keyed \in [End -> BOOLEAN]
    /\ \A e \in End :
         /\ nextSequence[e] \in 1 .. tx[e].owner.last
         /\ rx[e].window \in Window /\ rx[e].lane \in Window
         /\ rx[e].window.newest < nextSequence[Peer(e)]
         /\ tx[e].largestAcked < nextSequence[e]
         /\ tx[e].sender.nextNew <= tx[e].sender.end
         /\ tx[e].sender.nextNew <= PrefixEnd(tx[e].sender.acked) + MaxInFlight
         /\ rx[e].receiver.delivered <= tx[Peer(e)].sender.nextNew

(* A byte the sender counts as acked, and will never send again, is one the  *)
(* receiver has, whatever was lost, repeated, late or counted lost too soon. *)
AckedIsHeld ==
    \A e \in End : \A o \in tx[e].sender.acked : Has(rx[Peer(e)].receiver, o)

(* A byte that was sent and is not acked is queued to go again, or a         *)
(* datagram that may still be acked or counted lost carries it.              *)
NothingForgotten ==
    \A e \in End : state[e] # "Failed" =>
        \A o \in 0 .. tx[e].sender.nextNew - 1 :
            \/ o \in tx[e].sender.acked \cup tx[e].sender.lost
            \/ \E p \in tx[e].sent : ~p.acked /\ ~p.lost /\ o \in p.reliable

(* A datagram takes only bytes that are still in the buffer (Compact drops   *)
(* its front while datagrams that carried it may yet be counted lost), and   *)
(* never bytes already acked.                                                *)
SendsOnlyWhatIsOwed ==
    [][\A e \in End : \A p \in tx'[e].sent :
        p.sequence = nextSequence[e] =>
            /\ p.reliable \subseteq tx[e].sender.base .. tx[e].sender.end - 1
            /\ p.reliable \cap tx[e].sender.acked = {}]_vars

(* An unreliable or redundant message is handed out at most once, although   *)
(* the network and the lane both repeat it.                                  *)
HandedAtMostOnce ==
    \A e \in End : \A i, j \in DOMAIN handed[e] :
        handed[e][i] = handed[e][j] => i = j

(* Every byte queued arrives and is known to have arrived, when a bounded    *)
(* number of datagrams is lost, acks among them.                             *)
EverythingArrives ==
    \A e \in End :
        (tx[e].sender.end = tx[e].owner.bytes)
            ~> (/\ rx[Peer(e)].receiver.delivered = tx[e].owner.bytes
                /\ PrefixEnd(tx[e].sender.acked) = tx[e].owner.bytes)

=============================================================================
