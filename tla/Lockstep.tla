------------------------------ MODULE Lockstep ------------------------------
(***************************************************************************)
(* The lockstep clients: CClientManagerImpl with its CClientBase objects.  *)
(*                                                                         *)
(* Every player runs one manager, and every manager holds one client per   *)
(* player: the local one (CLocalClient) and one CNetClient per link.  A    *)
(* variable v[i][x] is the field v of player i's object for player x.      *)
(* Orders are kept only as the beats they belong to: a stream reaches      *)
(* every player in the order it was sent, so what beat b of stream x       *)
(* contains is the same everywhere and only WHO RAN IT can differ.         *)
(*                                                                         *)
(* The manager's recursive mLock makes each action atomic.  DoBeat pulls   *)
(* messages and steps the beat counters under one hold of the lock; here   *)
(* it pulls at most one.  A pull of several is several DoBeats: the        *)
(* counters are stepped more often than in the code, and a beat they find  *)
(* available early is dispatched no earlier than Dispatch chooses.         *)
(***************************************************************************)
EXTENDS Integers, Sequences, FiniteSets

CONSTANTS
    Client,      \* the players; each has one client object per player
    MaxBeat,     \* bound: the last beat a player issues
    Advances,    \* how many beats one CMDST_Advance may issue
    MaxLead,     \* beats a player issues ahead of those it has dispatched
    Leavers,     \* bound: the players that may quit or crash
    MaxCuts,     \* bound: links that fail and ejections users ask for
    NoRequest    \* no eject request

ASSUME SessionAssumption ==
    /\ MaxBeat \in Nat
    /\ Advances \subseteq Nat \ {0}
    /\ MaxLead \in Nat \ {0}
    /\ Leavers \subseteq Client
    /\ MaxCuts \in Nat
    /\ NoRequest \notin Nat

VARIABLES
    queued,          \* mQueuedBeat: beats of x's stream player i holds
    pipe,            \* mPipe: the advances of x's stream not yet dispatched
    drained,         \* mDispatchedBeat of the client: beats taken from mPipe
    ack,             \* ack[i][k][x], mLatestAckReceived: what k said it holds of x
    ejectPending,    \* mEjectPending; for a CNetClient, its link is closed
    ejected,         \* mEjected
    ejectRequests,   \* ejectRequests[i][x][k]: k's request about x, mAfterBeat
    availableBeat,   \* mAvailableBeat of the manager
    fullyQueuedBeat, \* mFullyQueuedBeat
    dispatchedBeat,  \* mDispatchedBeat of the manager
    link,            \* link[i][k]: sent by i, not yet pulled by k
    gone,            \* players that quit or crashed
    cuts             \* failures and user ejections so far (bound only)

streamVars == <<queued, pipe, drained, ack>>
ejectVars == <<ejectPending, ejected, ejectRequests>>
envVars == <<gone, cuts>>
vars == <<streamVars, ejectVars, availableBeat, fullyQueuedBeat, dispatchedBeat,
          link, envVars>>

-----------------------------------------------------------------------------
(* Messages.  Chat, readiness, speed and progress announcements take no     *)
(* part in deciding which orders run and are not sent here.                 *)

(* Each "Faulty" definition is the one after it with a mistake that the      *)
(* properties below must notice; no action uses it.                          *)
(* CMDST_Advance(n) and the sender's own ack, CLIMSG_Ack(k, q), which are    *)
(* next to each other on every link: ProcessClients reaches the local        *)
(* client, which acks, while it loops over the links.                        *)
AdvanceMsg(k, n, q) == [op |-> "Advance", client |-> k, beat |-> q, delta |-> n]
FaultyAckMsg(x, b) == [op |-> "Ack", client |-> x, beat |-> b + 1, delta |-> 0]
AckMsg(x, b) == [op |-> "Ack", client |-> x, beat |-> b, delta |-> 0]
FaultyEjectMsg(x, b) == [op |-> "Eject", client |-> x, beat |-> b - 1, delta |-> 0]
EjectMsg(x, b) == [op |-> "Eject", client |-> x, beat |-> b, delta |-> 0]

Message == [op : {"Advance", "Ack", "Eject"}, client : Client, beat : Nat, delta : Nat]

(* CNetClient::Process writes to an open link only.  What is written to a    *)
(* link whose far end is closed or gone is never read, so it is not kept.    *)
Reaches(i, k) ==
    /\ i # k
    /\ ~ejectPending[i][k]
    /\ ~ejectPending[k][i]
    /\ k \notin gone

(* ProcessClients: the links l once i has written msg to those it has open.  *)
Broadcast(l, i, msg) ==
    [a \in Client |-> [b \in Client |->
        IF a = i /\ Reaches(i, b) THEN Append(l[a][b], msg) ELSE l[a][b]]]

-----------------------------------------------------------------------------
Init ==
    /\ queued = [i \in Client |-> [x \in Client |-> 0]]
    /\ pipe = [i \in Client |-> [x \in Client |-> <<>>]]
    /\ drained = [i \in Client |-> [x \in Client |-> 0]]
    /\ ack = [i \in Client |-> [k \in Client |-> [x \in Client |-> 0]]]
    /\ ejectPending = [i \in Client |-> [x \in Client |-> FALSE]]
    /\ ejected = [i \in Client |-> [x \in Client |-> FALSE]]
    /\ ejectRequests =
         [i \in Client |-> [x \in Client |-> [k \in Client |-> NoRequest]]]
    /\ availableBeat = [i \in Client |-> 0]
    /\ fullyQueuedBeat = [i \in Client |-> 0]
    /\ dispatchedBeat = [i \in Client |-> 0]
    /\ link = [i \in Client |-> [k \in Client |-> <<>>]]
    /\ gone = {}
    /\ cuts = 0

-----------------------------------------------------------------------------
(* b lies below every "last beat I have" report about x: the minimum that    *)
(* GetMostExpiredEjectRequest takes of mQueuedBeat and the requests.         *)
BeforeEject(i, x, b) ==
    /\ b < queued[i][x]
    /\ \A k \in Client :
         ejectRequests[i][x][k] # NoRequest => b < ejectRequests[i][x][k]

FaultyReadyOwnStreamOnly(i, k, b) ==
    ejected[i][k] \/ ejectPending[i][k] \/ ack[i][k][k] >= b

FaultyReadySkipsPending(i, k, b) ==
    \/ ejected[i][k]
    \/ ejectPending[i][k]
    \/ \A x \in Client : ejected[i][x] \/ ejectPending[i][x] \/ ack[i][k][x] >= b

FaultyReadyWaitsForEjected(i, k, b) ==
    \A x \in Client :
         \/ ejected[i][x]
         \/ ejectPending[i][x] /\ ~BeforeEject(i, x, b)
         \/ ack[i][k][x] >= b

(* IsReadyForBeat: whether k has acknowledged to i all it must for beat b.   *)
IsReadyForBeat(i, k, b) ==
    \/ ejected[i][k]
    \/ ejectPending[i][k]
    \/ \A x \in Client :
         \/ ejected[i][x]
         \/ ejectPending[i][x] /\ ~BeforeEject(i, x, b)
         \/ ack[i][k][x] >= b

EveryoneResponsiveSince(i, b) == \A k \in Client : IsReadyForBeat(i, k, b)

FaultyFullyQueuedUntil(i, b) ==
    \A x \in Client : ejected[i][x] \/ b <= queued[i][x]

(* ClientNeedsFullyQueuedBeatsUntil: every live stream is here through b.    *)
FullyQueuedUntil(i, b) ==
    \A x \in Client : ejected[i][x] \/ ejectPending[i][x] \/ b <= queued[i][x]

(* What DoBeat does once the messages are pulled: both counters step as far  *)
(* as the state after the pull lets them.  The local stream bounds both.     *)
StepCounters(i) ==
    /\ \E f \in fullyQueuedBeat[i] .. queued'[i][i] :
         /\ \A b \in fullyQueuedBeat[i] + 1 .. f : FullyQueuedUntil(i, b)'
         /\ ~FullyQueuedUntil(i, f + 1)'
         /\ fullyQueuedBeat' = [fullyQueuedBeat EXCEPT ![i] = f]
    /\ \E a \in availableBeat[i] .. queued'[i][i] :
         /\ \A b \in availableBeat[i] + 1 .. a : EveryoneResponsiveSince(i, b)'
         /\ ~EveryoneResponsiveSince(i, a + 1)'
         /\ availableBeat' = [availableBeat EXCEPT ![i] = a]

-----------------------------------------------------------------------------
(* CClientBase::Process, by kind of message.                                 *)

(* CMDST_Advance on client x of player i: the stream grows by n beats.       *)
QueueAdvance(i, x, n) ==
    /\ queued' = [queued EXCEPT ![i][x] = @ + n]
    /\ pipe' = [pipe EXCEPT ![i][x] = Append(@, n)]

(* CLIMSG_Ack about a beat: an older one is ignored.                         *)
NewerAck(old, b) == IF b > old THEN b ELSE old

RecordAck(acks, i, k, x, b) == [acks EXCEPT ![i][k][x] = NewerAck(@, b)]

(* AddOrUpdateEjectRequest: a requester's smallest beat counts.              *)
LowerRequest(old, b) == IF old = NoRequest \/ b < old THEN b ELSE old

(* AdvanceBeat, from the issue thread: the local stream grows by n beats,    *)
(* the local client acks them to itself, and every peer is told both.        *)
Issue(i, n) ==
    LET q == queued[i][i] + n
    IN  /\ i \notin gone
        /\ q <= MaxBeat
        /\ q <= dispatchedBeat[i] + MaxLead
        /\ QueueAdvance(i, i, n)
        /\ ack' = RecordAck(ack, i, i, i, q)
        /\ link' = Broadcast(link, i, AdvanceMsg(i, n, q))
        /\ UNCHANGED <<drained, ejectVars, availableBeat, fullyQueuedBeat,
                       dispatchedBeat, envVars>>

(* The next message of k's link, pulled by i (CNetClient::ReceiveMessage).   *)
Pulls(i, k, op) ==
    /\ i # k
    /\ ~ejectPending[i][k]
    /\ link[k][i] # <<>>
    /\ Head(link[k][i]).op = op

Pulled(i, k) == [link EXCEPT ![k][i] = Tail(@)]

(* An advance is acked to everyone, this player included.                    *)
ReceiveAdvance(i, k) ==
    LET msg == Head(link[k][i])
        q == queued[i][k] + msg.delta
    IN  /\ Pulls(i, k, "Advance")
        /\ QueueAdvance(i, k, msg.delta)
        /\ ack' = RecordAck(RecordAck(ack, i, i, k, q), i, k, k, msg.beat)
        /\ link' = Broadcast(Pulled(i, k), i, AckMsg(k, q))
        /\ UNCHANGED <<drained, ejectVars, dispatchedBeat, envVars>>

ReceiveAck(i, k) ==
    LET msg == Head(link[k][i])
    IN  /\ Pulls(i, k, "Ack")
        /\ ack' = RecordAck(ack, i, k, msg.client, msg.beat)
        /\ link' = Pulled(i, k)
        /\ UNCHANGED <<queued, pipe, drained, ejectVars, dispatchedBeat, envVars>>

(* HandleIncomingEjectRequest: the request is filed; only this player's own  *)
(* Eject ever sets ejectPending.                                             *)
ReceiveEject(i, k) ==
    LET msg == Head(link[k][i])
    IN  /\ Pulls(i, k, "Eject")
        /\ ejectRequests' =
             [ejectRequests EXCEPT ![i][msg.client][k] = LowerRequest(@, msg.beat)]
        /\ link' = Pulled(i, k)
        /\ UNCHANGED <<streamVars, ejectPending, ejected, dispatchedBeat, envVars>>

FaultyRequestsAfterEject(i, x) ==
    [ejectRequests[i] EXCEPT ![x][i] = LowerRequest(@, queued[i][x])]

(* CClientBase::Eject and ProcessEject: i closes the link to x, reports the  *)
(* last beat it holds of x to everyone still connected and to itself, and    *)
(* forgets every request x filed.                                            *)
RequestsAfterEject(i, x) ==
    [y \in Client |-> [k \in Client |->
       IF k = x THEN NoRequest
       ELSE IF y = x /\ k = i THEN LowerRequest(ejectRequests[i][y][k], queued[i][x])
       ELSE ejectRequests[i][y][k]]]

LinksAfterEject(i, x) ==
    LET l == Broadcast(link, i, EjectMsg(x, queued[i][x]))
    IN  [l EXCEPT ![i][x] = link[i][x], ![x][i] = <<>>]

Eject(i, x) ==
    /\ i # x
    /\ ~ejectPending[i][x]
    /\ ejectPending' = [ejectPending EXCEPT ![i][x] = TRUE]
    /\ ejectRequests' = [ejectRequests EXCEPT ![i] = RequestsAfterEject(i, x)]
    /\ link' = LinksAfterEject(i, x)
    /\ UNCHANGED <<streamVars, ejected, dispatchedBeat>>

(* LOBMSG_ConnLostErrored / LOBMSG_ConnLostEof, pulled like a message.  The  *)
(* link may fail with messages of x still on their way, which are lost.      *)
LinkClosed(i, x) == x \in gone \/ ejectPending[x][i]

ReceiveConnLost(i, x) ==
    /\ LinkClosed(i, x) \/ cuts < MaxCuts
    /\ cuts' = IF LinkClosed(i, x) THEN cuts ELSE cuts + 1
    /\ Eject(i, x)
    /\ UNCHANGED gone

PullNothing == UNCHANGED <<streamVars, ejectVars, dispatchedBeat, link, envVars>>

DoBeat(i) ==
    /\ i \notin gone
    /\ \/ \E k \in Client : ReceiveAdvance(i, k)
       \/ \E k \in Client : ReceiveAck(i, k)
       \/ \E k \in Client : ReceiveEject(i, k)
       \/ \E k \in Client : ReceiveConnLost(i, k)
       \/ PullNothing
    /\ StepCounters(i)

(* EjectSessionClient: the user ejects another player.                       *)
EjectSessionClient(i, x) ==
    /\ i \notin gone
    /\ cuts < MaxCuts
    /\ cuts' = cuts + 1
    /\ Eject(i, x)
    /\ UNCHANGED <<availableBeat, fullyQueuedBeat, gone>>

-----------------------------------------------------------------------------
(* UpdateState of stream x for beat b: it ends here, or its next advance is  *)
(* drained, or it is already past b.  One pass of the loop is enough:        *)
(* StreamsKeepUp says a stream is never more than one beat behind.           *)
Terminates(i, x, b) ==
    /\ ~ejected[i][x]
    /\ drained[i][x] < b
    /\ ejectPending[i][x]
    /\ ~BeforeEject(i, x, drained[i][x])

FaultyDrains(i, x, b) ==
    ~ejected[i][x] /\ drained[i][x] < b /\ ~ejectPending[i][x] /\ pipe[i][x] # <<>>

Drains(i, x, b) ==
    /\ ~ejected[i][x]
    /\ drained[i][x] < b
    /\ ejectPending[i][x] => BeforeEject(i, x, drained[i][x])
    /\ pipe[i][x] # <<>>

(* UpdateStates, called by the sim thread for an available beat.             *)
Dispatch(i) ==
    LET b == dispatchedBeat[i] + 1
    IN  /\ i \notin gone
        /\ b <= availableBeat[i]
        /\ drained' = [drained EXCEPT ![i] = [x \in Client |->
             IF Drains(i, x, b) THEN drained[i][x] + Head(pipe[i][x]) ELSE drained[i][x]]]
        /\ pipe' = [pipe EXCEPT ![i] = [x \in Client |->
             IF Drains(i, x, b) THEN Tail(pipe[i][x]) ELSE pipe[i][x]]]
        /\ ejected' = [ejected EXCEPT ![i] = [x \in Client |->
             ejected[i][x] \/ Terminates(i, x, b)]]
        /\ dispatchedBeat' = [dispatchedBeat EXCEPT ![i] = b]
        /\ UNCHANGED <<queued, ack, ejectPending, ejectRequests, availableBeat,
                       fullyQueuedBeat, link, envVars>>

(* Disconnect, or a crash: the player takes no further step, and what it     *)
(* sent may still arrive.                                                    *)
Leave(i) ==
    /\ i \in Leavers \ gone
    /\ gone' = gone \cup {i}
    /\ link' = [k \in Client |-> [link[k] EXCEPT ![i] = <<>>]]
    /\ UNCHANGED <<streamVars, ejectVars, availableBeat, fullyQueuedBeat,
                   dispatchedBeat, cuts>>

-----------------------------------------------------------------------------
Next ==
    \E i \in Client :
        \/ \E n \in Advances : Issue(i, n)
        \/ DoBeat(i)
        \/ \E x \in Client : EjectSessionClient(i, x)
        \/ Dispatch(i)
        \/ Leave(i)

Spec == Init /\ [][Next]_vars

(* What the code keeps doing: the issue thread, woken by the connector's     *)
(* event, calls DoBeat, which pulls what has arrived and the notice of a     *)
(* closed link, and issues; the sim thread dispatches what is available.     *)
(* Nothing makes a user eject, a link fail or a player leave.                *)
Fairness ==
    \A i \in Client :
        /\ WF_vars(\E n \in Advances : Issue(i, n))
        /\ WF_vars(DoBeat(i))
        /\ WF_vars(Dispatch(i))

FairSpec == Spec /\ Fairness

-----------------------------------------------------------------------------
(* Type invariant of the managers, their clients and the links.              *)
TypeOK ==
    /\ queued \in [Client -> [Client -> Nat]]
    /\ pipe \in [Client -> [Client -> Seq(Nat)]]
    /\ drained \in [Client -> [Client -> Nat]]
    /\ ack \in [Client -> [Client -> [Client -> Nat]]]
    /\ ejectPending \in [Client -> [Client -> BOOLEAN]]
    /\ ejected \in [Client -> [Client -> BOOLEAN]]
    /\ ejectRequests \in [Client -> [Client -> [Client -> Nat \cup {NoRequest}]]]
    /\ availableBeat \in [Client -> Nat]
    /\ fullyQueuedBeat \in [Client -> Nat]
    /\ dispatchedBeat \in [Client -> Nat]
    /\ link \in [Client -> [Client -> Seq(Message)]]
    /\ gone \subseteq Client
    /\ cuts \in Nat

(* What a player has been told another holds of a stream, the other really   *)
(* holds: acks cross links, are broadcast about third players' streams and   *)
(* outlive the player that sent them.                                        *)
AcksAreTrue ==
    \A i, k, x \in Client : ack[i][k][x] <= queued[k][x]

(* The lockstep barrier: a beat is available to a player only when every     *)
(* player it has not ejected holds that beat of every stream not ejected.    *)
BeatBarrier ==
    \A i, k, x \in Client :
        ~ejectPending[i][k] /\ ~ejectPending[i][x] => availableBeat[i] <= queued[k][x]

(* UpdateState never runs out of messages before it reaches its beat (the    *)
(* guard deviation 1 of its comment calls unreachable): a stream that has    *)
(* not ended has been drained through every dispatched beat, although an     *)
(* ejected player's stream stops growing at a beat the peers decide.         *)
StreamsKeepUp ==
    \A i, x \in Client : ejected[i][x] \/ dispatchedBeat[i] <= drained[i][x]

(* GetBottleneckInfo takes mFullyQueuedBeat <= mAvailableBeat to mean that   *)
(* data, not an ack, is missing: available never passes fully queued, though *)
(* they are counted by different tests over different sets of clients.       *)
AvailableIsFullyQueued ==
    \A i \in Client : availableBeat[i] <= fullyQueuedBeat[i]

(* No request of an ejected player stays in any list: it was made without    *)
(* the rest of the game and would cut a survivor's stream short.             *)
EjectedHaveNoSay ==
    \A i, x, y \in Client : ejectPending[i][x] => ejectRequests[i][y][x] = NoRequest

(* Players that have not ejected each other.                                 *)
Together(i, k) == ~ejectPending[i][k] /\ ~ejectPending[k][i]

(* The beats both have dispatched, and how far through them i ran x's orders.*)
CommonBeat(i, k) ==
    IF dispatchedBeat[i] <= dispatchedBeat[k] THEN dispatchedBeat[i] ELSE dispatchedBeat[k]

RanThrough(i, x, b) == IF drained[i][x] <= b THEN drained[i][x] ELSE b

(* Two players that are still together ran the same orders in the beats both *)
(* have dispatched: the orders of x at beat b ran at both or at neither.     *)
SurvivorsRunSameOrders ==
    \A i, k, x \in Client :
        Together(i, k) =>
            RanThrough(i, x, CommonBeat(i, k)) = RanThrough(k, x, CommonBeat(i, k))

(* What the code does guarantee while at most one player leaves and no other *)
(* link fails: two players still together differ at most in the last beat of *)
(* the leaver's stream, even when one advance issues several beats.  A second*)
(* leaver can widen the difference: ejecting it drops what it had asked about*)
(* the first.                                                                *)
SurvivorsDifferInLastBeat ==
    \A i, k, x \in Client :
        Together(i, k) =>
            RanThrough(i, x, CommonBeat(i, k)) <= RanThrough(k, x, CommonBeat(i, k)) + 1

(* With players quitting and crashing but no link failing between two that   *)
(* stay, everyone who stays dispatches every beat.                           *)
SurvivorsProgress ==
    <>(\A i \in Client : i \in gone \/ dispatchedBeat[i] = MaxBeat)

=============================================================================
