-------------------------------- MODULE Rejoin --------------------------------
(***************************************************************************)
(* A player crashes, starts again and takes its seat back: CRejoinFeed.    *)
(*                                                                         *)
(* The survivors hold its seat (CNetClient::ReceiveMessage), give it a new *)
(* link once it has proved itself, send it what they hold, and go back to  *)
(* the beat it settles as the end of its old stream.  The lockstep clients *)
(* are those of Lockstep, without ejections and with every advance one     *)
(* beat; what is new is that a stream can be cut, rebuilt from three       *)
(* sources, and continued by another run of its player, so here a stream   *)
(* is the sequence of its beats and a beat the messages it is made of.     *)
(*                                                                         *)
(* Acks are not queued with the other messages: told[i][k] is the highest  *)
(* of the acks about each stream that k has yet to read, which is all that *)
(* reading them in order leaves (CLIMSG_Ack keeps the highest).            *)
(*                                                                         *)
(* The recording stands for the beats its writer has dispatched: run on    *)
(* its own it is Playback, the save that may come with it a part of it.    *)
(* Everybody supports rejoining (EveryoneSupports), proves its seat and is *)
(* not voted out.                                                          *)
(***************************************************************************)
EXTENDS Integers, Sequences, FiniteSets

CONSTANTS
    Client,      \* the players
    Restarter,   \* the one that crashes
    Recorder,    \* the peer it asks for the recording: first of the setup list
    MaxBeat,     \* bound: the last beat a player issues
    MaxLead,     \* beats a player issues ahead of those it has dispatched
    Talkers,     \* bound: the peers that may give orders while it is away
    MaxEvents,   \* bound: crashes and such orders
    Prompt,      \* whether a link is never slower than the recording's way round
    NoReport     \* a peer that has not reported

Peer == Client \ {Restarter}

ASSUME RejoinAssumption ==
    /\ IsFiniteSet(Client)
    /\ Restarter \in Client
    /\ Recorder \in Peer
    /\ MaxBeat \in Nat \ {0}
    /\ MaxLead \in Nat \ {0}
    /\ Talkers \subseteq Peer
    /\ MaxEvents \in Nat
    /\ Prompt \in BOOLEAN

VARIABLES
    stream,      \* stream[i][x]: x's beats as i holds them, run or in mPipe
    open,        \* open[i][x]: what follows them in mPipe, of a beat not ended
    dispatched,  \* mDispatchedBeat
    available,   \* mAvailableBeat
    ack,         \* ack[i][k][x], mLatestAckReceived: what k said it holds of x
    told,        \* told[k][i][x]: the highest ack about x on its way to i
    link,        \* link[i][k]: sent by i and not yet read by k
    lost,        \* peers whose link to the restarter leads nowhere
    serves,      \* serves[k]: entries of sPendingServes
    phase,       \* of the restarter: "Up", "Asking" or "CatchingUp"
    report,      \* mPeerDispatched, mPeerQueued, mBacklog, the recording
    cut,         \* mHandoverBeat
    crashes,     \* crashes so far: the number of the restarter's run
    orders       \* orders given so far (bound only)

streamVars == <<stream, open>>
beatVars == <<dispatched, available>>
wireVars == <<told, link>>
peerVars == <<lost, serves>>
returnVars == <<phase, report, cut>>
envVars == <<crashes, orders>>
vars == <<streamVars, beatVars, ack, wireVars, peerVars, returnVars, envVars>>

-----------------------------------------------------------------------------
Least(a, b) == IF a <= b THEN a ELSE b
Most(a, b) == IF a >= b THEN a ELSE b

(* A message of a stream, by the beat and the run of its player that sent it.*)
RunOf(i) == IF i = Restarter THEN crashes ELSE 0
Said(i, q) == [beat |-> q, run |-> RunOf(i)]

OrderMsg(item) == [op |-> "Order", item |-> item]
AdvanceMsg(item) == [op |-> "Advance", item |-> item]
CutMsg(b) == [op |-> "Cut", cut |-> b]

Queued(i, x) == Len(stream[i][x])
Nothing == [x \in Client |-> 0]

(* A player in the game: the restarter is out of it until it has caught up.  *)
Playing(i) == i = Restarter => phase = "Up"

(* REJOIN_BacklogPending: the orders of k stay off this link, its acks do not.*)
Pending(k, i) == i = Restarter /\ k # Restarter /\ serves[k] > 0

Reaches(i, k) == i # k /\ ~(k = Restarter /\ i \in lost)

(* ProcessClients over links l, for the messages of i's own stream.          *)
Broadcast(l, i, msg) ==
    [l EXCEPT ![i] = [k \in Client |->
        IF Reaches(i, k) /\ ~Pending(i, k) THEN Append(l[i][k], msg) ELSE l[i][k]]]

(* ProcessClients for acks: i holds stream x through b.                      *)
Tell(t, i, x, b) ==
    [t EXCEPT ![i] = [k \in Client |->
        IF Reaches(i, k) THEN [t[i][k] EXCEPT ![x] = Most(@, b)] ELSE t[i][k]]]

-----------------------------------------------------------------------------
(* The game is under way: everybody has run the first beat of every stream   *)
(* and knows it is held, and the restarter has given an order of the next.   *)
FirstOrder == [beat |-> 2, run |-> 0]

Init ==
    /\ stream = [i \in Client |-> [x \in Client |-> << <<[beat |-> 1, run |-> 0]>> >>]]
    /\ open = [i \in Client |-> [x \in Client |->
         IF i = Restarter /\ x = Restarter THEN <<FirstOrder>> ELSE <<>>]]
    /\ dispatched = [i \in Client |-> 1]
    /\ available = [i \in Client |-> 1]
    /\ ack = [i \in Client |-> [k \in Client |-> [x \in Client |-> 1]]]
    /\ told = [i \in Client |-> [k \in Client |-> Nothing]]
    /\ link = [i \in Client |-> [k \in Client |->
         IF i = Restarter /\ k # Restarter THEN <<OrderMsg(FirstOrder)>> ELSE <<>>]]
    /\ lost = {}
    /\ serves = [k \in Peer |-> 0]
    /\ phase = "Up"
    /\ report = [k \in Peer |-> NoReport]
    /\ cut = 0
    /\ crashes = 0
    /\ orders = 0

-----------------------------------------------------------------------------
LeastOf(S) == CHOOSE a \in S : \A b \in S : a <= b

(* EveryoneResponsiveSince: beat b of every stream is acked by everybody.    *)
AckedByAll(acks, b) == \A k, x \in Client : acks[k][x] >= b

(* The end of DoBeat: mAvailableBeat steps through every such beat.          *)
StepAvailable(i) ==
    available' = [available EXCEPT ![i] =
        @ + Cardinality({b \in @ + 1 .. MaxBeat : AckedByAll(ack'[i], b)})]

(* The player of i gives an order: it is in the local pipe and on the links  *)
(* at once, before the beat it belongs to is ended.  Bound: the restarter's  *)
(* is given as the model begins, a peer gives one while the restarter is away.*)
GiveOrder(i) ==
    LET item == Said(i, Queued(i, i) + 1)
    IN  /\ i \in Talkers
        /\ phase # "Up"
        /\ Queued(i, i) < MaxBeat
        /\ open[i][i] = <<>>
        /\ crashes + orders < MaxEvents
        /\ open' = [open EXCEPT ![i][i] = Append(@, item)]
        /\ orders' = orders + 1
        /\ link' = Broadcast(link, i, OrderMsg(item))
        /\ UNCHANGED <<stream, beatVars, ack, told, peerVars, returnVars, crashes>>

(* The beat of stream x that i is taking ends with item.                     *)
EndBeat(i, x, item) ==
    /\ stream' = [stream EXCEPT ![i][x] = Append(@, Append(open[i][x], item))]
    /\ open' = [open EXCEPT ![i][x] = <<>>]

(* AdvanceBeat: after a return, the driver goes on from the beat its stream  *)
(* ends at (HoldIssue).  The advance and the sender's ack travel together.   *)
Issue(i) ==
    LET q == Queued(i, i) + 1
        item == Said(i, q)
    IN  /\ Playing(i)
        /\ q <= MaxBeat
        /\ q <= dispatched[i] + MaxLead
        /\ EndBeat(i, i, item)
        /\ ack' = [ack EXCEPT ![i][i][i] = Most(@, q)]
        /\ link' = Broadcast(link, i, AdvanceMsg(item))
        /\ told' = [told EXCEPT ![i] = [k \in Client |->
             IF Pending(i, k) THEN [told[i][k] EXCEPT ![i] = q] ELSE told[i][k]]]
        /\ UNCHANGED <<beatVars, peerVars, returnVars, envVars>>

(* UpdateStates: everything of the beat is here.                             *)
Dispatch(i) ==
    /\ Playing(i)
    /\ dispatched[i] < available[i]
    /\ dispatched' = [dispatched EXCEPT ![i] = @ + 1]
    /\ UNCHANGED <<streamVars, available, ack, wireVars, peerVars, returnVars, envVars>>

-----------------------------------------------------------------------------
Reads(i, k, op) ==
    /\ i # k
    /\ link[k][i] # <<>>
    /\ Head(link[k][i]).op = op

Rest(i, k) == [link EXCEPT ![k][i] = Tail(@)]

ReceiveOrder(i, k) ==
    /\ Playing(i)
    /\ Reads(i, k, "Order")
    /\ open' = [open EXCEPT ![i][k] = Append(@, Head(link[k][i]).item)]
    /\ link' = Rest(i, k)
    /\ UNCHANGED <<stream, dispatched, ack, told, peerVars, returnVars, envVars>>

(* The beat is acked to everyone, this player included.                      *)
ReceiveAdvance(i, k) ==
    LET q == Queued(i, k) + 1
    IN  /\ Playing(i)
        /\ Reads(i, k, "Advance")
        /\ EndBeat(i, k, Head(link[k][i]).item)
        /\ ack' = [ack EXCEPT ![i][i][k] = Most(@, q),
                              ![i][k][k] = Most(@, Head(link[k][i]).item.beat)]
        /\ link' = Rest(i, k)
        /\ told' = Tell(told, i, k, q)
        /\ UNCHANGED <<dispatched, peerVars, returnVars, envVars>>

ReceiveAcks(i, k) ==
    /\ Playing(i)
    /\ told[k][i] # Nothing
    /\ ack' = [ack EXCEPT ![i][k] = [x \in Client |-> Most(@[x], told[k][i][x])]]
    /\ told' = [told EXCEPT ![k][i] = Nothing]
    /\ UNCHANGED <<streamVars, dispatched, link, peerVars, returnVars, envVars>>

-----------------------------------------------------------------------------
(* The restarter's process ends.  What it had sent may still arrive; what is *)
(* sent to it goes nowhere until a peer gives its seat a new link.  Bound: it*)
(* crashes again only on its way back, with no peer about to serve it.       *)
Crash ==
    /\ crashes + orders < MaxEvents
    /\ crashes > 0 => phase # "Up" /\ \A k \in Peer : serves[k] = 0
    /\ crashes' = crashes + 1
    /\ phase' = "Asking"
    /\ report' = [k \in Peer |-> NoReport]
    /\ cut' = 0
    /\ lost' = Peer
    /\ stream' = [stream EXCEPT ![Restarter] = [x \in Client |-> <<>>]]
    /\ open' = [open EXCEPT ![Restarter] = [x \in Client |-> <<>>]]
    /\ dispatched' = [dispatched EXCEPT ![Restarter] = 0]
    /\ available' = [available EXCEPT ![Restarter] = 0]
    /\ ack' = [ack EXCEPT ![Restarter] = [k \in Client |-> Nothing]]
    /\ link' = [k \in Client |-> [link[k] EXCEPT ![Restarter] = <<>>]]
    /\ told' = [k \in Client |-> [told[k] EXCEPT ![Restarter] = Nothing]]
    /\ UNCHANGED <<serves, orders>>

(* What SendBacklog says: the beats queued and not run, whole, with its own   *)
(* orders beyond them; the recording holds the ones run.                     *)
Backlog(k) ==
    [dispatched |-> dispatched[k],
     queued |-> [x \in Client |-> Queued(k, x)],
     beats |-> stream[k],
     orders |-> open[k][k]]

(* SendBacklog: the restarter's unfinished beat is dropped here, the report   *)
(* goes out, and the acks say again what this client holds.  Nobody sees a   *)
(* report between its sending and Settle, so it is not kept on the link.     *)
FaultySendBacklog(k, t) ==
    /\ open' = [open EXCEPT ![k][Restarter] = <<>>]
    /\ report' = [report EXCEPT ![k] = Backlog(k)]
    /\ told' = t

SendBacklog(k, t) ==
    /\ open' = [open EXCEPT ![k][Restarter] = <<>>]
    /\ report' = [report EXCEPT ![k] = Backlog(k)]
    /\ told' = [t EXCEPT ![k][Restarter] =
                  [x \in Client |-> Most(@[x], Queued(k, x))]]

(* SettleCandidates and ReplaceConnection: the seat's new link, from the     *)
(* proof of who asks for it.  What was under way on the old one is lost.     *)
(* The recorder waits for its sim to have written and saved the game; the    *)
(* others serve at once, in the same call.                                   *)
TakeSeat(k) ==
    LET t == [told EXCEPT ![Restarter][k] = Nothing, ![k][Restarter] = Nothing]
    IN  /\ k \in lost
        /\ phase = "Asking"
        /\ lost' = lost \ {k}
        /\ link' = [link EXCEPT ![Restarter][k] = <<>>, ![k][Restarter] = <<>>]
        /\ IF k = Recorder
           THEN /\ serves' = [serves EXCEPT ![k] = @ + 1]
                /\ told' = t
                /\ UNCHANGED <<open, report>>
           ELSE /\ SendBacklog(k, t)
                /\ UNCHANGED serves
        /\ UNCHANGED <<stream, dispatched, ack, phase, cut, envVars>>

Serve(k) ==
    /\ k \in Peer
    /\ serves[k] > 0
    /\ serves' = [serves EXCEPT ![k] = @ - 1]
    /\ SendBacklog(k, told)
    /\ UNCHANGED <<stream, dispatched, ack, link, lost, phase, cut, envVars>>

(* NotePeerReport for the last report: it settles where the old stream ends, *)
(* the least that any peer holds of it, and every peer is told.              *)
FaultyOldStreamEnd == report[Recorder].queued[Restarter]

OldStreamEnd == LeastOf({report[k].queued[Restarter] : k \in Peer})

Settle ==
    /\ phase = "Asking"
    /\ \A k \in Peer : report[k] # NoReport
    /\ phase' = "CatchingUp"
    /\ cut' = OldStreamEnd
    /\ link' = [link EXCEPT ![Restarter] = [k \in Client |->
         IF k \in Peer THEN Append(link[Restarter][k], CutMsg(OldStreamEnd))
                       ELSE link[Restarter][k]]]
    /\ UNCHANGED <<streamVars, dispatched, ack, told, peerVars, report, envVars>>

(* ApplyCut: beats past the end go, if this client has run none of them, and *)
(* reports of them are no longer true.                                       *)
FaultyReceiveCut(k) ==
    LET end == Head(link[Restarter][k]).cut
    IN  /\ k \in Peer
        /\ Reads(k, Restarter, "Cut")
        /\ link' = Rest(k, Restarter)
        /\ IF dispatched[k] <= end /\ end <= Queued(k, Restarter)
           THEN /\ stream' = [stream EXCEPT ![k][Restarter] = SubSeq(@, 1, end)]
                /\ open' = [open EXCEPT ![k][Restarter] = <<>>]
           ELSE UNCHANGED streamVars
        /\ UNCHANGED <<ack, dispatched, told, peerVars, returnVars, envVars>>

ReceiveCut(k) ==
    LET end == Head(link[Restarter][k]).cut
    IN  /\ k \in Peer
        /\ Reads(k, Restarter, "Cut")
        /\ link' = Rest(k, Restarter)
        /\ IF dispatched[k] <= end /\ end <= Queued(k, Restarter)
           THEN /\ stream' = [stream EXCEPT ![k][Restarter] = SubSeq(@, 1, end)]
                /\ open' = [open EXCEPT ![k][Restarter] = <<>>]
                /\ ack' = [ack EXCEPT ![k] = [j \in Client |->
                     [ack[k][j] EXCEPT ![Restarter] = Least(@, end)]]]
           ELSE UNCHANGED <<streamVars, ack>>
        /\ UNCHANGED <<dispatched, told, peerVars, returnVars, envVars>>

-----------------------------------------------------------------------------
(* FinishCatchUp.  The recorder's copy of every stream comes first; a live   *)
(* peer's own copy goes on from where that ends (QueueBacklog's skipThrough),*)
(* with the orders of its unfinished beat.                                   *)
RecordedThrough(x) == report[Recorder].queued[x]

FaultyRebuilt(x) ==
    IF x = Restarter THEN SubSeq(report[Recorder].beats[x], 1, cut - 1)
    ELSE IF x = Recorder THEN report[Recorder].beats[x]
    ELSE report[Recorder].beats[x]
           \o SubSeq(report[x].beats[x], RecordedThrough(x) + 1, report[x].queued[x])

Rebuilt(x) ==
    IF x = Restarter THEN SubSeq(report[Recorder].beats[x], 1, cut)
    ELSE IF x = Recorder THEN report[Recorder].beats[x]
    ELSE report[Recorder].beats[x]
           \o SubSeq(report[x].beats[x], RecordedThrough(x) + 1, report[x].queued[x])

RebuiltOrders(x) ==
    IF x = Restarter THEN <<>>
    ELSE IF report[x].queued[x] >= RecordedThrough(x) THEN report[x].orders
    ELSE <<>>

(* Messages of k the recorder's copy already holds.  Those that have come by *)
(* now, in mHeldIncoming, are skipped; the rest of what has come stays on    *)
(* the link here and is read next.                                           *)
FaultyCovered(k, msg) ==
    /\ k \notin {Recorder, Restarter}
    /\ msg.op \in {"Order", "Advance"}
    /\ msg.item.beat < RecordedThrough(k)

Covered(k, msg) ==
    /\ k \notin {Recorder, Restarter}
    /\ msg.op \in {"Order", "Advance"}
    /\ msg.item.beat <= RecordedThrough(k)

CoveredOf(k) ==
    {n \in 1 .. Len(link[k][Restarter]) :
        \A m \in 1 .. n : Covered(k, link[k][Restarter][m])}

CutUnderWay(k) ==
    \E m \in 1 .. Len(link[Restarter][k]) : link[Restarter][k][m].op = "Cut"

Arrivals ==
    {f \in [Peer -> 0 .. 2 * MaxBeat] : \A k \in Peer :
        f[k] \in IF Prompt THEN {Cardinality(CoveredOf(k))}
                           ELSE 0 .. Cardinality(CoveredOf(k))}

Skip(messages, n) == SubSeq(messages, n + 1, Len(messages))

FinishCatchUp ==
    LET rebuilt == [x \in Client |-> Rebuilt(x)]
        ended == [x \in Client |-> Len(rebuilt[x])]
    IN  /\ phase = "CatchingUp"
        /\ Prompt => \A k \in Peer : ~CutUnderWay(k)
        /\ phase' = "Up"
        /\ stream' = [stream EXCEPT ![Restarter] = rebuilt]
        /\ open' = [open EXCEPT ![Restarter] = [x \in Client |-> RebuiltOrders(x)]]
        /\ dispatched' = [dispatched EXCEPT ![Restarter] = report[Recorder].dispatched]
        /\ ack' = [ack EXCEPT ![Restarter] = [k \in Client |-> ended]]
        /\ told' = [i \in Client |->
             IF i = Restarter
             THEN [k \in Client |-> IF k \in Peer THEN ended ELSE Nothing]
             ELSE [told[i] EXCEPT ![Restarter] =
                     [x \in Client |-> IF @[x] > ended[x] THEN @[x] ELSE 0]]]
        /\ \E arrived \in Arrivals : link' = [k \in Client |->
                IF k \in Peer
                THEN [link[k] EXCEPT ![Restarter] = Skip(@, arrived[k])]
                ELSE link[k]]
        /\ report' = [k \in Peer |-> NoReport]
        /\ cut' = 0
        /\ UNCHANGED <<peerVars, envVars>>

-----------------------------------------------------------------------------
(* With nothing pulled, there may be an own beat to count since the last.    *)
PullNothing(i) ==
    /\ Playing(i)
    /\ available[i] < MaxBeat
    /\ AckedByAll(ack[i], available[i] + 1)
    /\ UNCHANGED <<streamVars, dispatched, ack, wireVars, peerVars, returnVars, envVars>>

(* DoBeat: messages are pulled, restarted peers served or the backlog played, *)
(* and the counter steps.                                                    *)
DoBeat(i) ==
    /\ \/ \E k \in Client : ReceiveOrder(i, k)
       \/ \E k \in Client : ReceiveAdvance(i, k)
       \/ \E k \in Client : ReceiveAcks(i, k)
       \/ TakeSeat(i)
       \/ Serve(i)
       \/ ReceiveCut(i)
       \/ i = Restarter /\ Settle
       \/ i = Restarter /\ FinishCatchUp
       \/ PullNothing(i)
    /\ StepAvailable(i)

Next ==
    \/ \E i \in Client : GiveOrder(i) \/ Issue(i) \/ DoBeat(i) \/ Dispatch(i)
    \/ Crash

Spec == Init /\ [][Next]_vars

-----------------------------------------------------------------------------
Item == [beat : Nat, run : Nat]

TypeOK ==
    /\ stream \in [Client -> [Client -> Seq(Seq(Item))]]
    /\ open \in [Client -> [Client -> Seq(Item)]]
    /\ dispatched \in [Client -> Nat]
    /\ available \in [Client -> Nat]
    /\ \A i \in Client : dispatched[i] <= available[i]
    /\ ack \in [Client -> [Client -> [Client -> Nat]]]
    /\ told \in [Client -> [Client -> [Client -> Nat]]]
    /\ lost \subseteq Peer
    /\ serves \in [Peer -> Nat]
    /\ phase \in {"Up", "Asking", "CatchingUp"}
    /\ cut \in Nat
    /\ crashes + orders <= MaxEvents

(* What lockstep is for, through a crash: two players ran the same messages  *)
(* in every beat both have run, though the restarter's stream was cut, its   *)
(* beats issued anew, and its copies of the others' pieced together from the *)
(* recording and two backlogs (ApplyCut, FinishCatchUp).                     *)
RunsAgree ==
    \A i, k, x \in Client : \A b \in 1 .. Least(dispatched[i], dispatched[k]) :
        /\ b <= Queued(i, x)
        /\ stream[i][x][b] = stream[k][x][b]

(* Each beat is taken once and whole (FinishCatchUp): nobody holds a beat at *)
(* another place of its stream, nor one in which an order of the run before  *)
(* the crash is joined to the end of a beat of the run after it.             *)
BeatsTakenOnce ==
    \A i, x \in Client : \A b \in 1 .. Queued(i, x) :
        \A m \in 1 .. Len(stream[i][x][b]) :
            LET item == stream[i][x][b][m]
                last == stream[i][x][b][Len(stream[i][x][b])]
            IN  item.beat = b /\ item.run = last.run

(* Every peer can go back to the cut it is told (NotePeerReport): it has run *)
(* nothing past it and holds everything up to it, when the message arrives.  *)
CutsFit ==
    \A k \in Peer : \A m \in 1 .. Len(link[Restarter][k]) :
        LET msg == link[Restarter][k][m]
        IN  msg.op = "Cut" => dispatched[k] <= msg.cut /\ msg.cut <= Queued(k, Restarter)

(* Acks, reports and backlog together are enough for everybody to go on to   *)
(* the last beat: while somebody is short of it some thread has something to *)
(* do that changes the state, and as each such step uses up a message, a     *)
(* beat or a stage of the return, nobody is left waiting for an ack that was *)
(* sent to the restarter's old link, for a held issue or for a lost report.  *)
NobodyIsStuck ==
    (\E i \in Client : dispatched[i] < MaxBeat) =>
        ENABLED <<\E i \in Client : Issue(i) \/ DoBeat(i) \/ Dispatch(i)>>_vars

=============================================================================
