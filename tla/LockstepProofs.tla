--------------------------- MODULE LockstepProofs ---------------------------
(***************************************************************************)
(* Proofs about Lockstep for any set of players, any bounds and any sizes  *)
(* of advance.  First type correctness, the truth of acks, the lockstep    *)
(* barrier, and that streams keep up; then that the clients implement the  *)
(* turn barrier, and that survivors of one departure run the same orders   *)
(* but for one beat (Lockstep.SurvivorsDifferInLastBeat).                  *)
(***************************************************************************)
EXTENDS LockstepBarrier, TLAPS

(* A message k has sent that tells what k holds of a stream is true of k,    *)
(* and an advance is about k's own stream.                                   *)
MessageIsTrue(k, msg) ==
    /\ msg.op \in {"Ack", "Advance"} => msg.beat <= queued[k][msg.client]
    /\ msg.op = "Advance" => msg.client = k

MessagesAreTrue ==
    \A i, k \in Client : \A n \in DOMAIN link[k][i] : MessageIsTrue(k, link[k][i][n])

(* Only an ejection that is pending is ever carried out.                     *)
EjectedArePending == \A i, x \in Client : ejected[i][x] => ejectPending[i][x]

(* The barrier in terms of what player i itself knows.                       *)
AvailableIsAcked ==
    \A i, k, x \in Client :
        ~ejectPending[i][k] /\ ~ejectPending[i][x] => availableBeat[i] <= ack[i][k][x]

(* The inductive invariant.                                                  *)
BarrierInv ==
    /\ TypeOK
    /\ MessagesAreTrue
    /\ AcksAreTrue
    /\ EjectedArePending
    /\ AvailableIsAcked

Links == [Client -> [Client -> Seq(Message)]]
Acks == [Client -> [Client -> [Client -> Nat]]]

(***************************************************************************)
(* The operators the actions are built from.                               *)
(***************************************************************************)

(* Broadcasting a message keeps the links well-formed.                       *)
LEMMA BroadcastType ==
    ASSUME NEW l \in Links, NEW i \in Client, NEW msg \in Message
    PROVE  Broadcast(l, i, msg) \in Links
  BY DEF Broadcast, Links

(* The three messages are messages.                                          *)
LEMMA AdvanceMsgType ==
    ASSUME NEW x \in Client, NEW n \in Nat, NEW b \in Nat
    PROVE  AdvanceMsg(x, n, b) \in Message
  BY DEF AdvanceMsg, Message

LEMMA AckMsgType == ASSUME NEW x \in Client, NEW b \in Nat PROVE AckMsg(x, b) \in Message
  BY DEF AckMsg, Message

LEMMA EjectMsgType == ASSUME NEW x \in Client, NEW b \in Nat PROVE EjectMsg(x, b) \in Message
  BY DEF EjectMsg, Message

(* A pulled message is a message, and what is left of the link is a link.    *)
LEMMA PulledType ==
    ASSUME TypeOK, NEW i \in Client, NEW k \in Client, link[k][i] # <<>>
    PROVE  /\ Head(link[k][i]) \in Message
           /\ Pulled(i, k) \in Links
  <1>1. link[k][i] \in Seq(Message)
    BY DEF TypeOK
  <1>2. Head(link[k][i]) \in Message /\ Tail(link[k][i]) \in Seq(Message)
    BY <1>1
  <1> QED BY <1>2 DEF TypeOK, Pulled, Links

(* An ack only ever rises.                                                   *)
LEMMA NewerAckRises ==
    ASSUME NEW a \in Nat, NEW b \in Nat
    PROVE  NewerAck(a, b) \in Nat /\ a <= NewerAck(a, b) /\ NewerAck(a, b) \in {a, b}
  BY DEF NewerAck

(***************************************************************************)
(* Type correctness.                                                       *)
(***************************************************************************)

(* The counters stay numbers.                                                *)
LEMMA StepCountersType ==
    ASSUME TypeOK, queued' \in [Client -> [Client -> Nat]],
           NEW i \in Client, StepCounters(i)
    PROVE  /\ availableBeat' \in [Client -> Nat]
           /\ fullyQueuedBeat' \in [Client -> Nat]
  BY DEF TypeOK, StepCounters

(* An ejection keeps requests and links well-formed.                         *)
LEMMA EjectType ==
    ASSUME TypeOK, NEW i \in Client, NEW x \in Client, Eject(i, x)
    PROVE  /\ ejectPending' \in [Client -> [Client -> BOOLEAN]]
           /\ ejectRequests' \in [Client -> [Client -> [Client -> Nat \cup {NoRequest}]]]
           /\ link' \in Links
  <1>1. RequestsAfterEject(i, x) \in [Client -> [Client -> Nat \cup {NoRequest}]]
    BY DEF TypeOK, RequestsAfterEject, LowerRequest
  <1>2. LinksAfterEject(i, x) \in Links
    <2>1. Broadcast(link, i, EjectMsg(x, queued[i][x])) \in Links
      <3>1. link \in Links /\ queued[i][x] \in Nat
        BY DEF TypeOK, Links
      <3> QED BY <3>1, BroadcastType, EjectMsgType
    <2>2. link[i][x] \in Seq(Message) /\ <<>> \in Seq(Message)
      BY DEF TypeOK
    <2> QED BY <2>1, <2>2 DEF LinksAfterEject, Links
  <1> QED BY <1>1, <1>2 DEF Eject, TypeOK

(* Replacing one entry of a nested function keeps its type.                  *)
LEMMA UpdateTwo ==
    ASSUME NEW S, NEW f \in [Client -> [Client -> S]],
           NEW i \in Client, NEW x \in Client, NEW v \in S
    PROVE  [f EXCEPT ![i][x] = v] \in [Client -> [Client -> S]]
  OBVIOUS

(* A stream grows by the beats of an advance.                                *)
LEMMA QueueAdvanceType ==
    ASSUME TypeOK, NEW i \in Client, NEW x \in Client, NEW n \in Nat, QueueAdvance(i, x, n)
    PROVE  /\ queued' \in [Client -> [Client -> Nat]]
           /\ pipe' \in [Client -> [Client -> Seq(Nat)]]
  <1>1. /\ queued \in [Client -> [Client -> Nat]]
        /\ pipe \in [Client -> [Client -> Seq(Nat)]]
    BY DEF TypeOK
  <1>2. queued[i][x] + n \in Nat /\ Append(pipe[i][x], n) \in Seq(Nat)
    BY <1>1
  <1>3. [queued EXCEPT ![i][x] = queued[i][x] + n] \in [Client -> [Client -> Nat]]
    BY <1>1, <1>2, UpdateTwo
  <1>4. [pipe EXCEPT ![i][x] = Append(pipe[i][x], n)] \in [Client -> [Client -> Seq(Nat)]]
    BY <1>1, <1>2, UpdateTwo
  <1> QED BY <1>3, <1>4 DEF QueueAdvance

(* Recording an ack.                                                         *)
LEMMA RecordAckType ==
    ASSUME NEW f \in Acks, NEW i \in Client, NEW k \in Client, NEW x \in Client, NEW b \in Nat
    PROVE  RecordAck(f, i, k, x, b) \in Acks
  <1>0. f \in [Client -> [Client -> [Client -> Nat]]]
    BY DEF Acks
  <1>1. NewerAck(f[i][k][x], b) \in Nat
    BY <1>0 DEF NewerAck
  <1>2. f[i] \in [Client -> [Client -> Nat]]
    BY <1>0
  <1>3. [f[i] EXCEPT ![k][x] = NewerAck(f[i][k][x], b)] \in [Client -> [Client -> Nat]]
    BY <1>1, <1>2, UpdateTwo
  <1> QED BY <1>0, <1>3 DEF RecordAck, Acks

(* Each step of DoBeat that pulls a message keeps all types but those of the *)
(* counters.                                                                 *)
PulledTypeOK ==
    /\ queued' \in [Client -> [Client -> Nat]]
    /\ pipe' \in [Client -> [Client -> Seq(Nat)]]
    /\ drained' \in [Client -> [Client -> Nat]]
    /\ ack' \in Acks
    /\ ejectPending' \in [Client -> [Client -> BOOLEAN]]
    /\ ejected' \in [Client -> [Client -> BOOLEAN]]
    /\ ejectRequests' \in [Client -> [Client -> [Client -> Nat \cup {NoRequest}]]]
    /\ dispatchedBeat' \in [Client -> Nat]
    /\ link' \in Links
    /\ gone' \subseteq Client
    /\ cuts' \in Nat

LEMMA DoBeatType ==
    ASSUME TypeOK, NEW i \in Client, DoBeat(i)
    PROVE  TypeOK'
  <1>1. ASSUME NEW k \in Client, ReceiveAdvance(i, k) PROVE PulledTypeOK
    <2> DEFINE msg == Head(link[k][i])
               q == queued[i][k] + msg.delta
               ack1 == RecordAck(ack, i, i, k, q)
    <2>1. msg \in Message /\ Pulled(i, k) \in Links
      BY <1>1, PulledType DEF ReceiveAdvance, Pulls
    <2>2. msg.delta \in Nat /\ msg.beat \in Nat
      BY <2>1 DEF Message
    <2>3. /\ queued \in [Client -> [Client -> Nat]]
          /\ ack \in Acks
      BY DEF TypeOK, Acks
    <2>4. q \in Nat
      BY <2>2, <2>3
    <2>5. /\ queued' \in [Client -> [Client -> Nat]]
          /\ pipe' \in [Client -> [Client -> Seq(Nat)]]
      BY <1>1, <2>2, QueueAdvanceType DEF ReceiveAdvance
    <2>6. ack1 \in Acks
      BY <2>3, <2>4, RecordAckType
    <2>7. RecordAck(ack1, i, k, k, msg.beat) \in Acks
      BY <2>2, <2>6, RecordAckType
    <2>8. ack' = RecordAck(ack1, i, k, k, msg.beat)
      BY <1>1 DEF ReceiveAdvance
    <2>9. link' \in Links
      BY <1>1, <2>1, <2>4, BroadcastType, AckMsgType DEF ReceiveAdvance
    <2>10. UNCHANGED <<drained, ejectPending, ejected, ejectRequests, dispatchedBeat, gone, cuts>>
      BY <1>1 DEF ReceiveAdvance, ejectVars, envVars
    <2> QED BY <2>5, <2>7, <2>8, <2>9, <2>10 DEF TypeOK, PulledTypeOK, Acks
  <1>2. ASSUME NEW k \in Client, ReceiveAck(i, k) PROVE PulledTypeOK
    <2> DEFINE msg == Head(link[k][i])
    <2>1. msg \in Message /\ Pulled(i, k) \in Links
      BY <1>2, PulledType DEF ReceiveAck, Pulls
    <2>2. msg.client \in Client /\ msg.beat \in Nat
      BY <2>1 DEF Message
    <2>3. ack \in Acks
      BY DEF TypeOK, Acks
    <2>4. RecordAck(ack, i, k, msg.client, msg.beat) \in Acks
      BY <2>2, <2>3, RecordAckType
    <2>5. ack' = RecordAck(ack, i, k, msg.client, msg.beat)
      BY <1>2 DEF ReceiveAck
    <2>6. UNCHANGED <<queued, pipe, drained, ejectPending, ejected, ejectRequests,
                      dispatchedBeat, gone, cuts>> /\ link' = Pulled(i, k)
      BY <1>2 DEF ReceiveAck, ejectVars, envVars
    <2> QED BY <2>1, <2>4, <2>5, <2>6 DEF TypeOK, PulledTypeOK, Acks
  <1>3. ASSUME NEW k \in Client, ReceiveEject(i, k) PROVE PulledTypeOK
    <2> DEFINE msg == Head(link[k][i])
               request == LowerRequest(ejectRequests[i][msg.client][k], msg.beat)
    <2>1. msg \in Message /\ Pulled(i, k) \in Links
      BY <1>3, PulledType DEF ReceiveEject, Pulls
    <2>2. msg.client \in Client /\ msg.beat \in Nat
      BY <2>1 DEF Message
    <2>3. ejectRequests \in [Client -> [Client -> [Client -> Nat \cup {NoRequest}]]]
      BY DEF TypeOK
    <2>4. request \in Nat \cup {NoRequest}
      BY <2>2, <2>3 DEF LowerRequest
    <2>5. [ejectRequests EXCEPT ![i][msg.client][k] = request]
            \in [Client -> [Client -> [Client -> Nat \cup {NoRequest}]]]
      <3>1. ejectRequests[i] \in [Client -> [Client -> Nat \cup {NoRequest}]]
        BY <2>3
      <3>2. [ejectRequests[i] EXCEPT ![msg.client][k] = request]
              \in [Client -> [Client -> Nat \cup {NoRequest}]]
        BY <2>2, <2>4, <3>1, UpdateTwo
      <3> QED BY <2>3, <3>2
    <2>6. ejectRequests' = [ejectRequests EXCEPT ![i][msg.client][k] = request]
      BY <1>3 DEF ReceiveEject
    <2>7. UNCHANGED <<queued, pipe, drained, ack, ejectPending, ejected,
                      dispatchedBeat, gone, cuts>> /\ link' = Pulled(i, k)
      BY <1>3 DEF ReceiveEject, streamVars, envVars
    <2> QED BY <2>1, <2>5, <2>6, <2>7 DEF TypeOK, PulledTypeOK, Acks
  <1>4. ASSUME NEW k \in Client, ReceiveConnLost(i, k) PROVE PulledTypeOK
    <2>1. /\ Eject(i, k)
          /\ UNCHANGED <<queued, pipe, drained, ack, ejected, dispatchedBeat, gone>>
          /\ cuts' \in Nat
      BY <1>4 DEF ReceiveConnLost, Eject, streamVars, TypeOK
    <2> QED BY <2>1, EjectType DEF TypeOK, PulledTypeOK, Acks
  <1>5. ASSUME PullNothing PROVE PulledTypeOK
    <2>1. UNCHANGED <<queued, pipe, drained, ack, ejectPending, ejected, ejectRequests,
                      dispatchedBeat, link, gone, cuts>>
      BY <1>5 DEF PullNothing, streamVars, ejectVars, envVars
    <2>2. /\ queued' \in [Client -> [Client -> Nat]]
          /\ pipe' \in [Client -> [Client -> Seq(Nat)]]
          /\ drained' \in [Client -> [Client -> Nat]]
          /\ ack' \in Acks
      BY <2>1 DEF TypeOK, Acks
    <2>3. /\ ejectPending' \in [Client -> [Client -> BOOLEAN]]
          /\ ejected' \in [Client -> [Client -> BOOLEAN]]
          /\ ejectRequests' \in [Client -> [Client -> [Client -> Nat \cup {NoRequest}]]]
          /\ dispatchedBeat' \in [Client -> Nat]
          /\ link' \in Links
          /\ gone' \subseteq Client
          /\ cuts' \in Nat
      BY <2>1 DEF TypeOK, Links
    <2> QED BY <2>2, <2>3 DEF PulledTypeOK
  <1>6. PulledTypeOK
    <2>1. CASE \E k \in Client : ReceiveAdvance(i, k)
      BY <2>1, <1>1
    <2>2. CASE \E k \in Client : ReceiveAck(i, k)
      BY <2>2, <1>2
    <2>3. CASE \E k \in Client : ReceiveEject(i, k)
      BY <2>3, <1>3
    <2>4. CASE \E k \in Client : ReceiveConnLost(i, k)
      BY <2>4, <1>4
    <2> QED BY <2>1, <2>2, <2>3, <2>4, <1>5 DEF DoBeat
  <1>7. StepCounters(i)
    BY DEF DoBeat
  <1>8. availableBeat' \in [Client -> Nat] /\ fullyQueuedBeat' \in [Client -> Nat]
    BY <1>6, <1>7, StepCountersType DEF PulledTypeOK
  <1> QED BY <1>6, <1>8 DEF TypeOK, PulledTypeOK, Links, Acks

LEMMA TypeStep == TypeOK /\ [Next]_vars => TypeOK'
  <1> SUFFICES ASSUME TypeOK, [Next]_vars PROVE TypeOK'
    OBVIOUS
  <1>1. ASSUME NEW i \in Client, NEW n \in Advances, Issue(i, n) PROVE TypeOK'
    <2>1. n \in Nat
      BY SessionAssumption
    <2>2. queued \in [Client -> [Client -> Nat]] /\ ack \in Acks
      BY DEF TypeOK, Acks
    <2>3. queued[i][i] + n \in Nat
      BY <2>1, <2>2
    <2>4. link' \in Links
      <3>1. link \in Links /\ AdvanceMsg(i, n, queued[i][i] + n) \in Message
        BY <2>1, <2>3, AdvanceMsgType DEF TypeOK, Links
      <3> QED BY <1>1, <3>1, BroadcastType DEF Issue
    <2>5. /\ queued' \in [Client -> [Client -> Nat]]
          /\ pipe' \in [Client -> [Client -> Seq(Nat)]]
      BY <1>1, <2>1, QueueAdvanceType DEF Issue
    <2>6. ack' \in Acks
      BY <1>1, <2>2, <2>3, RecordAckType DEF Issue
    <2>7. UNCHANGED <<drained, ejectPending, ejected, ejectRequests, availableBeat,
                      fullyQueuedBeat, dispatchedBeat, gone, cuts>>
      BY <1>1 DEF Issue, ejectVars, envVars
    <2> QED BY <2>4, <2>5, <2>6, <2>7 DEF TypeOK, Links, Acks
  <1>2. ASSUME NEW i \in Client, DoBeat(i) PROVE TypeOK'
    BY <1>2, DoBeatType
  <1>3. ASSUME NEW i \in Client, NEW x \in Client, EjectSessionClient(i, x) PROVE TypeOK'
    <2>1. /\ Eject(i, x)
          /\ UNCHANGED <<queued, pipe, drained, ack, ejected, availableBeat,
                         fullyQueuedBeat, dispatchedBeat, gone>>
          /\ cuts' = cuts + 1
      BY <1>3 DEF EjectSessionClient, Eject, streamVars
    <2>2. cuts' \in Nat
      BY <2>1 DEF TypeOK
    <2>3. /\ ejectPending' \in [Client -> [Client -> BOOLEAN]]
          /\ ejectRequests' \in [Client -> [Client -> [Client -> Nat \cup {NoRequest}]]]
          /\ link' \in Links
      BY <2>1, EjectType, Zenon
    <2> QED BY <2>1, <2>2, <2>3, Zenon DEF TypeOK, Links
  <1>4. ASSUME NEW i \in Client, Dispatch(i) PROVE TypeOK'
    <2> DEFINE b == dispatchedBeat[i] + 1
    <2>1. /\ pipe \in [Client -> [Client -> Seq(Nat)]]
          /\ drained \in [Client -> [Client -> Nat]]
          /\ ejected \in [Client -> [Client -> BOOLEAN]]
          /\ dispatchedBeat \in [Client -> Nat]
      BY DEF TypeOK
    <2>2. ASSUME NEW x \in Client, pipe[i][x] # <<>>
          PROVE  Head(pipe[i][x]) \in Nat /\ Tail(pipe[i][x]) \in Seq(Nat)
      <3>1. pipe[i][x] \in Seq(Nat)
        BY <2>1
      <3> QED BY <2>2, <3>1
    <2>3. [x \in Client |-> IF Drains(i, x, b) THEN drained[i][x] + Head(pipe[i][x])
                                               ELSE drained[i][x]] \in [Client -> Nat]
      BY <2>1, <2>2 DEF Drains
    <2>4. [x \in Client |-> IF Drains(i, x, b) THEN Tail(pipe[i][x])
                                               ELSE pipe[i][x]] \in [Client -> Seq(Nat)]
      BY <2>1, <2>2 DEF Drains
    <2>5. [x \in Client |-> ejected[i][x] \/ Terminates(i, x, b)] \in [Client -> BOOLEAN]
      BY Zenon DEF Terminates
    <2>6. drained' \in [Client -> [Client -> Nat]]
      BY <1>4, <2>1, <2>3, Zenon DEF Dispatch
    <2>7. pipe' \in [Client -> [Client -> Seq(Nat)]]
      BY <1>4, <2>1, <2>4, Zenon DEF Dispatch
    <2>8. ejected' \in [Client -> [Client -> BOOLEAN]]
      BY <1>4, <2>1, <2>5, Zenon DEF Dispatch
    <2>9. dispatchedBeat' \in [Client -> Nat]
      BY <1>4, <2>1 DEF Dispatch
    <2>10. UNCHANGED <<queued, ack, ejectPending, ejectRequests, availableBeat,
                       fullyQueuedBeat, link, gone, cuts>>
      BY <1>4 DEF Dispatch, envVars
    <2> QED BY <2>6, <2>7, <2>8, <2>9, <2>10 DEF TypeOK
  <1>5. ASSUME NEW i \in Client, Leave(i) PROVE TypeOK'
    <2>1. link' \in Links
      <3>1. \A k \in Client : [link[k] EXCEPT ![i] = <<>>] \in [Client -> Seq(Message)]
        BY DEF TypeOK
      <3> QED BY <1>5, <3>1 DEF Leave, Links
    <2>2. /\ UNCHANGED <<queued, pipe, drained, ack, ejectPending, ejected, ejectRequests,
                         availableBeat, fullyQueuedBeat, dispatchedBeat, cuts>>
          /\ gone' = gone \cup {i}
      BY <1>5 DEF Leave, streamVars, ejectVars
    <2> QED BY <2>1, <2>2 DEF TypeOK, Links
  <1>6. CASE UNCHANGED vars
    BY <1>6 DEF vars, streamVars, ejectVars, envVars, TypeOK
  <1> QED BY <1>1, <1>2, <1>3, <1>4, <1>5, <1>6 DEF Next

LEMMA TypeInit == Init => TypeOK
  <1> SUFFICES ASSUME Init PROVE TypeOK
    OBVIOUS
  <1>1. <<>> \in Seq(Nat) /\ <<>> \in Seq(Message)
    OBVIOUS
  <1> QED BY <1>1 DEF Init, TypeOK

(* Spec keeps every variable of the lockstep clients of its type.            *)
THEOREM TypeCorrect == Spec => []TypeOK
  BY TypeInit, TypeStep, PTL DEF Spec

(***************************************************************************)
(* The barrier.                                                            *)
(***************************************************************************)

(* What one step does to what players hold and have been told.               *)
HoldingsRise == \A a, y \in Client : queued[a][y] <= queued'[a][y]
AcksRise == \A a, c, y \in Client : ack[a][c][y] <= ack'[a][c][y]
PendingStays == \A a, y \in Client : ejectPending[a][y] => ejectPending'[a][y]

(* Every message on a link after a step was on it before, or is true.        *)
NewMessagesAreTrue ==
    \A a, c \in Client : \A n \in DOMAIN link'[a][c] :
        \/ \E m \in DOMAIN link[a][c] : link'[a][c][n] = link[a][c][m]
        \/ MessageIsTrue(a, link[a][c][n])'

(* A broadcast adds its message to links of its sender and nothing else.     *)
LEMMA BroadcastAdds ==
    ASSUME NEW l \in Links, NEW i \in Client, NEW msg \in Message,
           NEW a \in Client, NEW c \in Client, NEW n \in DOMAIN Broadcast(l, i, msg)[a][c]
    PROVE  \/ n \in DOMAIN l[a][c] /\ Broadcast(l, i, msg)[a][c][n] = l[a][c][n]
           \/ a = i /\ Broadcast(l, i, msg)[a][c][n] = msg
  <1>1. l[a][c] \in Seq(Message)
    BY DEF Links
  <1>2. CASE a = i /\ Reaches(i, c)
    <2>1. Broadcast(l, i, msg)[a][c] = Append(l[a][c], msg)
      BY <1>2 DEF Broadcast
    <2> QED BY <1>1, <1>2, <2>1
  <1>3. CASE ~(a = i /\ Reaches(i, c))
    BY <1>3 DEF Broadcast
  <1> QED BY <1>2, <1>3

(* Pulling a message leaves the later ones.                                  *)
LEMMA PulledKeeps ==
    ASSUME TypeOK, NEW i \in Client, NEW k \in Client, link[k][i] # <<>>,
           NEW a \in Client, NEW c \in Client, NEW n \in DOMAIN Pulled(i, k)[a][c]
    PROVE  \E m \in DOMAIN link[a][c] : Pulled(i, k)[a][c][n] = link[a][c][m]
  <1>1. link \in Links /\ link[k][i] \in Seq(Message)
    BY DEF TypeOK, Links
  <1>2. CASE a = k /\ c = i
    <2>1. Pulled(i, k)[a][c] = Tail(link[k][i])
      BY <1>1, <1>2 DEF Pulled, Links
    <2>2. n + 1 \in DOMAIN link[k][i] /\ Tail(link[k][i])[n] = link[k][i][n + 1]
      BY <1>1, <2>1
    <2> QED BY <1>2, <2>1, <2>2
  <1>3. CASE ~(a = k /\ c = i)
    <2>1. Pulled(i, k)[a][c] = link[a][c]
      BY <1>1, <1>3 DEF Pulled, Links
    <2> QED BY <2>1
  <1> QED BY <1>2, <1>3

(* While what players hold only rises, true messages stay true.              *)
LEMMA MessagesStayTrue ==
    ASSUME TypeOK, TypeOK', MessagesAreTrue, HoldingsRise, NewMessagesAreTrue
    PROVE  MessagesAreTrue'
  <1> SUFFICES ASSUME NEW i \in Client, NEW k \in Client, NEW n \in DOMAIN link'[k][i]
               PROVE  MessageIsTrue(k, link[k][i][n])'
    BY DEF MessagesAreTrue
  <1>1. CASE \E m \in DOMAIN link[k][i] : link'[k][i][n] = link[k][i][m]
    <2>1. PICK m \in DOMAIN link[k][i] : link'[k][i][n] = link[k][i][m]
      BY <1>1
    <2> DEFINE msg == link[k][i][m]
    <2>2. MessageIsTrue(k, msg)
      BY DEF MessagesAreTrue
    <2>3. msg \in Message
      <3>1. link[k][i] \in Seq(Message)
        BY DEF TypeOK
      <3> QED BY <2>1, <3>1
    <2>4. msg.client \in Client /\ msg.beat \in Nat
      BY <2>3 DEF Message
    <2>5. /\ queued[k][msg.client] \in Nat
          /\ queued'[k][msg.client] \in Nat
          /\ queued[k][msg.client] <= queued'[k][msg.client]
      <3>1. queued \in [Client -> [Client -> Nat]] /\ queued' \in [Client -> [Client -> Nat]]
        BY DEF TypeOK
      <3> QED BY <2>4, <3>1 DEF HoldingsRise
    <2> QED BY <2>1, <2>2, <2>4, <2>5 DEF MessageIsTrue
  <1>2. CASE MessageIsTrue(k, link[k][i][n])'
    BY <1>2
  <1> QED BY <1>1, <1>2 DEF NewMessagesAreTrue

(* Recording an ack lowers no entry, and one that changes is the one the ack *)
(* is about and gets its beat.                                               *)
EntryRecorded(f, g, k, x, b) ==
    \A a, c, y \in Client :
        /\ f[a][c][y] <= g[a][c][y]
        /\ \/ g[a][c][y] = f[a][c][y]
           \/ c = k /\ y = x /\ g[a][c][y] = b

LEMMA RecordAckValue ==
    ASSUME NEW f \in Acks, NEW i \in Client, NEW k \in Client, NEW x \in Client, NEW b \in Nat
    PROVE  EntryRecorded(f, RecordAck(f, i, k, x, b), k, x, b)
  <1> DEFINE g == RecordAck(f, i, k, x, b)
  <1> SUFFICES ASSUME NEW a \in Client, NEW c \in Client, NEW y \in Client
               PROVE  /\ f[a][c][y] <= g[a][c][y]
                      /\ \/ g[a][c][y] = f[a][c][y]
                         \/ c = k /\ y = x /\ g[a][c][y] = b
    BY DEF EntryRecorded
  <1>1. f[a][c][y] \in Nat
    BY DEF Acks
  <1>2. CASE a = i /\ c = k /\ y = x
    <2>1. g[a][c][y] = NewerAck(f[a][c][y], b)
      BY <1>2 DEF RecordAck, Acks
    <2>2. f[a][c][y] <= g[a][c][y] /\ g[a][c][y] \in {f[a][c][y], b}
      BY <1>1, <2>1, NewerAckRises
    <2> QED BY <1>2, <2>2
  <1>3. CASE ~(a = i /\ c = k /\ y = x)
    <2>1. g[a][c][y] = f[a][c][y]
      BY <1>3 DEF RecordAck, Acks
    <2> QED BY <1>1, <2>1
  <1> QED BY <1>2, <1>3

(* A stream grows and no other changes.                                      *)
LEMMA QueueAdvanceRises ==
    ASSUME TypeOK, NEW i \in Client, NEW x \in Client, NEW n \in Nat, QueueAdvance(i, x, n)
    PROVE  HoldingsRise /\ queued'[i][x] = queued[i][x] + n
  <1>1. queued \in [Client -> [Client -> Nat]]
    BY DEF TypeOK
  <1>2. queued' = [queued EXCEPT ![i][x] = queued[i][x] + n]
    BY DEF QueueAdvance
  <1>3. queued'[i][x] = queued[i][x] + n
    BY <1>1, <1>2
  <1>4. ASSUME NEW a \in Client, NEW y \in Client PROVE queued[a][y] <= queued'[a][y]
    <2>1. queued[a][y] \in Nat
      BY <1>1
    <2>2. queued'[a][y] = queued[a][y] \/ queued'[a][y] = queued[a][y] + n
      BY <1>1, <1>2
    <2> QED BY <2>1, <2>2
  <1> QED BY <1>3, <1>4 DEF HoldingsRise

(* Where ack entries come from: unchanged, or told by someone who holds it.  *)
AcksComeTrue ==
    \A a, c, y \in Client : ack'[a][c][y] = ack[a][c][y] \/ ack'[a][c][y] <= queued'[c][y]

(* Acks stay true when every new one is and what players hold only rises.    *)
LEMMA AcksStayTrue ==
    ASSUME TypeOK, TypeOK', AcksAreTrue, HoldingsRise, AcksComeTrue
    PROVE  AcksAreTrue'
  <1> SUFFICES ASSUME NEW i \in Client, NEW k \in Client, NEW x \in Client
               PROVE  ack'[i][k][x] <= queued'[k][x]
    BY DEF AcksAreTrue
  <1>1. /\ queued \in [Client -> [Client -> Nat]]
        /\ queued' \in [Client -> [Client -> Nat]]
        /\ ack \in Acks
    BY DEF TypeOK, Acks
  <1>2. ack[i][k][x] <= queued[k][x] /\ queued[k][x] <= queued'[k][x]
    BY DEF AcksAreTrue, HoldingsRise
  <1>3. ack[i][k][x] \in Nat /\ queued[k][x] \in Nat /\ queued'[k][x] \in Nat
    BY <1>1 DEF Acks
  <1>4. ack'[i][k][x] = ack[i][k][x] \/ ack'[i][k][x] <= queued'[k][x]
    BY DEF AcksComeTrue
  <1> QED BY <1>2, <1>3, <1>4

(* All a step has to do for the messages and the acks to stay true.          *)
TruthKept == HoldingsRise /\ AcksRise /\ AcksComeTrue /\ NewMessagesAreTrue

LEMMA IssueKeepsTruth ==
    ASSUME TypeOK, MessagesAreTrue, NEW i \in Client, NEW n \in Nat, Issue(i, n)
    PROVE  TruthKept
  <1> DEFINE q == queued[i][i] + n
             msg == AdvanceMsg(i, n, q)
  <1>1. /\ queued \in [Client -> [Client -> Nat]]
        /\ ack \in Acks
        /\ link \in Links
    BY DEF TypeOK, Links, Acks
  <1>2. q \in Nat /\ msg \in Message
    BY <1>1, AdvanceMsgType
  <1>3. HoldingsRise /\ queued'[i][i] = q
    BY QueueAdvanceRises DEF Issue
  <1>4. ack' = RecordAck(ack, i, i, i, q) /\ ack' \in Acks
    BY <1>1, <1>2, RecordAckType DEF Issue
  <1>5. ASSUME NEW a \in Client, NEW c \in Client, NEW y \in Client
        PROVE  /\ ack[a][c][y] <= ack'[a][c][y]
               /\ ack'[a][c][y] = ack[a][c][y] \/ ack'[a][c][y] <= queued'[c][y]
    <2> DEFINE ack2 == ack'
    <2>0. ack \in Acks /\ q \in Nat
      BY <1>1, <1>2
    <2> HIDE DEF q, ack2
    <2>1. ack2 = RecordAck(ack, i, i, i, q) /\ ack2 \in Acks
      BY <1>4 DEF ack2
    <2>2. EntryRecorded(ack, ack2, i, i, q)
      BY <2>0, <2>1, RecordAckValue
    <2>3. /\ ack[a][c][y] <= ack2[a][c][y]
          /\ \/ ack2[a][c][y] = ack[a][c][y]
             \/ c = i /\ y = i /\ ack2[a][c][y] = q
      BY <2>2 DEF EntryRecorded
    <2> QED BY <1>3, <2>0, <2>3 DEF ack2
  <1>6. AcksRise /\ AcksComeTrue
    BY <1>5 DEF AcksRise, AcksComeTrue
  <1>7. NewMessagesAreTrue
    <2> SUFFICES ASSUME NEW a \in Client, NEW c \in Client, NEW m \in DOMAIN link'[a][c]
                 PROVE  \/ \E o \in DOMAIN link[a][c] : link'[a][c][m] = link[a][c][o]
                        \/ MessageIsTrue(a, link[a][c][m])'
      BY DEF NewMessagesAreTrue
    <2>1. link' = Broadcast(link, i, msg)
      BY DEF Issue
    <2>2. \/ m \in DOMAIN link[a][c] /\ link'[a][c][m] = link[a][c][m]
          \/ a = i /\ link'[a][c][m] = msg
      BY <1>1, <1>2, <2>1, BroadcastAdds
    <2>3. ASSUME a = i, link'[a][c][m] = msg PROVE MessageIsTrue(a, link[a][c][m])'
      BY <1>2, <1>3, <2>3 DEF MessageIsTrue, AdvanceMsg
    <2> QED BY <2>2, <2>3
  <1> QED BY <1>3, <1>6, <1>7 DEF TruthKept

LEMMA ReceiveAdvanceKeepsTruth ==
    ASSUME TypeOK, MessagesAreTrue, NEW i \in Client, NEW k \in Client, ReceiveAdvance(i, k)
    PROVE  TruthKept
  <1> DEFINE msg == Head(link[k][i])
             q == queued[i][k] + msg.delta
             ack1 == RecordAck(ack, i, i, k, q)
  <1>1. /\ queued \in [Client -> [Client -> Nat]]
        /\ ack \in Acks
        /\ link[k][i] \in Seq(Message)
    <2>1. link \in [Client -> [Client -> Seq(Message)]]
      BY DEF TypeOK
    <2>2. /\ queued \in [Client -> [Client -> Nat]]
          /\ ack \in Acks
      BY DEF TypeOK, Acks
    <2> QED BY <2>1, <2>2
  <1>2. /\ i # k
        /\ link[k][i] # <<>>
        /\ msg.op = "Advance"
    BY DEF ReceiveAdvance, Pulls
  <1>3. msg \in Message /\ Pulled(i, k) \in Links
    BY <1>2, PulledType
  <1>4. msg.delta \in Nat /\ msg.beat \in Nat /\ msg.client \in Client
    BY <1>3 DEF Message
  <1>5. q \in Nat
    <2>1. queued[i][k] \in Nat
      BY <1>1
    <2> QED BY <1>4, <2>1
  <1>6. HoldingsRise /\ queued'[i][k] = q
    BY <1>4, QueueAdvanceRises DEF ReceiveAdvance
  <1>7. msg.client = k /\ msg.beat <= queued[k][k]
    <2>1. 1 \in DOMAIN link[k][i] /\ msg = link[k][i][1]
      BY <1>1, <1>2
    <2> QED BY <1>2, <2>1 DEF MessagesAreTrue, MessageIsTrue
  <1>8. msg.beat <= queued'[k][k]
    <2>1. queued[k][k] <= queued'[k][k]
      BY <1>6 DEF HoldingsRise
    <2>2. queued' \in [Client -> [Client -> Nat]]
      BY <1>4, QueueAdvanceType DEF ReceiveAdvance
    <2>3. queued[k][k] \in Nat /\ queued'[k][k] \in Nat
      BY <1>1, <2>2
    <2> QED BY <1>4, <1>7, <2>1, <2>3
  <1>9. ack1 \in Acks
    BY <1>1, <1>5, RecordAckType
  <1>10. ack' = RecordAck(ack1, i, k, k, msg.beat)
    BY DEF ReceiveAdvance
  <1>11. ASSUME NEW a \in Client, NEW c \in Client, NEW y \in Client
         PROVE  /\ ack[a][c][y] <= ack'[a][c][y]
                /\ ack'[a][c][y] = ack[a][c][y] \/ ack'[a][c][y] <= queued'[c][y]
    <2> DEFINE b == msg.beat
               ack2 == ack'
    <2>1. ack \in Acks /\ b \in Nat
      BY <1>1, <1>4
    <2> HIDE DEF q, b
    <2>2. ack1 = RecordAck(ack, i, i, k, q)
      OBVIOUS
    <2> HIDE DEF ack1, ack2
    <2>3. /\ ack[a][c][y] <= ack1[a][c][y]
          /\ \/ ack1[a][c][y] = ack[a][c][y]
             \/ c = i /\ y = k /\ ack1[a][c][y] = q
      <3>1. EntryRecorded(ack, ack1, i, k, q)
        BY <1>5, <2>1, <2>2, RecordAckValue
      <3> QED BY <3>1 DEF EntryRecorded
    <2>4. ack2 = RecordAck(ack1, i, k, k, b) /\ ack2 \in Acks
      <3>1. ack2 = RecordAck(ack1, i, k, k, b)
        BY <1>10 DEF ack2, b
      <3> QED BY <1>9, <2>1, <3>1, RecordAckType
    <2>5. /\ ack1[a][c][y] <= ack2[a][c][y]
          /\ \/ ack2[a][c][y] = ack1[a][c][y]
             \/ c = k /\ y = k /\ ack2[a][c][y] = b
      <3>1. EntryRecorded(ack1, ack2, k, k, b)
        BY <1>9, <2>1, <2>4, RecordAckValue
      <3> QED BY <3>1 DEF EntryRecorded
    <2>6. ack[a][c][y] \in Nat /\ ack1[a][c][y] \in Nat /\ ack2[a][c][y] \in Nat
      BY <1>9, <2>1, <2>4 DEF Acks
    <2>7. b <= queued'[k][k] /\ q = queued'[i][k]
      BY <1>6, <1>8 DEF b
    <2>8. ack[a][c][y] <= ack2[a][c][y]
      BY <2>3, <2>5, <2>6
    <2>9. ack2[a][c][y] = ack[a][c][y] \/ ack2[a][c][y] <= queued'[c][y]
      BY <1>5, <2>1, <2>3, <2>5, <2>6, <2>7
    <2> QED BY <2>8, <2>9 DEF ack2
  <1>12. NewMessagesAreTrue
    <2> SUFFICES ASSUME NEW a \in Client, NEW c \in Client, NEW m \in DOMAIN link'[a][c]
                 PROVE  \/ \E o \in DOMAIN link[a][c] : link'[a][c][m] = link[a][c][o]
                        \/ MessageIsTrue(a, link[a][c][m])'
      BY DEF NewMessagesAreTrue
    <2>1. link' = Broadcast(Pulled(i, k), i, AckMsg(k, q))
      BY DEF ReceiveAdvance
    <2>2. AckMsg(k, q) \in Message
      BY <1>5, AckMsgType
    <2>3. \/ m \in DOMAIN Pulled(i, k)[a][c] /\ link'[a][c][m] = Pulled(i, k)[a][c][m]
          \/ a = i /\ link'[a][c][m] = AckMsg(k, q)
      BY <1>3, <2>1, <2>2, BroadcastAdds
    <2>4. ASSUME m \in DOMAIN Pulled(i, k)[a][c], link'[a][c][m] = Pulled(i, k)[a][c][m]
          PROVE  \E o \in DOMAIN link[a][c] : link'[a][c][m] = link[a][c][o]
      BY <1>2, <2>4, PulledKeeps
    <2>5. ASSUME a = i, link'[a][c][m] = AckMsg(k, q) PROVE MessageIsTrue(a, link[a][c][m])'
      BY <1>5, <1>6, <2>5 DEF MessageIsTrue, AckMsg
    <2> QED BY <2>3, <2>4, <2>5
  <1> QED BY <1>6, <1>11, <1>12 DEF TruthKept, AcksRise, AcksComeTrue

LEMMA ReceiveAckKeepsTruth ==
    ASSUME TypeOK, MessagesAreTrue, NEW i \in Client, NEW k \in Client, ReceiveAck(i, k)
    PROVE  TruthKept
  <1> DEFINE msg == Head(link[k][i])
             b == msg.beat
             y0 == msg.client
             ack2 == ack'
  <1>1. link[k][i] \in Seq(Message) /\ ack \in Acks /\ queued \in [Client -> [Client -> Nat]]
    <2>1. link \in [Client -> [Client -> Seq(Message)]]
      BY DEF TypeOK
    <2>2. ack \in Acks /\ queued \in [Client -> [Client -> Nat]]
      BY DEF TypeOK, Acks
    <2> QED BY <2>1, <2>2
  <1>2. link[k][i] # <<>> /\ msg.op = "Ack" /\ link' = Pulled(i, k) /\ UNCHANGED queued
    BY DEF ReceiveAck, Pulls
  <1>3. msg \in Message
    BY <1>2, PulledType
  <1>4. b \in Nat /\ y0 \in Client
    BY <1>3 DEF Message
  <1>5. b <= queued'[k][y0]
    <2>1. 1 \in DOMAIN link[k][i] /\ msg = link[k][i][1]
      BY <1>1, <1>2
    <2> QED BY <1>2, <2>1 DEF MessagesAreTrue, MessageIsTrue
  <1>6. HoldingsRise
    BY <1>1, <1>2 DEF HoldingsRise
  <1>7. ASSUME NEW a \in Client, NEW c \in Client, NEW y \in Client
        PROVE  /\ ack[a][c][y] <= ack'[a][c][y]
               /\ ack'[a][c][y] = ack[a][c][y] \/ ack'[a][c][y] <= queued'[c][y]
    <2>1. ack2 = RecordAck(ack, i, k, y0, b)
      BY DEF ReceiveAck
    <2> HIDE DEF b, y0, ack2
    <2>2. EntryRecorded(ack, ack2, k, y0, b)
      BY <1>1, <1>4, <2>1, RecordAckValue
    <2>3. /\ ack[a][c][y] <= ack2[a][c][y]
          /\ \/ ack2[a][c][y] = ack[a][c][y]
             \/ c = k /\ y = y0 /\ ack2[a][c][y] = b
      BY <2>2 DEF EntryRecorded
    <2> QED BY <1>5, <2>3 DEF ack2
  <1>8. NewMessagesAreTrue
    BY <1>2, PulledKeeps DEF NewMessagesAreTrue
  <1> QED BY <1>6, <1>7, <1>8 DEF TruthKept, AcksRise, AcksComeTrue

(* A step that neither grows a stream nor records an ack.                    *)
LEMMA NothingToldKeepsTruth ==
    ASSUME TypeOK, UNCHANGED <<queued, ack>>, NewMessagesAreTrue
    PROVE  TruthKept
  <1>1. queued \in [Client -> [Client -> Nat]] /\ ack \in Acks
    BY DEF TypeOK, Acks
  <1>2. HoldingsRise
    BY <1>1 DEF HoldingsRise
  <1>3. AcksRise /\ AcksComeTrue
    BY <1>1 DEF AcksRise, AcksComeTrue, Acks
  <1> QED BY <1>2, <1>3 DEF TruthKept

LEMMA ReceiveEjectKeepsTruth ==
    ASSUME TypeOK, NEW i \in Client, NEW k \in Client, ReceiveEject(i, k)
    PROVE  TruthKept
  <1>1. link[k][i] # <<>> /\ link' = Pulled(i, k) /\ UNCHANGED <<queued, ack>>
    BY DEF ReceiveEject, Pulls, streamVars
  <1>2. NewMessagesAreTrue
    BY <1>1, PulledKeeps DEF NewMessagesAreTrue
  <1> QED BY <1>1, <1>2, NothingToldKeepsTruth

LEMMA EjectKeepsTruth ==
    ASSUME TypeOK, NEW i \in Client, NEW x \in Client, Eject(i, x)
    PROVE  TruthKept
  <1> DEFINE msg == EjectMsg(x, queued[i][x])
             l == Broadcast(link, i, msg)
  <1>1. link \in Links /\ queued[i][x] \in Nat
    BY DEF TypeOK, Links
  <1>2. msg \in Message
    BY <1>1, EjectMsgType
  <1>3. l \in Links
    BY <1>1, <1>2, BroadcastType
  <1>4. link' = [l EXCEPT ![i][x] = link[i][x], ![x][i] = <<>>] /\ UNCHANGED <<queued, ack>>
    BY DEF Eject, LinksAfterEject, streamVars
  <1>5. NewMessagesAreTrue
    <2> SUFFICES ASSUME NEW a \in Client, NEW c \in Client, NEW n \in DOMAIN link'[a][c]
                 PROVE  \/ \E m \in DOMAIN link[a][c] : link'[a][c][n] = link[a][c][m]
                        \/ MessageIsTrue(a, link[a][c][n])'
      BY DEF NewMessagesAreTrue
    <2> HIDE DEF l, msg
    <2>1. link'[a][c] = link[a][c] \/ link'[a][c] = l[a][c] \/ link'[a][c] = <<>>
      BY <1>1, <1>3, <1>4 DEF Links
    <2>2. CASE link'[a][c] = link[a][c]
      BY <2>2
    <2>3. CASE link'[a][c] = <<>>
      BY <2>3
    <2>4. CASE link'[a][c] = l[a][c]
      <3>1. \/ n \in DOMAIN link[a][c] /\ l[a][c][n] = link[a][c][n]
            \/ a = i /\ l[a][c][n] = msg
        BY <1>1, <1>2, <2>4, BroadcastAdds DEF l
      <3>2. ASSUME a = i, link'[a][c][n] = msg PROVE MessageIsTrue(a, link[a][c][n])'
        BY <3>2 DEF MessageIsTrue, msg, EjectMsg
      <3> QED BY <2>4, <3>1, <3>2
    <2> QED BY <2>1, <2>2, <2>3, <2>4
  <1> QED BY <1>4, <1>5, NothingToldKeepsTruth

(* Stepping the counters keeps the barrier: the new available beat is one    *)
(* everyone responsible has acknowledged in the state after the pull.        *)
LEMMA CountersKeepBarrier ==
    ASSUME TypeOK, TypeOK', AvailableIsAcked, AcksRise, PendingStays, EjectedArePending',
           NEW i \in Client, StepCounters(i)
    PROVE  AvailableIsAcked'
  <1> SUFFICES ASSUME NEW j \in Client, NEW k \in Client, NEW x \in Client,
                      ~ejectPending'[j][k], ~ejectPending'[j][x]
               PROVE  availableBeat'[j] <= ack'[j][k][x]
    BY DEF AvailableIsAcked
  <1>1. /\ availableBeat \in [Client -> Nat]
        /\ ack \in Acks
        /\ ack' \in Acks
        /\ queued' \in [Client -> [Client -> Nat]]
    BY DEF TypeOK, Acks
  <1>2. availableBeat[j] <= ack'[j][k][x]
    <2>1. availableBeat[j] <= ack[j][k][x] /\ ack[j][k][x] <= ack'[j][k][x]
      BY DEF AvailableIsAcked, PendingStays, AcksRise
    <2>2. availableBeat[j] \in Nat /\ ack[j][k][x] \in Nat /\ ack'[j][k][x] \in Nat
      BY <1>1 DEF Acks
    <2> QED BY <2>1, <2>2
  <1>3. PICK b \in availableBeat[i] .. queued'[i][i] :
             /\ \A d \in availableBeat[i] + 1 .. b : EveryoneResponsiveSince(i, d)'
             /\ availableBeat' = [availableBeat EXCEPT ![i] = b]
    BY DEF StepCounters
  <1>4. availableBeat[i] \in Nat /\ queued'[i][i] \in Nat
    BY <1>1
  <1>5. b \in Nat /\ availableBeat[i] <= b
    BY <1>4
  <1>6. CASE j # i \/ b = availableBeat[i]
    BY <1>1, <1>2, <1>3, <1>6
  <1>7. CASE j = i /\ b # availableBeat[i]
    <2>1. b \in availableBeat[i] + 1 .. b
      BY <1>4, <1>5, <1>7
    <2>2. EveryoneResponsiveSince(i, b)'
      BY <1>3, <2>1
    <2>3. ~ejected'[i][k] /\ ~ejected'[i][x]
      BY <1>7 DEF EjectedArePending
    <2>4. ack'[i][k][x] >= b
      BY <1>7, <2>2, <2>3 DEF EveryoneResponsiveSince, IsReadyForBeat
    <2>5. availableBeat'[j] = b
      BY <1>1, <1>3, <1>7
    <2>6. ack'[i][k][x] \in Nat
      BY <1>1 DEF Acks
    <2> QED BY <1>5, <1>7, <2>4, <2>5, <2>6
  <1> QED BY <1>6, <1>7

(* A step that leaves the available beats alone keeps the barrier.           *)
LEMMA SameBeatsKeepBarrier ==
    ASSUME TypeOK, TypeOK', AvailableIsAcked, AcksRise, PendingStays, UNCHANGED availableBeat
    PROVE  AvailableIsAcked'
  <1> SUFFICES ASSUME NEW j \in Client, NEW k \in Client, NEW x \in Client,
                      ~ejectPending'[j][k], ~ejectPending'[j][x]
               PROVE  availableBeat[j] <= ack'[j][k][x]
    BY DEF AvailableIsAcked
  <1>1. /\ availableBeat \in [Client -> Nat]
        /\ ack \in Acks
        /\ ack' \in Acks
    BY DEF TypeOK, Acks
  <1>2. availableBeat[j] <= ack[j][k][x] /\ ack[j][k][x] <= ack'[j][k][x]
    BY DEF AvailableIsAcked, PendingStays, AcksRise
  <1>3. availableBeat[j] \in Nat /\ ack[j][k][x] \in Nat /\ ack'[j][k][x] \in Nat
    BY <1>1 DEF Acks
  <1> QED BY <1>2, <1>3

(* An ejection only adds to the pending ones.                                *)
LEMMA EjectPendingStays ==
    ASSUME TypeOK, NEW i \in Client, NEW x \in Client, Eject(i, x)
    PROVE  PendingStays /\ UNCHANGED ejected
  <1>1. ejectPending \in [Client -> [Client -> BOOLEAN]]
    BY DEF TypeOK
  <1> QED BY <1>1 DEF Eject, PendingStays

(* What every pull of DoBeat does.                                           *)
LEMMA PullKeepsTruth ==
    ASSUME TypeOK, MessagesAreTrue, NEW i \in Client, DoBeat(i)
    PROVE  TruthKept /\ PendingStays /\ UNCHANGED ejected
  <1>1. ASSUME NEW k \in Client, ReceiveAdvance(i, k)
        PROVE  TruthKept /\ PendingStays /\ UNCHANGED ejected
    <2>1. UNCHANGED <<ejectPending, ejected>>
      BY <1>1 DEF ReceiveAdvance, ejectVars
    <2> QED BY <1>1, <2>1, ReceiveAdvanceKeepsTruth DEF PendingStays
  <1>2. ASSUME NEW k \in Client, ReceiveAck(i, k)
        PROVE  TruthKept /\ PendingStays /\ UNCHANGED ejected
    <2>1. UNCHANGED <<ejectPending, ejected>>
      BY <1>2 DEF ReceiveAck, ejectVars
    <2> QED BY <1>2, <2>1, ReceiveAckKeepsTruth DEF PendingStays
  <1>3. ASSUME NEW k \in Client, ReceiveEject(i, k)
        PROVE  TruthKept /\ PendingStays /\ UNCHANGED ejected
    <2>1. UNCHANGED <<ejectPending, ejected>>
      BY <1>3 DEF ReceiveEject
    <2> QED BY <1>3, <2>1, ReceiveEjectKeepsTruth DEF PendingStays
  <1>4. ASSUME NEW k \in Client, ReceiveConnLost(i, k)
        PROVE  TruthKept /\ PendingStays /\ UNCHANGED ejected
    BY <1>4, EjectKeepsTruth, EjectPendingStays DEF ReceiveConnLost
  <1>5. ASSUME PullNothing
        PROVE  TruthKept /\ PendingStays /\ UNCHANGED ejected
    <2>1. UNCHANGED <<queued, ack, link, ejectPending, ejected>>
      BY <1>5 DEF PullNothing, streamVars, ejectVars
    <2>2. NewMessagesAreTrue
      BY <2>1 DEF NewMessagesAreTrue
    <2> QED BY <2>1, <2>2, NothingToldKeepsTruth DEF PendingStays
  <1> QED
    <2>1. CASE \E k \in Client : ReceiveAdvance(i, k)
      BY <2>1, <1>1
    <2>2. CASE \E k \in Client : ReceiveAck(i, k)
      BY <2>2, <1>2
    <2>3. CASE \E k \in Client : ReceiveEject(i, k)
      BY <2>3, <1>3
    <2>4. CASE \E k \in Client : ReceiveConnLost(i, k)
      BY <2>4, <1>4
    <2> QED BY <2>1, <2>2, <2>3, <2>4, <1>5 DEF DoBeat

LEMMA BarrierStep == BarrierInv /\ [Next]_vars => BarrierInv'
  <1> SUFFICES ASSUME BarrierInv, [Next]_vars PROVE BarrierInv'
    OBVIOUS
  <1> USE DEF BarrierInv
  <1>0. TypeOK'
    BY TypeStep
  <1>1. ASSUME TruthKept, PendingStays, EjectedArePending', AvailableIsAcked'
        PROVE  BarrierInv'
    BY <1>0, <1>1, MessagesStayTrue, AcksStayTrue DEF TruthKept
  <1>2. ASSUME TruthKept, PendingStays, UNCHANGED ejected
        PROVE  EjectedArePending'
    BY <1>2 DEF EjectedArePending, PendingStays
  <1>3. ASSUME NEW i \in Client, NEW n \in Advances, Issue(i, n) PROVE BarrierInv'
    <2>1. UNCHANGED <<ejectPending, ejected, availableBeat>>
      BY <1>3 DEF Issue, ejectVars
    <2>2. TruthKept
      BY <1>3, IssueKeepsTruth, SessionAssumption
    <2>3. PendingStays
      BY <2>1 DEF PendingStays
    <2>4. AvailableIsAcked'
      BY <1>0, <2>1, <2>2, <2>3, SameBeatsKeepBarrier DEF TruthKept
    <2> QED BY <1>1, <1>2, <2>1, <2>2, <2>3, <2>4
  <1>4. ASSUME NEW i \in Client, DoBeat(i) PROVE BarrierInv'
    <2>1. TruthKept /\ PendingStays /\ UNCHANGED ejected
      BY <1>4, PullKeepsTruth
    <2>2. EjectedArePending'
      BY <1>2, <2>1
    <2>3. StepCounters(i)
      BY <1>4 DEF DoBeat
    <2>4. AvailableIsAcked'
      BY <1>0, <2>1, <2>2, <2>3, CountersKeepBarrier DEF TruthKept
    <2> QED BY <1>1, <2>1, <2>2, <2>4
  <1>5. ASSUME NEW i \in Client, NEW x \in Client, EjectSessionClient(i, x) PROVE BarrierInv'
    <2>1. Eject(i, x) /\ UNCHANGED availableBeat
      BY <1>5 DEF EjectSessionClient
    <2>2. TruthKept /\ PendingStays /\ UNCHANGED ejected
      BY <2>1, EjectKeepsTruth, EjectPendingStays
    <2>3. AvailableIsAcked'
      BY <1>0, <2>1, <2>2, SameBeatsKeepBarrier DEF TruthKept
    <2> QED BY <1>1, <1>2, <2>2, <2>3
  <1>6. ASSUME NEW i \in Client, Dispatch(i) PROVE BarrierInv'
    <2>1. UNCHANGED <<queued, ack, link, ejectPending, availableBeat>>
      BY <1>6 DEF Dispatch
    <2>2. NewMessagesAreTrue /\ PendingStays
      BY <2>1 DEF NewMessagesAreTrue, PendingStays
    <2>3. TruthKept
      BY <2>1, <2>2, NothingToldKeepsTruth
    <2>4. AvailableIsAcked'
      BY <1>0, <2>1, <2>2, <2>3, SameBeatsKeepBarrier DEF TruthKept
    <2>5. EjectedArePending'
      <3>1. ejected \in [Client -> [Client -> BOOLEAN]]
        BY DEF TypeOK
      <3>2. \A a, y \in Client : ejected'[a][y] => ejected[a][y] \/ ejectPending[a][y]
        BY <1>6, <3>1 DEF Dispatch, Terminates
      <3> QED BY <2>1, <3>2 DEF EjectedArePending
    <2> QED BY <1>1, <2>2, <2>3, <2>4, <2>5
  <1>7. ASSUME NEW i \in Client, Leave(i) PROVE BarrierInv'
    <2>1. /\ UNCHANGED <<queued, ack, ejectPending, ejected, availableBeat>>
          /\ link' = [k \in Client |-> [link[k] EXCEPT ![i] = <<>>]]
      BY <1>7 DEF Leave, streamVars, ejectVars
    <2>2. NewMessagesAreTrue
      <3>1. link \in Links
        BY DEF TypeOK, Links
      <3>2. \A a, c \in Client : link'[a][c] = link[a][c] \/ link'[a][c] = <<>>
        BY <2>1, <3>1 DEF Links
      <3> QED BY <3>2 DEF NewMessagesAreTrue
    <2>3. TruthKept /\ PendingStays
      BY <2>1, <2>2, NothingToldKeepsTruth DEF PendingStays
    <2>4. AvailableIsAcked'
      BY <1>0, <2>1, <2>3, SameBeatsKeepBarrier DEF TruthKept
    <2> QED BY <1>1, <1>2, <2>1, <2>3, <2>4
  <1>8. CASE UNCHANGED vars
    BY <1>8 DEF vars, streamVars, ejectVars, envVars, TypeOK, MessagesAreTrue, MessageIsTrue,
                AcksAreTrue, EjectedArePending, AvailableIsAcked
  <1> QED BY <1>3, <1>4, <1>5, <1>6, <1>7, <1>8 DEF Next

LEMMA BarrierInit == Init => BarrierInv
  <1> SUFFICES ASSUME Init PROVE BarrierInv
    OBVIOUS
  <1>1. TypeOK
    BY TypeInit
  <1>2. MessagesAreTrue
    BY DEF Init, MessagesAreTrue
  <1>3. AcksAreTrue /\ EjectedArePending /\ AvailableIsAcked
    BY DEF Init, AcksAreTrue, EjectedArePending, AvailableIsAcked
  <1> QED BY <1>1, <1>2, <1>3 DEF BarrierInv

LEMMA BarrierInvariant == Spec => []BarrierInv
  BY BarrierInit, BarrierStep, PTL DEF Spec

(* What a player has been told another holds of a stream, the other holds:   *)
(* the acks CClientBase records are never ahead of the truth, for any number *)
(* of players, links lost and players gone.                                  *)
THEOREM AcksTrue == Spec => []AcksAreTrue
  <1>1. BarrierInv => AcksAreTrue
    BY DEF BarrierInv
  <1> QED BY <1>1, BarrierInvariant, PTL

(* A beat becomes available only when everyone the player has not ejected    *)
(* holds it, of every stream not ejected: what it knows of them               *)
(* (AvailableIsAcked) is enough, because what it knows is true.              *)
THEOREM BarrierHolds == Spec => []BeatBarrier
  <1>1. BarrierInv => BeatBarrier
    <2> SUFFICES ASSUME BarrierInv, NEW i \in Client, NEW k \in Client, NEW x \in Client,
                        ~ejectPending[i][k], ~ejectPending[i][x]
                 PROVE  availableBeat[i] <= queued[k][x]
      BY DEF BeatBarrier
    <2>1. availableBeat[i] <= ack[i][k][x] /\ ack[i][k][x] <= queued[k][x]
      BY DEF BarrierInv, AvailableIsAcked, AcksAreTrue
    <2>2. availableBeat[i] \in Nat /\ ack[i][k][x] \in Nat /\ queued[k][x] \in Nat
      BY DEF BarrierInv, TypeOK
    <2> QED BY <2>1, <2>2
  <1> QED BY <1>1, BarrierInvariant, PTL

(***************************************************************************)
(* The two counters of the manager.                                        *)
(***************************************************************************)

(* No player closes a link to itself.                                        *)
NeverEjectsItself == \A i \in Client : ~ejectPending[i][i]

(* An acknowledged beat is a queued one: while the counters step, a beat     *)
(* everyone has acknowledged passes the test for fully queued beats.         *)
LEMMA ResponsiveIsQueued ==
    ASSUME BarrierInv', NeverEjectsItself', NEW i \in Client, NEW b \in Nat,
           EveryoneResponsiveSince(i, b)'
    PROVE  FullyQueuedUntil(i, b)'
  <1> SUFFICES ASSUME NEW x \in Client, ~ejected'[i][x], ~ejectPending'[i][x]
               PROVE  b <= queued'[i][x]
    BY DEF FullyQueuedUntil
  <1>1. ~ejectPending'[i][i] /\ ~ejected'[i][i]
    BY DEF BarrierInv, NeverEjectsItself, EjectedArePending
  <1>2. ack'[i][i][x] >= b
    BY <1>1 DEF EveryoneResponsiveSince, IsReadyForBeat
  <1>3. ack'[i][i][x] <= queued'[i][x]
    BY DEF BarrierInv, AcksAreTrue
  <1>4. queued'[i][x] \in Nat /\ ack'[i][i][x] \in Nat
    BY DEF BarrierInv, TypeOK
  <1> QED BY <1>2, <1>3, <1>4

LEMMA CountersKeepOrder ==
    ASSUME BarrierInv, BarrierInv', NeverEjectsItself', AvailableIsFullyQueued,
           NEW i \in Client, StepCounters(i)
    PROVE  AvailableIsFullyQueued'
  <1>1. /\ availableBeat \in [Client -> Nat]
        /\ fullyQueuedBeat \in [Client -> Nat]
        /\ queued' \in [Client -> [Client -> Nat]]
    BY DEF BarrierInv, TypeOK
  <1>2. PICK f \in fullyQueuedBeat[i] .. queued'[i][i] :
             /\ ~FullyQueuedUntil(i, f + 1)'
             /\ fullyQueuedBeat' = [fullyQueuedBeat EXCEPT ![i] = f]
    BY DEF StepCounters
  <1>3. PICK a \in availableBeat[i] .. queued'[i][i] :
             /\ \A b \in availableBeat[i] + 1 .. a : EveryoneResponsiveSince(i, b)'
             /\ availableBeat' = [availableBeat EXCEPT ![i] = a]
    BY DEF StepCounters
  <1>4. /\ availableBeat[i] \in Nat
        /\ fullyQueuedBeat[i] \in Nat
        /\ queued'[i][i] \in Nat
        /\ availableBeat[i] <= fullyQueuedBeat[i]
    BY <1>1 DEF AvailableIsFullyQueued
  <1>5. a \in Nat /\ f \in Nat /\ f + 1 \in Nat /\ availableBeat[i] <= f
    BY <1>4
  <1>6. a <= f
    <2> SUFFICES ASSUME ~(a <= f) PROVE FALSE
      OBVIOUS
    <2>1. f + 1 \in availableBeat[i] + 1 .. a
      BY <1>4, <1>5
    <2>2. EveryoneResponsiveSince(i, f + 1)'
      BY <1>3, <2>1
    <2>3. FullyQueuedUntil(i, f + 1)'
      BY <1>5, <2>2, ResponsiveIsQueued
    <2> QED BY <1>2, <2>3
  <1> QED BY <1>1, <1>2, <1>3, <1>6 DEF AvailableIsFullyQueued

CountersInv == BarrierInv /\ NeverEjectsItself /\ AvailableIsFullyQueued

LEMMA EjectSparesItself ==
    ASSUME TypeOK, NeverEjectsItself, NEW i \in Client, NEW x \in Client, Eject(i, x)
    PROVE  NeverEjectsItself'
  <1>1. ejectPending \in [Client -> [Client -> BOOLEAN]]
    BY DEF TypeOK
  <1> QED BY <1>1 DEF Eject, NeverEjectsItself

LEMMA CountersStep == CountersInv /\ [Next]_vars => CountersInv'
  <1> SUFFICES ASSUME CountersInv, [Next]_vars PROVE CountersInv'
    OBVIOUS
  <1> USE DEF CountersInv
  <1>0. TypeOK /\ BarrierInv'
    BY BarrierStep DEF BarrierInv
  <1>1. ASSUME UNCHANGED <<ejectPending, availableBeat, fullyQueuedBeat>>
        PROVE  NeverEjectsItself' /\ AvailableIsFullyQueued'
    BY <1>1 DEF NeverEjectsItself, AvailableIsFullyQueued
  <1>2. ASSUME NEW i \in Client, DoBeat(i)
        PROVE  NeverEjectsItself' /\ AvailableIsFullyQueued'
    <2>1. ASSUME \E k \in Client : ReceiveConnLost(i, k)
          PROVE  NeverEjectsItself'
      BY <1>0, <2>1, EjectSparesItself DEF ReceiveConnLost
    <2>2. ASSUME \E k \in Client : ReceiveAdvance(i, k) \/ ReceiveAck(i, k) \/ ReceiveEject(i, k)
          PROVE  NeverEjectsItself'
      BY <2>2 DEF ReceiveAdvance, ReceiveAck, ReceiveEject, ejectVars, NeverEjectsItself
    <2>3. ASSUME PullNothing
          PROVE  NeverEjectsItself'
      BY <2>3 DEF PullNothing, ejectVars, NeverEjectsItself
    <2>4. NeverEjectsItself'
      BY <1>2, <2>1, <2>2, <2>3 DEF DoBeat
    <2>5. StepCounters(i)
      BY <1>2 DEF DoBeat
    <2> QED BY <1>0, <2>4, <2>5, CountersKeepOrder
  <1>3. ASSUME NEW i \in Client, NEW x \in Client, EjectSessionClient(i, x)
        PROVE  NeverEjectsItself' /\ AvailableIsFullyQueued'
    <2>1. Eject(i, x) /\ UNCHANGED <<availableBeat, fullyQueuedBeat>>
      BY <1>3 DEF EjectSessionClient
    <2> QED BY <1>0, <2>1, EjectSparesItself DEF AvailableIsFullyQueued
  <1>4. ASSUME NEW i \in Client, NEW n \in Advances, Issue(i, n)
        PROVE  NeverEjectsItself' /\ AvailableIsFullyQueued'
    BY <1>1, <1>4 DEF Issue, ejectVars
  <1>5. ASSUME NEW i \in Client, Dispatch(i)
        PROVE  NeverEjectsItself' /\ AvailableIsFullyQueued'
    BY <1>1, <1>5 DEF Dispatch
  <1>6. ASSUME NEW i \in Client, Leave(i)
        PROVE  NeverEjectsItself' /\ AvailableIsFullyQueued'
    BY <1>1, <1>6 DEF Leave, ejectVars
  <1>7. CASE UNCHANGED vars
    BY <1>0, <1>1, <1>7 DEF vars, ejectVars
  <1> QED BY <1>0, <1>2, <1>3, <1>4, <1>5, <1>6, <1>7 DEF Next

LEMMA CountersInit == Init => CountersInv
  BY BarrierInit DEF Init, CountersInv, NeverEjectsItself, AvailableIsFullyQueued

(* The beats available never pass the beats fully queued, so                 *)
(* GetBottleneckInfo names the right cause: a beat everyone acknowledged     *)
(* includes this player's own ack, which is true of what it has queued.      *)
THEOREM CountersInOrder == Spec => []AvailableIsFullyQueued
  <1>1. CountersInv => AvailableIsFullyQueued
    BY DEF CountersInv
  <1> QED BY <1>1, CountersInit, CountersStep, PTL DEF Spec

(***************************************************************************)
(* The say of the ejected.                                                 *)
(***************************************************************************)

(* Nobody files a request for an ejected player again: its link is closed,   *)
(* and a player files its own requests under itself, whom it never ejects.   *)
LEMMA EjectSilences ==
    ASSUME TypeOK, NeverEjectsItself, EjectedHaveNoSay,
           NEW i \in Client, NEW x \in Client, Eject(i, x)
    PROVE  EjectedHaveNoSay'
  <1>1. /\ ejectPending \in [Client -> [Client -> BOOLEAN]]
        /\ ejectRequests \in [Client -> [Client -> [Client -> Nat \cup {NoRequest}]]]
    BY DEF TypeOK
  <1>2. /\ ejectPending' = [ejectPending EXCEPT ![i][x] = TRUE]
        /\ ejectRequests' = [ejectRequests EXCEPT ![i] = RequestsAfterEject(i, x)]
    BY DEF Eject
  <1> SUFFICES ASSUME NEW a \in Client, NEW z \in Client, NEW y \in Client,
                      ejectPending'[a][z]
               PROVE  ejectRequests'[a][y][z] = NoRequest
    BY DEF EjectedHaveNoSay
  <1>3. CASE a # i
    BY <1>1, <1>2, <1>3 DEF EjectedHaveNoSay
  <1>4. CASE a = i /\ z = x
    BY <1>1, <1>2, <1>4 DEF RequestsAfterEject
  <1>5. CASE a = i /\ z # x
    <2>1. ejectPending[i][z] /\ z # i
      BY <1>1, <1>2, <1>5 DEF NeverEjectsItself
    <2>2. ejectRequests[i][y][z] = NoRequest
      BY <2>1 DEF EjectedHaveNoSay
    <2> QED BY <1>1, <1>2, <1>5, <2>1, <2>2 DEF RequestsAfterEject
  <1> QED BY <1>3, <1>4, <1>5

SayInv == CountersInv /\ EjectedHaveNoSay

LEMMA SayStep == SayInv /\ [Next]_vars => SayInv'
  <1> SUFFICES ASSUME SayInv, [Next]_vars PROVE SayInv'
    OBVIOUS
  <1>0. /\ CountersInv' /\ EjectedHaveNoSay /\ TypeOK /\ NeverEjectsItself
    BY CountersStep DEF SayInv, CountersInv, BarrierInv
  <1>1. ASSUME UNCHANGED <<ejectPending, ejectRequests>>
        PROVE  EjectedHaveNoSay'
    BY <1>0, <1>1 DEF EjectedHaveNoSay
  <1>2. ASSUME NEW i \in Client, DoBeat(i)
        PROVE  EjectedHaveNoSay'
    <2>1. ASSUME NEW k \in Client, ReceiveEject(i, k)
          PROVE  EjectedHaveNoSay'
      <3>1. ejectRequests \in [Client -> [Client -> [Client -> Nat \cup {NoRequest}]]]
        BY <1>0 DEF TypeOK
      <3>2. ~ejectPending[i][k] /\ UNCHANGED ejectPending
        BY <2>1 DEF ReceiveEject, Pulls
      <3>3. \A a, y, z \in Client :
                a # i \/ z # k => ejectRequests'[a][y][z] = ejectRequests[a][y][z]
        BY <2>1, <3>1 DEF ReceiveEject
      <3> QED BY <1>0, <3>2, <3>3 DEF EjectedHaveNoSay
    <2>2. ASSUME NEW k \in Client, ReceiveAdvance(i, k) \/ ReceiveAck(i, k)
          PROVE  EjectedHaveNoSay'
      BY <1>1, <2>2 DEF ReceiveAdvance, ReceiveAck, ejectVars
    <2>3. ASSUME NEW k \in Client, ReceiveConnLost(i, k)
          PROVE  EjectedHaveNoSay'
      BY <1>0, <2>3, EjectSilences DEF ReceiveConnLost
    <2>4. ASSUME PullNothing
          PROVE  EjectedHaveNoSay'
      BY <1>1, <2>4 DEF PullNothing, ejectVars
    <2> QED BY <1>2, <2>1, <2>2, <2>3, <2>4 DEF DoBeat
  <1>3. ASSUME NEW i \in Client, NEW x \in Client, EjectSessionClient(i, x)
        PROVE  EjectedHaveNoSay'
    BY <1>0, <1>3, EjectSilences DEF EjectSessionClient
  <1>4. ASSUME NEW i \in Client, NEW n \in Advances, Issue(i, n)
        PROVE  EjectedHaveNoSay'
    BY <1>1, <1>4 DEF Issue, ejectVars
  <1>5. ASSUME NEW i \in Client, Dispatch(i)
        PROVE  EjectedHaveNoSay'
    BY <1>1, <1>5 DEF Dispatch
  <1>6. ASSUME NEW i \in Client, Leave(i)
        PROVE  EjectedHaveNoSay'
    BY <1>1, <1>6 DEF Leave, ejectVars
  <1>7. CASE UNCHANGED vars
    BY <1>0, <1>1, <1>7 DEF vars, ejectVars, SayInv
  <1> QED BY <1>0, <1>2, <1>3, <1>4, <1>5, <1>6, <1>7 DEF Next, SayInv

(* An ejected player's requests are gone from every list and none comes      *)
(* back, also about players that are ejected after it: CClientBase::Eject    *)
(* forgets them and CNetClient reads nothing more from a closed link.        *)
THEOREM EjectedSilent == Spec => []EjectedHaveNoSay
  <1>1. Init => SayInv
    BY CountersInit DEF Init, SayInv, EjectedHaveNoSay
  <1>2. SayInv => EjectedHaveNoSay
    BY DEF SayInv
  <1> QED BY <1>1, <1>2, SayStep, PTL DEF Spec

(***************************************************************************)
(* The sim never finds a client's pipe empty before the beat it was told   *)
(* to run.                                                                 *)
(***************************************************************************)

(* p is a pipe that leads from beat d to beat q: level[n] is the beat its    *)
(* first n advances reach, and each of them is at least one beat long.       *)
Leads(p, d, q) ==
    /\ \A n \in 1 .. Len(p) : p[n] >= 1
    /\ \E level \in [0 .. Len(p) -> Nat] :
         /\ level[0] = d
         /\ level[Len(p)] = q
         /\ \A n \in 1 .. Len(p) : level[n] = level[n - 1] + p[n]

PipesLead == \A i, x \in Client : Leads(pipe[i][x], drained[i][x], queued[i][x])

(* An advance on its way is at least one beat long.                          *)
Grows(msg) == msg.op = "Advance" => msg.delta >= 1

AllGrow(l) == \A a, c \in Client : \A n \in DOMAIN l[a][c] : Grows(l[a][c][n])

DispatchedIsAvailable == \A i \in Client : dispatchedBeat[i] <= availableBeat[i]

(* The inductive invariant.                                                  *)
StreamInv ==
    /\ CountersInv
    /\ DispatchedIsAvailable
    /\ AllGrow(link)
    /\ PipesLead
    /\ StreamsKeepUp

(***************************************************************************)
(* Pipes.                                                                  *)
(***************************************************************************)

(* An empty pipe leads nowhere.                                              *)
LEMMA EmptyLeads ==
    ASSUME NEW p \in Seq(Nat), NEW d \in Nat, NEW q \in Nat, Leads(p, d, q), p = <<>>
    PROVE  d = q
  <1>1. Len(p) = 0
    OBVIOUS
  <1> QED BY <1>1 DEF Leads

(* A pipe that gains an advance leads as many beats further.                 *)
LEMMA AppendLeads ==
    ASSUME NEW p \in Seq(Nat), NEW d \in Nat, NEW q \in Nat, NEW n \in Nat,
           Leads(p, d, q), n >= 1
    PROVE  Leads(Append(p, n), d, q + n)
  <1> DEFINE len == Len(p)
             p2 == Append(p, n)
  <1>1. PICK level \in [0 .. len -> Nat] :
             /\ level[0] = d
             /\ level[len] = q
             /\ \A m \in 1 .. len : level[m] = level[m - 1] + p[m]
    BY DEF Leads
  <1> DEFINE level2 == [m \in 0 .. len + 1 |-> IF m <= len THEN level[m] ELSE q + n]
  <1>2. /\ len \in Nat
        /\ Len(p2) = len + 1
        /\ p2[len + 1] = n
        /\ \A m \in 1 .. len : p2[m] = p[m] /\ p[m] \in Nat
    OBVIOUS
  <1>3. \A m \in 1 .. len + 1 : m \in 1 .. len \/ m = len + 1
    BY <1>2
  <1>4. \A m \in 1 .. len + 1 : p2[m] >= 1
    BY <1>2, <1>3 DEF Leads
  <1>5. level2 \in [0 .. len + 1 -> Nat]
    BY <1>1, <1>2
  <1>6. level2[0] = d /\ level2[len] = q /\ level2[len + 1] = q + n
    BY <1>1, <1>2
  <1>7. ASSUME NEW m \in 1 .. len + 1 PROVE level2[m] = level2[m - 1] + p2[m]
    <2>1. CASE m \in 1 .. len
      <3>1. m \in 0 .. len + 1 /\ m - 1 \in 0 .. len + 1 /\ m <= len /\ m - 1 <= len
        BY <1>2, <2>1
      <3>2. level2[m] = level[m] /\ level2[m - 1] = level[m - 1]
        BY <3>1
      <3> QED BY <1>1, <1>2, <2>1, <3>2
    <2>2. CASE m = len + 1
      <3>1. m - 1 = len
        BY <1>2, <2>2
      <3> QED BY <1>2, <1>6, <2>2, <3>1
    <2> QED BY <1>3, <2>1, <2>2
  <1> HIDE DEF level2, p2
  <1> QED BY <1>2, <1>4, <1>5, <1>6, <1>7 DEF Leads, p2

(* A pipe that is drained of an advance leads from as many beats further.    *)
LEMMA TailLeads ==
    ASSUME NEW p \in Seq(Nat), NEW d \in Nat, NEW q \in Nat, Leads(p, d, q), p # <<>>
    PROVE  Leads(Tail(p), d + Head(p), q) /\ Head(p) >= 1
  <1> DEFINE len == Len(p)
             p2 == Tail(p)
  <1>1. PICK level \in [0 .. len -> Nat] :
             /\ level[0] = d
             /\ level[len] = q
             /\ \A m \in 1 .. len : level[m] = level[m - 1] + p[m]
    BY DEF Leads
  <1> DEFINE level2 == [m \in 0 .. len - 1 |-> level[m + 1]]
  <1>2. /\ len \in Nat
        /\ len >= 1
        /\ Len(p2) = len - 1
        /\ Head(p) = p[1]
        /\ \A m \in 1 .. len - 1 : p2[m] = p[m + 1] /\ m + 1 \in 1 .. len
    OBVIOUS
  <1>3. 1 \in 1 .. len /\ 0 \in 0 .. len - 1 /\ len - 1 \in 0 .. len - 1
    BY <1>2
  <1>4. Head(p) >= 1 /\ \A m \in 1 .. len - 1 : p2[m] >= 1
    BY <1>2, <1>3 DEF Leads
  <1>5. level2 \in [0 .. len - 1 -> Nat]
    BY <1>1, <1>2
  <1>6. level2[0] = d + Head(p)
    <2>1. level2[0] = level[1]
      BY <1>3
    <2>2. level[1] = level[0] + p[1]
      BY <1>1, <1>3
    <2> QED BY <1>1, <1>2, <2>1, <2>2
  <1>7. level2[len - 1] = q
    <2>1. len - 1 + 1 = len
      BY <1>2
    <2> QED BY <1>1, <1>3, <2>1
  <1>8. ASSUME NEW m \in 1 .. len - 1 PROVE level2[m] = level2[m - 1] + p2[m]
    <2>1. /\ m \in 0 .. len - 1
          /\ m - 1 \in 0 .. len - 1
          /\ m - 1 + 1 = m
          /\ m + 1 - 1 = m
          /\ m + 1 \in 1 .. len
      BY <1>2
    <2>2. level2[m] = level[m + 1] /\ level2[m - 1] = level[m]
      BY <2>1
    <2>3. level[m + 1] = level[m] + p[m + 1]
      BY <1>1, <2>1
    <2> QED BY <1>2, <2>2, <2>3
  <1> HIDE DEF level2, p2
  <1> QED BY <1>2, <1>4, <1>5, <1>6, <1>7, <1>8 DEF Leads, p2

(***************************************************************************)
(* Links.                                                                  *)
(***************************************************************************)

LEMMA BroadcastGrows ==
    ASSUME NEW l \in Links, NEW i \in Client, NEW msg \in Message, AllGrow(l), Grows(msg)
    PROVE  AllGrow(Broadcast(l, i, msg))
  <1> DEFINE l2 == Broadcast(l, i, msg)
  <1> SUFFICES ASSUME NEW a \in Client, NEW c \in Client, NEW n \in DOMAIN l2[a][c]
               PROVE  Grows(l2[a][c][n])
    BY DEF AllGrow
  <1>1. \/ n \in DOMAIN l[a][c] /\ l2[a][c][n] = l[a][c][n]
        \/ a = i /\ l2[a][c][n] = msg
    BY BroadcastAdds
  <1> HIDE DEF l2
  <1> QED BY <1>1 DEF AllGrow

LEMMA PulledGrows ==
    ASSUME TypeOK, AllGrow(link), NEW i \in Client, NEW k \in Client, link[k][i] # <<>>
    PROVE  AllGrow(Pulled(i, k)) /\ Grows(Head(link[k][i]))
  <1>1. AllGrow(Pulled(i, k))
    <2> SUFFICES ASSUME NEW a \in Client, NEW c \in Client, NEW n \in DOMAIN Pulled(i, k)[a][c]
                 PROVE  Grows(Pulled(i, k)[a][c][n])
      BY DEF AllGrow
    <2>1. PICK m \in DOMAIN link[a][c] : Pulled(i, k)[a][c][n] = link[a][c][m]
      BY PulledKeeps
    <2> QED BY <2>1 DEF AllGrow
  <1>2. Grows(Head(link[k][i]))
    <2>1. link[k][i] \in Seq(Message)
      BY DEF TypeOK
    <2>2. 1 \in DOMAIN link[k][i] /\ Head(link[k][i]) = link[k][i][1]
      BY <2>1
    <2> QED BY <2>2 DEF AllGrow
  <1> QED BY <1>1, <1>2

LEMMA EjectGrows ==
    ASSUME TypeOK, AllGrow(link), NEW i \in Client, NEW x \in Client, Eject(i, x)
    PROVE  AllGrow(link)'
  <1> DEFINE msg == EjectMsg(x, queued[i][x])
             l == Broadcast(link, i, msg)
  <1>1. link \in Links /\ queued[i][x] \in Nat
    BY DEF TypeOK, Links
  <1>2. msg \in Message /\ Grows(msg)
    BY <1>1, EjectMsgType DEF EjectMsg, Grows
  <1>3. l \in Links /\ AllGrow(l)
    BY <1>1, <1>2, BroadcastType, BroadcastGrows
  <1>4. link' = [l EXCEPT ![i][x] = link[i][x], ![x][i] = <<>>]
    BY DEF Eject, LinksAfterEject
  <1> HIDE DEF l, msg
  <1> SUFFICES ASSUME NEW a \in Client, NEW c \in Client, NEW n \in DOMAIN link'[a][c]
               PROVE  Grows(link'[a][c][n])
    BY DEF AllGrow
  <1>5. link'[a][c] = link[a][c] \/ link'[a][c] = l[a][c] \/ link'[a][c] = <<>>
    BY <1>1, <1>3, <1>4 DEF Links
  <1>6. CASE link'[a][c] = <<>>
    BY <1>6
  <1>7. CASE link'[a][c] = link[a][c] \/ link'[a][c] = l[a][c]
    BY <1>3, <1>7 DEF AllGrow
  <1> QED BY <1>5, <1>6, <1>7

(***************************************************************************)
(* The steps.                                                              *)
(***************************************************************************)

(* A stream that grows keeps its pipe leading to the beats queued.           *)
LEMMA QueueAdvanceLeads ==
    ASSUME TypeOK, PipesLead, NEW i \in Client, NEW x \in Client, NEW n \in Nat, n >= 1,
           QueueAdvance(i, x, n), UNCHANGED drained
    PROVE  PipesLead'
  <1>1. /\ queued \in [Client -> [Client -> Nat]]
        /\ pipe \in [Client -> [Client -> Seq(Nat)]]
        /\ drained \in [Client -> [Client -> Nat]]
    BY DEF TypeOK
  <1> SUFFICES ASSUME NEW a \in Client, NEW y \in Client
               PROVE  Leads(pipe'[a][y], drained[a][y], queued'[a][y])
    BY DEF PipesLead
  <1>2. /\ pipe[a][y] \in Seq(Nat)
        /\ drained[a][y] \in Nat
        /\ queued[a][y] \in Nat
        /\ Leads(pipe[a][y], drained[a][y], queued[a][y])
    BY <1>1 DEF PipesLead
  <1>3. CASE a = i /\ y = x
    <2>1. pipe'[a][y] = Append(pipe[a][y], n) /\ queued'[a][y] = queued[a][y] + n
      BY <1>1, <1>3 DEF QueueAdvance
    <2> QED BY <1>2, <2>1, AppendLeads
  <1>4. CASE ~(a = i /\ y = x)
    <2>1. pipe'[a][y] = pipe[a][y] /\ queued'[a][y] = queued[a][y]
      BY <1>1, <1>4 DEF QueueAdvance
    <2> QED BY <1>2, <2>1
  <1> QED BY <1>3, <1>4

(* What every step but a dispatch leaves as it was.                          *)
StreamsStay == UNCHANGED <<drained, ejected, dispatchedBeat>>

StreamsFlow == StreamsStay /\ PipesLead' /\ AllGrow(link)'

LEMMA IssueFlows ==
    ASSUME StreamInv, NEW i \in Client, NEW n \in Advances, Issue(i, n)
    PROVE  StreamsFlow
  <1> DEFINE msg == AdvanceMsg(i, n, queued[i][i] + n)
  <1>1. n \in Nat /\ n >= 1
    BY SessionAssumption
  <1>2. TypeOK /\ link \in Links /\ queued[i][i] + n \in Nat
    BY <1>1 DEF StreamInv, CountersInv, BarrierInv, TypeOK, Links
  <1>3. StreamsStay
    BY DEF Issue, ejectVars, StreamsStay
  <1>4. PipesLead'
    BY <1>1, <1>2, <1>3, QueueAdvanceLeads DEF Issue, StreamInv, StreamsStay
  <1>5. msg \in Message /\ Grows(msg)
    BY <1>1, <1>2, AdvanceMsgType DEF AdvanceMsg, Grows
  <1>6. AllGrow(Broadcast(link, i, msg))
    BY <1>2, <1>5, BroadcastGrows DEF StreamInv
  <1> QED BY <1>3, <1>4, <1>6 DEF Issue, StreamsFlow

LEMMA ReceiveAdvanceFlows ==
    ASSUME StreamInv, NEW i \in Client, NEW k \in Client, ReceiveAdvance(i, k)
    PROVE  StreamsFlow
  <1> DEFINE msg == Head(link[k][i])
             q == queued[i][k] + msg.delta
  <1>1. /\ TypeOK
        /\ AllGrow(link)
        /\ PipesLead
        /\ link[k][i] # <<>>
        /\ msg.op = "Advance"
    BY DEF StreamInv, CountersInv, BarrierInv, ReceiveAdvance, Pulls
  <1>2. msg \in Message /\ Pulled(i, k) \in Links
    BY <1>1, PulledType
  <1>3. msg.delta \in Nat
    BY <1>2 DEF Message
  <1>4. AllGrow(Pulled(i, k)) /\ msg.delta >= 1
    BY <1>1, PulledGrows DEF Grows
  <1>5. StreamsStay
    BY DEF ReceiveAdvance, ejectVars, StreamsStay
  <1>6. PipesLead'
    BY <1>1, <1>3, <1>4, <1>5, QueueAdvanceLeads DEF ReceiveAdvance, StreamsStay
  <1>7. q \in Nat
    <2>1. queued[i][k] \in Nat
      BY <1>1 DEF TypeOK
    <2> QED BY <1>3, <2>1
  <1>8. AckMsg(k, q) \in Message /\ Grows(AckMsg(k, q))
    BY <1>7, AckMsgType DEF AckMsg, Grows
  <1>9. AllGrow(Broadcast(Pulled(i, k), i, AckMsg(k, q)))
    BY <1>2, <1>4, <1>8, BroadcastGrows
  <1>10. link' = Broadcast(Pulled(i, k), i, AckMsg(k, q))
    BY DEF ReceiveAdvance
  <1> QED BY <1>5, <1>6, <1>9, <1>10 DEF StreamsFlow

LEMMA EjectFlows ==
    ASSUME StreamInv, NEW i \in Client, NEW x \in Client, Eject(i, x)
    PROVE  StreamsFlow
  <1>1. TypeOK /\ AllGrow(link) /\ PipesLead
    BY DEF StreamInv, CountersInv, BarrierInv
  <1>2. UNCHANGED <<queued, pipe, drained, ejected, dispatchedBeat>>
    BY DEF Eject, streamVars
  <1>3. AllGrow(link)'
    BY <1>1, EjectGrows
  <1> QED BY <1>1, <1>2, <1>3 DEF PipesLead, StreamsFlow, StreamsStay

LEMMA PullFlows ==
    ASSUME StreamInv, NEW i \in Client, DoBeat(i)
    PROVE  StreamsFlow
  <1>1. TypeOK /\ AllGrow(link) /\ PipesLead
    BY DEF StreamInv, CountersInv, BarrierInv
  <1>2. ASSUME NEW k \in Client, ReceiveAck(i, k) \/ ReceiveEject(i, k)
        PROVE  StreamsFlow
    <2>1. /\ link[k][i] # <<>>
          /\ link' = Pulled(i, k)
          /\ UNCHANGED <<queued, pipe, drained, ejected, dispatchedBeat>>
      BY <1>2 DEF ReceiveAck, ReceiveEject, Pulls, streamVars, ejectVars
    <2>2. AllGrow(link)'
      BY <1>1, <2>1, PulledGrows
    <2> QED BY <1>1, <2>1, <2>2 DEF PipesLead, StreamsFlow, StreamsStay
  <1>3. ASSUME PullNothing
        PROVE  StreamsFlow
    BY <1>1, <1>3 DEF PullNothing, streamVars, ejectVars, AllGrow, PipesLead, StreamsFlow,
                      StreamsStay
  <1>4. ASSUME NEW k \in Client, ReceiveConnLost(i, k)
        PROVE  StreamsFlow
    BY <1>4, EjectFlows DEF ReceiveConnLost
  <1>5. ASSUME NEW k \in Client, ReceiveAdvance(i, k)
        PROVE  StreamsFlow
    BY <1>5, ReceiveAdvanceFlows
  <1> QED BY <1>2, <1>3, <1>4, <1>5 DEF DoBeat

(* The beats available only rise.                                            *)
LEMMA AvailableRises ==
    ASSUME TypeOK, queued' \in [Client -> [Client -> Nat]], DispatchedIsAvailable,
           NEW i \in Client, StepCounters(i), UNCHANGED dispatchedBeat
    PROVE  DispatchedIsAvailable'
  <1>1. /\ availableBeat \in [Client -> Nat]
        /\ dispatchedBeat \in [Client -> Nat]
    BY DEF TypeOK
  <1>2. PICK a \in availableBeat[i] .. queued'[i][i] :
             availableBeat' = [availableBeat EXCEPT ![i] = a]
    BY DEF StepCounters
  <1>3. availableBeat[i] \in Nat /\ queued'[i][i] \in Nat
    BY <1>1
  <1>4. a \in Nat /\ availableBeat[i] <= a
    BY <1>3
  <1> SUFFICES ASSUME NEW j \in Client PROVE dispatchedBeat[j] <= availableBeat'[j]
    BY DEF DispatchedIsAvailable
  <1>5. dispatchedBeat[j] <= availableBeat[j] /\ dispatchedBeat[j] \in Nat
    BY <1>1 DEF DispatchedIsAvailable
  <1>6. CASE j = i
    BY <1>1, <1>2, <1>3, <1>4, <1>5, <1>6
  <1>7. CASE j # i
    BY <1>1, <1>2, <1>5, <1>7
  <1> QED BY <1>6, <1>7

(* What Dispatch does to one stream: it is past the beat, or it ends, or its *)
(* next advance is drained, which is never missing.                          *)
LEMMA DispatchAdvances ==
    ASSUME StreamInv, NEW i \in Client, NEW x \in Client, Dispatch(i)
    PROVE  /\ ejected'[i][x] \/ dispatchedBeat[i] + 1 <= drained'[i][x]
           /\ Leads(pipe'[i][x], drained'[i][x], queued[i][x])
  <1> DEFINE b == dispatchedBeat[i] + 1
             d == drained[i][x]
             p == pipe[i][x]
             q == queued[i][x]
  <1>1. /\ BarrierInv
        /\ NeverEjectsItself
        /\ TypeOK
        /\ PipesLead
        /\ StreamsKeepUp
    BY DEF StreamInv, CountersInv, BarrierInv
  <1>2. /\ queued \in [Client -> [Client -> Nat]]
        /\ pipe \in [Client -> [Client -> Seq(Nat)]]
        /\ drained \in [Client -> [Client -> Nat]]
        /\ ejected \in [Client -> [Client -> BOOLEAN]]
        /\ availableBeat \in [Client -> Nat]
        /\ dispatchedBeat \in [Client -> Nat]
        /\ ack \in Acks
    BY <1>1 DEF TypeOK, Acks
  <1>3. /\ p \in Seq(Nat)
        /\ d \in Nat
        /\ q \in Nat
        /\ b \in Nat
        /\ dispatchedBeat[i] \in Nat
        /\ Leads(p, d, q)
    BY <1>1, <1>2 DEF PipesLead
  <1>4. b <= availableBeat[i]
    BY DEF Dispatch
  <1>5. ejected'[i][x] = (ejected[i][x] \/ Terminates(i, x, b))
    BY <1>2 DEF Dispatch
  <1>6. drained'[i][x] = IF Drains(i, x, b) THEN d + Head(p) ELSE d
    BY <1>2 DEF Dispatch
  <1>7. pipe'[i][x] = IF Drains(i, x, b) THEN Tail(p) ELSE p
    BY <1>2 DEF Dispatch
  <1>8. CASE Drains(i, x, b)
    <2>1. p # <<>> /\ ~ejected[i][x]
      BY <1>8 DEF Drains
    <2>2. Leads(Tail(p), d + Head(p), q) /\ Head(p) >= 1
      BY <1>3, <2>1, TailLeads
    <2>3. dispatchedBeat[i] <= d
      BY <1>1, <2>1 DEF StreamsKeepUp
    <2>4. Head(p) \in Nat
      BY <1>3, <2>1
    <2>5. b <= d + Head(p)
      BY <1>3, <2>2, <2>3, <2>4
    <2> QED BY <1>6, <1>7, <1>8, <2>2, <2>5
  <1>9. CASE ~Drains(i, x, b)
    <2>1. ASSUME ~ejected[i][x], ~Terminates(i, x, b), ~(b <= d)
          PROVE  FALSE
      <3>1. d < b
        BY <1>3, <2>1
      <3>2. d < q
        <4>1. CASE ejectPending[i][x]
          BY <2>1, <3>1, <4>1 DEF Terminates, BeforeEject
        <4>2. CASE ~ejectPending[i][x]
          <5>1. /\ availableBeat[i] <= ack[i][i][x]
                /\ ack[i][i][x] <= q
            BY <1>1, <4>2 DEF BarrierInv, NeverEjectsItself, AvailableIsAcked, AcksAreTrue
          <5>2. availableBeat[i] \in Nat /\ ack[i][i][x] \in Nat
            BY <1>2 DEF Acks
          <5> QED BY <1>3, <1>4, <3>1, <5>1, <5>2
        <4> QED BY <4>1, <4>2
      <3>3. p # <<>>
        BY <1>3, <3>2, EmptyLeads
      <3>4. ejectPending[i][x] => BeforeEject(i, x, d)
        BY <2>1, <3>1 DEF Terminates
      <3> QED BY <1>9, <2>1, <3>1, <3>3, <3>4 DEF Drains
    <2>2. ejected'[i][x] \/ b <= d
      BY <1>5, <2>1
    <2> QED BY <1>3, <1>6, <1>7, <1>9, <2>2
  <1> QED BY <1>8, <1>9

LEMMA DispatchFlows ==
    ASSUME StreamInv, NEW i \in Client, Dispatch(i)
    PROVE  DispatchedIsAvailable' /\ AllGrow(link)' /\ PipesLead' /\ StreamsKeepUp'
  <1>1. /\ pipe \in [Client -> [Client -> Seq(Nat)]]
        /\ drained \in [Client -> [Client -> Nat]]
        /\ ejected \in [Client -> [Client -> BOOLEAN]]
        /\ dispatchedBeat \in [Client -> Nat]
    BY DEF StreamInv, CountersInv, BarrierInv, TypeOK
  <1>2. UNCHANGED <<queued, availableBeat, link>>
    BY DEF Dispatch
  <1>3. \A a, x \in Client : a # i => /\ pipe'[a][x] = pipe[a][x]
                                     /\ drained'[a][x] = drained[a][x]
                                     /\ ejected'[a][x] = ejected[a][x]
    BY <1>1 DEF Dispatch
  <1>4. /\ dispatchedBeat'[i] = dispatchedBeat[i] + 1
        /\ \A a \in Client : a # i => dispatchedBeat'[a] = dispatchedBeat[a]
        /\ dispatchedBeat[i] + 1 <= availableBeat[i]
    BY <1>1 DEF Dispatch
  <1>5. DispatchedIsAvailable'
    BY <1>2, <1>4 DEF DispatchedIsAvailable, StreamInv
  <1>6. AllGrow(link)'
    BY <1>2 DEF AllGrow, StreamInv
  <1>7. ASSUME NEW a \in Client, NEW x \in Client
        PROVE  /\ Leads(pipe'[a][x], drained'[a][x], queued'[a][x])
               /\ ejected'[a][x] \/ dispatchedBeat'[a] <= drained'[a][x]
    <2>1. CASE a = i
      BY <1>2, <1>4, <2>1, DispatchAdvances
    <2>2. CASE a # i
      <3>1. /\ Leads(pipe[a][x], drained[a][x], queued[a][x])
            /\ ejected[a][x] \/ dispatchedBeat[a] <= drained[a][x]
        BY DEF StreamInv, PipesLead, StreamsKeepUp
      <3> QED BY <1>2, <1>3, <1>4, <2>2, <3>1
    <2> QED BY <2>1, <2>2
  <1> QED BY <1>5, <1>6, <1>7 DEF PipesLead, StreamsKeepUp

LEMMA StreamStep == StreamInv /\ [Next]_vars => StreamInv'
  <1> SUFFICES ASSUME StreamInv, [Next]_vars PROVE StreamInv'
    OBVIOUS
  <1>1. CountersInv' /\ TypeOK'
    BY CountersStep DEF StreamInv, CountersInv, BarrierInv
  <1>2. TypeOK
    BY DEF StreamInv, CountersInv, BarrierInv
  <1>3. ASSUME StreamsFlow, DispatchedIsAvailable'
        PROVE  StreamInv'
    BY <1>1, <1>3 DEF StreamsFlow, StreamsStay, StreamInv, StreamsKeepUp
  <1>4. ASSUME StreamsFlow, UNCHANGED availableBeat
        PROVE  StreamInv'
    BY <1>3, <1>4 DEF StreamsFlow, StreamsStay, StreamInv, DispatchedIsAvailable
  <1>5. ASSUME NEW i \in Client, NEW n \in Advances, Issue(i, n)
        PROVE  StreamInv'
    <2>1. UNCHANGED availableBeat
      BY <1>5 DEF Issue
    <2> QED BY <1>4, <1>5, <2>1, IssueFlows
  <1>6. ASSUME NEW i \in Client, DoBeat(i)
        PROVE  StreamInv'
    <2>1. StreamsFlow
      BY <1>6, PullFlows
    <2>2. queued' \in [Client -> [Client -> Nat]]
      BY <1>1 DEF TypeOK
    <2>3. StepCounters(i) /\ UNCHANGED dispatchedBeat /\ DispatchedIsAvailable
      BY <1>6, <2>1 DEF DoBeat, StreamsFlow, StreamsStay, StreamInv
    <2>4. DispatchedIsAvailable'
      BY <1>2, <2>2, <2>3, AvailableRises
    <2> QED BY <1>3, <2>1, <2>4
  <1>7. ASSUME NEW i \in Client, NEW x \in Client, EjectSessionClient(i, x)
        PROVE  StreamInv'
    BY <1>4, <1>7, EjectFlows DEF EjectSessionClient
  <1>8. ASSUME NEW i \in Client, Dispatch(i)
        PROVE  StreamInv'
    BY <1>1, <1>8, DispatchFlows DEF StreamInv
  <1>9. ASSUME NEW i \in Client, Leave(i)
        PROVE  StreamInv'
    <2>1. /\ UNCHANGED <<queued, pipe, drained, ejected, availableBeat, dispatchedBeat>>
          /\ link' = [k \in Client |-> [link[k] EXCEPT ![i] = <<>>]]
      BY <1>9 DEF Leave, streamVars, ejectVars
    <2>2. AllGrow(link)'
      <3>1. link \in Links
        BY <1>2 DEF TypeOK, Links
      <3>2. \A a, c \in Client : link'[a][c] = link[a][c] \/ link'[a][c] = <<>>
        BY <2>1, <3>1 DEF Links
      <3> QED BY <3>2 DEF AllGrow, StreamInv
    <2>3. StreamsFlow
      BY <2>1, <2>2 DEF StreamsFlow, StreamsStay, PipesLead, StreamInv
    <2> QED BY <1>4, <2>1, <2>3
  <1>10. CASE UNCHANGED vars
    <2>1. StreamsFlow /\ UNCHANGED availableBeat
      BY <1>10 DEF vars, streamVars, ejectVars, StreamsFlow, StreamsStay, PipesLead, AllGrow,
                   StreamInv
    <2> QED BY <1>4, <2>1
  <1> QED BY <1>5, <1>6, <1>7, <1>8, <1>9, <1>10 DEF Next

LEMMA StreamInit == Init => StreamInv
  <1> SUFFICES ASSUME Init PROVE StreamInv
    OBVIOUS
  <1>1. CountersInv
    BY CountersInit
  <1>2. DispatchedIsAvailable /\ AllGrow(link) /\ StreamsKeepUp
    BY DEF Init, DispatchedIsAvailable, AllGrow, StreamsKeepUp
  <1>3. Leads(<<>>, 0, 0)
    <2> DEFINE level == [n \in 0 .. 0 |-> 0]
    <2>1. level \in [0 .. Len(<<>>) -> Nat] /\ level[0] = 0
      OBVIOUS
    <2>2. 1 .. Len(<<>>) = {}
      OBVIOUS
    <2> HIDE DEF level
    <2> QED BY <2>1, <2>2 DEF Leads
  <1>4. PipesLead
    BY <1>3 DEF Init, PipesLead
  <1> QED BY <1>1, <1>2, <1>4 DEF StreamInv

(* A stream that has not ended is drained through every beat the sim has     *)
(* dispatched, so UpdateState never finds mPipe empty before its beat: an    *)
(* available beat is one the player has itself acknowledged, and what is     *)
(* queued and not drained is in the pipe, also of a player that is ejected.  *)
THEOREM StreamsNeverStarve == Spec => []StreamsKeepUp
  <1>1. StreamInv => StreamsKeepUp
    BY DEF StreamInv
  <1> QED BY <1>1, StreamInit, StreamStep, PTL DEF Spec

-----------------------------------------------------------------------------
(* The turn barrier, and one departure.                                      *)

(* The beats a message adds to its sender's stream.                          *)
Beats(msg) == IF msg.op = "Advance" THEN msg.delta ELSE 0

(* Whoever holds from beats of the sender's stream never holds more than     *)
(* bound while it pulls l: level[n] is what it holds after n messages.       *)
Carries(l, from, bound) ==
    \E level \in [0 .. Len(l) -> Nat] :
       /\ level[0] = from
       /\ \A n \in 0 .. Len(l) : level[n] <= bound
       /\ \A n \in 1 .. Len(l) : level[n] = level[n - 1] + Beats(l[n])

(* No link carries beats its sender has not queued itself.                   *)
LinksCarry ==
    \A i, k \in Client : i # k => Carries(link[k][i], queued[i][k], queued[k][k])

RefinementInv == StreamInv /\ LinksCarry

(***************************************************************************)
(* Links.                                                                  *)
(***************************************************************************)

LEMMA BeatsType == ASSUME NEW msg \in Message PROVE Beats(msg) \in Nat
  BY DEF Beats, Message

(* A link that was emptied carries nothing.                                  *)
LEMMA EmptyCarries ==
    ASSUME NEW l \in Seq(Message), NEW from \in Nat, NEW bound \in Nat,
           Carries(l, from, bound)
    PROVE  Carries(<<>>, from, bound)
  <1> DEFINE level2 == [n \in 0 .. 0 |-> from]
  <1>1. PICK level \in [0 .. Len(l) -> Nat] :
             level[0] = from /\ \A n \in 0 .. Len(l) : level[n] <= bound
    BY DEF Carries
  <1>2. from <= bound
    <2>1. 0 \in 0 .. Len(l)
      OBVIOUS
    <2> QED BY <1>1, <2>1
  <1>3. Len(<<>>) = 0 /\ 1 .. 0 = {} /\ 0 .. 0 = {0}
    OBVIOUS
  <1>4. level2 \in [0 .. 0 -> Nat] /\ level2[0] = from
    BY <1>3
  <1> HIDE DEF level2
  <1> QED BY <1>2, <1>3, <1>4 DEF Carries

(* A link may carry less than its sender has queued.                         *)
LEMMA MoreCarries ==
    ASSUME NEW l \in Seq(Message), NEW from \in Nat, NEW bound \in Nat, NEW more \in Nat,
           Carries(l, from, bound), bound <= more
    PROVE  Carries(l, from, more)
  <1>1. PICK level \in [0 .. Len(l) -> Nat] :
             /\ level[0] = from
             /\ \A n \in 0 .. Len(l) : level[n] <= bound
             /\ \A n \in 1 .. Len(l) : level[n] = level[n - 1] + Beats(l[n])
    BY DEF Carries
  <1>2. \A n \in 0 .. Len(l) : level[n] <= more
    BY <1>1
  <1> QED BY <1>1, <1>2 DEF Carries

(* A sender may write a message about beats it has queued.                   *)
LEMMA AppendCarries ==
    ASSUME NEW l \in Seq(Message), NEW from \in Nat, NEW bound \in Nat, NEW more \in Nat,
           NEW msg \in Message, Carries(l, from, bound), bound + Beats(msg) <= more
    PROVE  Carries(Append(l, msg), from, more)
  <1> DEFINE len == Len(l)
             l2 == Append(l, msg)
             beats == Beats(msg)
  <1>1. PICK level \in [0 .. len -> Nat] :
             /\ level[0] = from
             /\ \A n \in 0 .. len : level[n] <= bound
             /\ \A n \in 1 .. len : level[n] = level[n - 1] + Beats(l[n])
    BY DEF Carries
  <1>2. /\ len \in Nat
        /\ Len(l2) = len + 1
        /\ l2[len + 1] = msg
        /\ \A n \in 1 .. len : l2[n] = l[n]
    OBVIOUS
  <1>3. beats \in Nat
    BY BeatsType
  <1> HIDE DEF beats
  <1> DEFINE level2 == [n \in 0 .. len + 1 |-> IF n <= len THEN level[n] ELSE level[len] + beats]
  <1>4. len \in 0 .. len /\ level[len] \in Nat /\ level[len] <= bound
    BY <1>1, <1>2
  <1>5. level2 \in [0 .. len + 1 -> Nat]
    BY <1>1, <1>2, <1>3, <1>4
  <1>6. /\ level2[0] = from
        /\ level2[len + 1] = level[len] + beats
        /\ \A n \in 0 .. len : level2[n] = level[n]
    BY <1>1, <1>2
  <1>7. ASSUME NEW n \in 0 .. len + 1 PROVE level2[n] <= more
    <2>1. bound <= more /\ level[len] + beats <= more
      BY <1>3, <1>4 DEF beats
    <2>2. CASE n \in 0 .. len
      <3>1. level2[n] = level[n] /\ level[n] <= bound /\ level[n] \in Nat
        BY <1>1, <1>6, <2>2
      <3> QED BY <2>1, <3>1
    <2>3. CASE n = len + 1
      BY <1>6, <2>1, <2>3
    <2> QED BY <1>2, <2>2, <2>3
  <1>8. ASSUME NEW n \in 1 .. len + 1 PROVE level2[n] = level2[n - 1] + Beats(l2[n])
    <2>1. CASE n \in 1 .. len
      <3>1. n \in 0 .. len /\ n - 1 \in 0 .. len
        BY <1>2, <2>1
      <3>2. level2[n] = level[n] /\ level2[n - 1] = level[n - 1]
        BY <1>6, <3>1
      <3> QED BY <1>1, <1>2, <2>1, <3>2
    <2>2. CASE n = len + 1
      <3>1. n - 1 = len
        BY <1>2, <2>2
      <3> QED BY <1>2, <1>4, <1>6, <2>2, <3>1 DEF beats
    <2> QED BY <1>2, <2>1, <2>2
  <1> HIDE DEF level2, l2
  <1> QED BY <1>2, <1>5, <1>6, <1>7, <1>8 DEF Carries, l2

(* Who pulls a message holds its beats, and never more than the sender.      *)
LEMMA TailCarries ==
    ASSUME NEW l \in Seq(Message), NEW from \in Nat, NEW bound \in Nat,
           Carries(l, from, bound), l # <<>>
    PROVE  /\ from + Beats(Head(l)) <= bound
           /\ Carries(Tail(l), from + Beats(Head(l)), bound)
  <1> DEFINE len == Len(l)
             l2 == Tail(l)
  <1>1. PICK level \in [0 .. len -> Nat] :
             /\ level[0] = from
             /\ \A n \in 0 .. len : level[n] <= bound
             /\ \A n \in 1 .. len : level[n] = level[n - 1] + Beats(l[n])
    BY DEF Carries
  <1> DEFINE level2 == [n \in 0 .. len - 1 |-> level[n + 1]]
  <1>2. /\ len \in Nat
        /\ len >= 1
        /\ Len(l2) = len - 1
        /\ Head(l) = l[1]
        /\ \A n \in 1 .. len - 1 : l2[n] = l[n + 1] /\ n + 1 \in 1 .. len
    OBVIOUS
  <1>3. 1 \in 1 .. len /\ 1 \in 0 .. len /\ 0 \in 0 .. len - 1
    BY <1>2
  <1>4. level[1] = from + Beats(Head(l)) /\ level[1] <= bound
    <2>1. level[1] = level[0] + Beats(l[1])
      BY <1>1, <1>3
    <2> QED BY <1>1, <1>2, <1>3, <2>1
  <1>5. level2 \in [0 .. len - 1 -> Nat]
    BY <1>1, <1>2
  <1>6. level2[0] = from + Beats(Head(l))
    BY <1>3, <1>4
  <1>7. \A n \in 0 .. len - 1 : level2[n] <= bound
    <2> SUFFICES ASSUME NEW n \in 0 .. len - 1 PROVE level2[n] <= bound
      OBVIOUS
    <2>1. n + 1 \in 0 .. len
      BY <1>2
    <2> QED BY <1>1, <2>1
  <1>8. ASSUME NEW n \in 1 .. len - 1 PROVE level2[n] = level2[n - 1] + Beats(l2[n])
    <2>1. /\ n \in 0 .. len - 1
          /\ n - 1 \in 0 .. len - 1
          /\ n - 1 + 1 = n
          /\ n + 1 - 1 = n
          /\ n + 1 \in 1 .. len
      BY <1>2
    <2>2. level2[n] = level[n + 1] /\ level2[n - 1] = level[n]
      BY <2>1
    <2>3. level[n + 1] = level[n] + Beats(l[n + 1])
      BY <1>1, <2>1
    <2> QED BY <1>2, <2>2, <2>3
  <1> HIDE DEF level2, l2
  <1> QED BY <1>2, <1>4, <1>5, <1>6, <1>7, <1>8 DEF Carries, l2

(***************************************************************************)
(* The steps keep LinksCarry.                                              *)
(***************************************************************************)

(* What LinksCarry says of one link, with its types.                         *)
LEMMA LinkOf ==
    ASSUME TypeOK, LinksCarry, NEW i \in Client, NEW k \in Client, i # k
    PROVE  /\ link[k][i] \in Seq(Message)
           /\ queued[i][k] \in Nat
           /\ queued[k][k] \in Nat
           /\ Carries(link[k][i], queued[i][k], queued[k][k])
  BY DEF TypeOK, LinksCarry

(* A step after which every link is as it was, or empty.                     *)
LEMMA LinksShrink ==
    ASSUME TypeOK, LinksCarry, UNCHANGED queued,
           \A i, k \in Client : i # k => link'[k][i] = link[k][i] \/ link'[k][i] = <<>>
    PROVE  LinksCarry'
  <1> SUFFICES ASSUME NEW i \in Client, NEW k \in Client, i # k
               PROVE  Carries(link'[k][i], queued[i][k], queued[k][k])
    BY DEF LinksCarry
  <1> QED BY LinkOf, EmptyCarries

LEMMA IssueCarries ==
    ASSUME TypeOK, LinksCarry, NEW j \in Client, NEW n \in Advances, Issue(j, n)
    PROVE  LinksCarry'
  <1> DEFINE msg == AdvanceMsg(j, n, queued[j][j] + n)
  <1>1. /\ n \in Nat
        /\ queued \in [Client -> [Client -> Nat]]
        /\ link \in Links
    BY SessionAssumption DEF TypeOK, Links
  <1>2. msg \in Message /\ Beats(msg) = n
    <2>1. queued[j][j] + n \in Nat
      BY <1>1
    <2> QED BY <1>1, <2>1, AdvanceMsgType DEF AdvanceMsg, Beats
  <1>3. /\ queued' = [queued EXCEPT ![j][j] = @ + n]
        /\ link' = Broadcast(link, j, msg)
    BY DEF Issue, QueueAdvance
  <1> HIDE DEF msg
  <1> SUFFICES ASSUME NEW i \in Client, NEW k \in Client, i # k
               PROVE  Carries(link'[k][i], queued'[i][k], queued'[k][k])
    BY DEF LinksCarry
  <1>4. /\ link[k][i] \in Seq(Message)
        /\ queued[i][k] \in Nat
        /\ queued[k][k] \in Nat
        /\ Carries(link[k][i], queued[i][k], queued[k][k])
    BY LinkOf
  <1>5. queued'[i][k] = queued[i][k]
    BY <1>1, <1>3
  <1>6. CASE k = j
    <2>1. queued'[k][k] = queued[k][k] + n
      BY <1>1, <1>3, <1>6
    <2>2. link'[k][i] = link[k][i] \/ link'[k][i] = Append(link[k][i], msg)
      BY <1>3 DEF Broadcast
    <2>3. queued[k][k] + n \in Nat /\ queued[k][k] <= queued[k][k] + n
      BY <1>1, <1>4
    <2>4. queued[k][k] + Beats(msg) <= queued[k][k] + n
      BY <1>1, <1>2, <1>4
    <2>5. Carries(link[k][i], queued[i][k], queued[k][k] + n)
      BY <1>4, <2>3, MoreCarries
    <2>6. Carries(Append(link[k][i], msg), queued[i][k], queued[k][k] + n)
      BY <1>2, <1>4, <2>3, <2>4, AppendCarries
    <2> QED BY <1>5, <2>1, <2>2, <2>5, <2>6
  <1>7. CASE k # j
    <2>1. queued'[k][k] = queued[k][k] /\ link'[k][i] = link[k][i]
      BY <1>1, <1>3, <1>7 DEF Broadcast
    <2> QED BY <1>4, <1>5, <2>1
  <1> QED BY <1>6, <1>7

(* What a pull does to the pulled link and to the others.                    *)
LEMMA PulledLinks ==
    ASSUME TypeOK, NEW j \in Client, NEW m \in Client, NEW i \in Client, NEW k \in Client
    PROVE  Pulled(j, m)[k][i] = IF k = m /\ i = j THEN Tail(link[k][i]) ELSE link[k][i]
  <1>1. link \in [Client -> [Client -> Seq(Message)]]
    BY DEF TypeOK
  <1> QED BY <1>1 DEF Pulled

LEMMA ReceiveAdvanceCarries ==
    ASSUME TypeOK, LinksCarry, NEW j \in Client, NEW m \in Client, ReceiveAdvance(j, m)
    PROVE  LinksCarry'
  <1> DEFINE msg == Head(link[m][j])
             ackMsg == AckMsg(m, queued[j][m] + msg.delta)
  <1>1. j # m /\ link[m][j] # <<>> /\ msg.op = "Advance"
    BY DEF ReceiveAdvance, Pulls
  <1>2. msg \in Message
    BY <1>1, PulledType
  <1>3. /\ queued \in [Client -> [Client -> Nat]]
        /\ msg.delta \in Nat
        /\ Beats(msg) = msg.delta
    BY <1>1, <1>2 DEF TypeOK, Message, Beats
  <1>4. ackMsg \in Message /\ Beats(ackMsg) = 0
    <2>1. queued[j][m] + msg.delta \in Nat
      BY <1>3
    <2> QED BY <2>1, AckMsgType DEF AckMsg, Beats
  <1>5. /\ queued' = [queued EXCEPT ![j][m] = @ + msg.delta]
        /\ link' = Broadcast(Pulled(j, m), j, ackMsg)
    BY DEF ReceiveAdvance, QueueAdvance
  <1> HIDE DEF msg, ackMsg
  <1> SUFFICES ASSUME NEW i \in Client, NEW k \in Client, i # k
               PROVE  Carries(link'[k][i], queued'[i][k], queued'[k][k])
    BY DEF LinksCarry
  <1>6. /\ link[k][i] \in Seq(Message)
        /\ queued[i][k] \in Nat
        /\ queued[k][k] \in Nat
        /\ Carries(link[k][i], queued[i][k], queued[k][k])
    BY LinkOf
  <1>7. queued'[k][k] = queued[k][k]
    BY <1>1, <1>3, <1>5
  <1>8. CASE k = m /\ i = j
    <2>1. link'[k][i] = Tail(link[k][i])
      BY <1>1, <1>5, <1>8, PulledLinks DEF Broadcast
    <2>2. queued'[i][k] = queued[i][k] + Beats(Head(link[k][i]))
      BY <1>3, <1>5, <1>8 DEF msg
    <2>3. Carries(Tail(link[k][i]), queued[i][k] + Beats(Head(link[k][i])), queued[k][k])
      BY <1>1, <1>6, <1>8, TailCarries
    <2> QED BY <1>7, <2>1, <2>2, <2>3
  <1>9. CASE ~(k = m /\ i = j)
    <2>1. link'[k][i] = link[k][i] \/ link'[k][i] = Append(link[k][i], ackMsg)
      <3>1. Pulled(j, m)[k][i] = link[k][i]
        BY <1>1, <1>9, PulledLinks
      <3>2. \/ link'[k][i] = Pulled(j, m)[k][i]
            \/ link'[k][i] = Append(Pulled(j, m)[k][i], ackMsg)
        BY <1>5 DEF Broadcast
      <3> QED BY <3>1, <3>2
    <2>2. queued'[i][k] = queued[i][k]
      BY <1>3, <1>5, <1>9
    <2>3. queued[k][k] + Beats(ackMsg) <= queued[k][k]
      BY <1>4, <1>6
    <2>4. Carries(Append(link[k][i], ackMsg), queued[i][k], queued[k][k])
      BY <1>4, <1>6, <2>3, AppendCarries
    <2> QED BY <1>6, <1>7, <2>1, <2>2, <2>4
  <1> QED BY <1>8, <1>9

(* An ack or a request that is pulled brings no beats.                       *)
LEMMA PullCarries ==
    ASSUME TypeOK, LinksCarry, NEW j \in Client, NEW m \in Client,
           ReceiveAck(j, m) \/ ReceiveEject(j, m)
    PROVE  LinksCarry'
  <1>1. /\ link[m][j] # <<>>
        /\ Beats(Head(link[m][j])) = 0
        /\ link' = Pulled(j, m)
        /\ UNCHANGED queued
    BY DEF ReceiveAck, ReceiveEject, Pulls, streamVars, Beats
  <1> SUFFICES ASSUME NEW i \in Client, NEW k \in Client, i # k
               PROVE  Carries(link'[k][i], queued[i][k], queued[k][k])
    BY <1>1 DEF LinksCarry
  <1>2. /\ link[k][i] \in Seq(Message)
        /\ queued[i][k] \in Nat
        /\ queued[k][k] \in Nat
        /\ Carries(link[k][i], queued[i][k], queued[k][k])
    BY LinkOf
  <1>3. CASE k = m /\ i = j
    <2>1. link'[k][i] = Tail(link[k][i])
      BY <1>1, <1>3, PulledLinks
    <2>2. Carries(Tail(link[k][i]), queued[i][k] + Beats(Head(link[k][i])), queued[k][k])
      BY <1>1, <1>2, <1>3, TailCarries
    <2>3. queued[i][k] + Beats(Head(link[k][i])) = queued[i][k]
      BY <1>1, <1>2, <1>3
    <2> QED BY <2>1, <2>2, <2>3
  <1>4. CASE ~(k = m /\ i = j)
    BY <1>1, <1>2, <1>4, PulledLinks
  <1> QED BY <1>3, <1>4

LEMMA EjectCarries ==
    ASSUME TypeOK, LinksCarry, NEW j \in Client, NEW x \in Client, Eject(j, x)
    PROVE  LinksCarry'
  <1> DEFINE msg == EjectMsg(x, queued[j][x])
             l == Broadcast(link, j, msg)
  <1>1. link \in Links /\ queued[j][x] \in Nat
    BY DEF TypeOK, Links
  <1>2. msg \in Message /\ Beats(msg) = 0
    BY <1>1, EjectMsgType DEF EjectMsg, Beats
  <1>3. l \in Links
    BY <1>1, <1>2, BroadcastType
  <1>4. /\ link' = [l EXCEPT ![j][x] = link[j][x], ![x][j] = <<>>]
        /\ UNCHANGED queued
    BY DEF Eject, LinksAfterEject, streamVars
  <1>5. \A i, k \in Client : l[k][i] = link[k][i] \/ l[k][i] = Append(link[k][i], msg)
    BY DEF Broadcast
  <1> HIDE DEF l, msg
  <1> SUFFICES ASSUME NEW i \in Client, NEW k \in Client, i # k
               PROVE  Carries(link'[k][i], queued[i][k], queued[k][k])
    BY <1>4 DEF LinksCarry
  <1>6. /\ link[k][i] \in Seq(Message)
        /\ queued[i][k] \in Nat
        /\ queued[k][k] \in Nat
        /\ Carries(link[k][i], queued[i][k], queued[k][k])
    BY LinkOf
  <1>7. \/ link'[k][i] = link[k][i]
        \/ link'[k][i] = l[k][i]
        \/ link'[k][i] = <<>>
    BY <1>1, <1>3, <1>4 DEF Links
  <1>8. queued[k][k] + Beats(msg) <= queued[k][k]
    BY <1>2, <1>6
  <1>9. Carries(Append(link[k][i], msg), queued[i][k], queued[k][k])
    BY <1>2, <1>6, <1>8, AppendCarries
  <1>10. Carries(<<>>, queued[i][k], queued[k][k])
    BY <1>6, EmptyCarries
  <1> QED BY <1>5, <1>6, <1>7, <1>9, <1>10

LEMMA RefinementStep == RefinementInv /\ [Next]_vars => RefinementInv'
  <1> SUFFICES ASSUME RefinementInv, [Next]_vars PROVE LinksCarry'
    BY StreamStep DEF RefinementInv
  <1>1. TypeOK /\ LinksCarry
    BY DEF RefinementInv, StreamInv, CountersInv, BarrierInv
  <1>2. ASSUME UNCHANGED <<queued, link>> PROVE LinksCarry'
    BY <1>1, <1>2 DEF LinksCarry
  <1>3. ASSUME NEW i \in Client, NEW n \in Advances, Issue(i, n) PROVE LinksCarry'
    BY <1>1, <1>3, IssueCarries
  <1>4. ASSUME NEW i \in Client, DoBeat(i) PROVE LinksCarry'
    <2>1. ASSUME NEW k \in Client, ReceiveConnLost(i, k) PROVE LinksCarry'
      BY <1>1, <2>1, EjectCarries DEF ReceiveConnLost
    <2>2. ASSUME PullNothing PROVE LinksCarry'
      BY <1>2, <2>2 DEF PullNothing, streamVars
    <2> QED BY <1>1, <1>4, <2>1, <2>2, ReceiveAdvanceCarries, PullCarries DEF DoBeat
  <1>5. ASSUME NEW i \in Client, NEW x \in Client, EjectSessionClient(i, x) PROVE LinksCarry'
    BY <1>1, <1>5, EjectCarries DEF EjectSessionClient
  <1>6. ASSUME NEW i \in Client, Dispatch(i) PROVE LinksCarry'
    BY <1>2, <1>6 DEF Dispatch
  <1>7. ASSUME NEW i \in Client, Leave(i) PROVE LinksCarry'
    <2>1. link \in Links
      BY <1>1 DEF TypeOK, Links
    <2>2. UNCHANGED queued /\ link' = [k \in Client |-> [link[k] EXCEPT ![i] = <<>>]]
      BY <1>7 DEF Leave, streamVars
    <2>3. \A a, k \in Client : link'[k][a] = link[k][a] \/ link'[k][a] = <<>>
      BY <2>1, <2>2 DEF Links
    <2> QED BY <1>1, <2>2, <2>3, LinksShrink
  <1>8. CASE UNCHANGED vars
    BY <1>2, <1>8 DEF vars, streamVars
  <1> QED BY <1>3, <1>4, <1>5, <1>6, <1>7, <1>8 DEF Next

LEMMA RefinementInit == Init => RefinementInv
  <1> SUFFICES ASSUME Init PROVE LinksCarry
    BY StreamInit DEF RefinementInv
  <1>1. Carries(<<>>, 0, 0)
    <2> DEFINE level == [n \in 0 .. 0 |-> 0]
    <2>1. /\ Len(<<>>) = 0
          /\ 1 .. 0 = {}
          /\ 0 .. 0 = {0}
          /\ level \in [0 .. 0 -> Nat]
          /\ level[0] = 0
      OBVIOUS
    <2> HIDE DEF level
    <2> QED BY <2>1 DEF Carries
  <1> QED BY <1>1 DEF Init, LinksCarry

(***************************************************************************)
(* The refinement.                                                         *)
(***************************************************************************)

(* A step that leaves what players hold, dispatched and excluded as it was.  *)
LEMMA Stutters ==
    ASSUME UNCHANGED <<queued, dispatchedBeat, ejectPending>>
    PROVE  UNCHANGED Barrier!vars
  BY DEF Barrier!vars, Excluded

LEMMA EjectExcludes ==
    ASSUME TypeOK, NEW i \in Client, NEW x \in Client, Eject(i, x)
    PROVE  Barrier!Exclude(i, x)
  <1>1. ejectPending \in [Client -> [Client -> BOOLEAN]]
    BY DEF TypeOK
  <1>2. /\ i # x
        /\ ejectPending' = [ejectPending EXCEPT ![i][x] = TRUE]
        /\ UNCHANGED <<queued, dispatchedBeat>>
    BY DEF Eject, streamVars
  <1>3. Excluded' = [Excluded EXCEPT ![i] = @ \cup {x}]
    <2>1. \A a, y \in Client : ejectPending'[a][y] = (ejectPending[a][y] \/ (a = i /\ y = x))
      BY <1>1, <1>2
    <2>2. \A a \in Client : Excluded'[a] = IF a = i THEN Excluded[a] \cup {x} ELSE Excluded[a]
      BY <2>1 DEF Excluded
    <2>3. /\ Excluded' = [a \in Client |-> Excluded'[a]]
          /\ Excluded = [a \in Client |-> Excluded[a]]
      BY DEF Excluded
    <2> QED BY <2>2, <2>3
  <1> QED BY <1>2, <1>3 DEF Barrier!Exclude

LEMMA IssueWrites ==
    ASSUME TypeOK, NEW i \in Client, NEW n \in Advances, Issue(i, n)
    PROVE  Barrier!Write(i)
  <1>1. n \in Nat /\ n >= 1 /\ MaxBeat \in Nat /\ queued[i][i] \in Nat
    BY SessionAssumption DEF TypeOK
  <1> DEFINE q == queued[i][i] + n
  <1>2. q \in queued[i][i] + 1 .. MaxBeat
    BY <1>1 DEF Issue
  <1>3. queued' = [queued EXCEPT ![i][i] = q]
    BY DEF Issue, QueueAdvance
  <1>4. UNCHANGED <<dispatchedBeat, Excluded>>
    BY DEF Issue, ejectVars, Excluded
  <1> QED BY <1>2, <1>3, <1>4 DEF Barrier!Write

LEMMA ReceiveAdvanceHolds ==
    ASSUME RefinementInv, NEW i \in Client, NEW k \in Client, ReceiveAdvance(i, k)
    PROVE  Barrier!Hold(i, k)
  <1> DEFINE msg == Head(link[k][i])
             q == queued[i][k] + msg.delta
  <1>1. TypeOK /\ LinksCarry /\ AllGrow(link)
    BY DEF RefinementInv, StreamInv, CountersInv, BarrierInv
  <1>2. i # k /\ ~ejectPending[i][k] /\ link[k][i] # <<>> /\ msg.op = "Advance"
    BY DEF ReceiveAdvance, Pulls
  <1>3. msg.delta \in Nat
    <2>1. msg \in Message
      BY <1>1, <1>2, PulledType
    <2> QED BY <2>1 DEF Message
  <1>4. msg.delta >= 1
    BY <1>1, <1>2, PulledGrows DEF Grows
  <1>5. /\ link[k][i] \in Seq(Message)
        /\ queued[i][k] \in Nat
        /\ queued[k][k] \in Nat
        /\ Carries(link[k][i], queued[i][k], queued[k][k])
    BY <1>1, <1>2, LinkOf
  <1>6. queued[i][k] + Beats(msg) <= queued[k][k]
    BY <1>2, <1>5, TailCarries
  <1>7. q \in queued[i][k] + 1 .. queued[k][k]
    BY <1>2, <1>3, <1>4, <1>5, <1>6 DEF Beats
  <1>8. queued' = [queued EXCEPT ![i][k] = q]
    BY DEF ReceiveAdvance, QueueAdvance
  <1>9. UNCHANGED <<dispatchedBeat, Excluded>> /\ k \notin Excluded[i]
    BY <1>2 DEF ReceiveAdvance, ejectVars, Excluded
  <1> QED BY <1>2, <1>7, <1>8, <1>9 DEF Barrier!Hold

LEMMA DispatchTakesTurn ==
    ASSUME RefinementInv, NEW i \in Client, Dispatch(i)
    PROVE  Barrier!TakeTurn(i)
  <1>1. TypeOK /\ AcksAreTrue /\ AvailableIsAcked
    BY DEF RefinementInv, StreamInv, CountersInv, BarrierInv
  <1>2. ASSUME NEW k \in Client \ Excluded[i], NEW x \in Client \ Excluded[i]
        PROVE  dispatchedBeat[i] < queued[k][x]
    <2>1. ~ejectPending[i][k] /\ ~ejectPending[i][x]
      BY DEF Excluded
    <2>2. availableBeat[i] <= ack[i][k][x] /\ ack[i][k][x] <= queued[k][x]
      BY <1>1, <2>1 DEF AvailableIsAcked, AcksAreTrue
    <2>3. dispatchedBeat[i] + 1 <= availableBeat[i]
      BY DEF Dispatch
    <2>4. /\ dispatchedBeat[i] \in Nat
          /\ availableBeat[i] \in Nat
          /\ ack[i][k][x] \in Nat
          /\ queued[k][x] \in Nat
      BY <1>1 DEF TypeOK
    <2> QED BY <2>2, <2>3, <2>4
  <1>3. dispatchedBeat' = [dispatchedBeat EXCEPT ![i] = @ + 1]
    BY DEF Dispatch
  <1>4. UNCHANGED <<queued, Excluded>>
    BY DEF Dispatch, Excluded
  <1> QED BY <1>2, <1>3, <1>4 DEF Barrier!TakeTurn

LEMMA StepImplements == RefinementInv /\ [Next]_vars => [Barrier!Next]_Barrier!vars
  <1> SUFFICES ASSUME RefinementInv, [Next]_vars
               PROVE  Barrier!Next \/ UNCHANGED Barrier!vars
    BY DEF Barrier!vars
  <1>1. TypeOK
    BY DEF RefinementInv, StreamInv, CountersInv, BarrierInv
  <1>2. ASSUME NEW i \in Client, NEW x \in Client, Eject(i, x)
        PROVE  Barrier!Next
    BY <1>1, <1>2, EjectExcludes DEF Barrier!Next
  <1>3. ASSUME NEW i \in Client, NEW n \in Advances, Issue(i, n)
        PROVE  Barrier!Next
    BY <1>1, <1>3, IssueWrites DEF Barrier!Next
  <1>4. ASSUME NEW i \in Client, DoBeat(i)
        PROVE  Barrier!Next \/ UNCHANGED Barrier!vars
    <2>1. ASSUME NEW k \in Client, ReceiveAdvance(i, k)
          PROVE  Barrier!Next
      BY <2>1, ReceiveAdvanceHolds DEF Barrier!Next
    <2>2. ASSUME NEW k \in Client, ReceiveAck(i, k) \/ ReceiveEject(i, k)
          PROVE  UNCHANGED Barrier!vars
      BY <2>2, Stutters DEF ReceiveAck, ReceiveEject, streamVars, ejectVars
    <2>3. ASSUME NEW k \in Client, ReceiveConnLost(i, k)
          PROVE  Barrier!Next
      BY <1>2, <2>3 DEF ReceiveConnLost
    <2>4. ASSUME PullNothing
          PROVE  UNCHANGED Barrier!vars
      BY <2>4, Stutters DEF PullNothing, streamVars, ejectVars
    <2> QED BY <1>4, <2>1, <2>2, <2>3, <2>4 DEF DoBeat
  <1>5. ASSUME NEW i \in Client, NEW x \in Client, EjectSessionClient(i, x)
        PROVE  Barrier!Next
    BY <1>2, <1>5 DEF EjectSessionClient
  <1>6. ASSUME NEW i \in Client, Dispatch(i)
        PROVE  Barrier!Next
    BY <1>6, DispatchTakesTurn DEF Barrier!Next
  <1>7. ASSUME NEW i \in Client, Leave(i)
        PROVE  UNCHANGED Barrier!vars
    BY <1>7, Stutters DEF Leave, streamVars, ejectVars
  <1>8. CASE UNCHANGED vars
    BY <1>8, Stutters DEF vars, streamVars, ejectVars
  <1> QED BY <1>3, <1>4, <1>5, <1>6, <1>7, <1>8 DEF Next

(* The lockstep clients implement the turn barrier: acks, links, counters    *)
(* and ejections of CClientManagerImpl come down to players that write       *)
(* beats, hold them, take a turn when all they play with hold it, and        *)
(* exclude each other.                                                       *)
THEOREM LockstepImplementsBarrier == Spec => ImplementsBarrier
  <1>1. Init => Barrier!Init
    BY DEF Init, Barrier!Init, Excluded
  <1> QED BY <1>1, RefinementInit, RefinementStep, StepImplements, PTL
          DEF Spec, ImplementsBarrier, Barrier!Spec

-----------------------------------------------------------------------------
(***************************************************************************)
(* A stream is cut into advances at the same beats everywhere: S holds the *)
(* beats at which its advances end.                                        *)
(***************************************************************************)

(* No advance from beat a to beat b has an end of another inside it.         *)
NoCutInside(S, a, b) == \A s \in S : s <= a \/ b <= s

(* The advances st lead from beat from to beat to, cut where S says.         *)
Follows(st, from, to, S) ==
    \E level \in [0 .. Len(st) -> S] :
       /\ level[0] = from
       /\ level[Len(st)] = to
       /\ \A n \in 1 .. Len(st) :
            /\ level[n] = level[n - 1] + st[n]
            /\ NoCutInside(S, level[n - 1], level[n])

BeatsOf(l) == [n \in 1 .. Len(l) |-> Beats(l[n])]

LEMMA FollowsEmpty ==
    ASSUME NEW S \in SUBSET Nat, NEW from \in S
    PROVE  Follows(<<>>, from, from, S)
  <1> DEFINE level == [n \in 0 .. 0 |-> from]
  <1>1. /\ Len(<<>>) = 0
        /\ 1 .. 0 = {}
        /\ level \in [0 .. 0 -> S]
        /\ level[0] = from
    OBVIOUS
  <1> HIDE DEF level
  <1> QED BY <1>1 DEF Follows

LEMMA FollowsEnds ==
    ASSUME NEW S \in SUBSET Nat, NEW st \in Seq(Nat), NEW from, NEW to, Follows(st, from, to, S)
    PROVE  from \in S /\ to \in S
  <1>1. 0 \in 0 .. Len(st) /\ Len(st) \in 0 .. Len(st)
    OBVIOUS
  <1> QED BY <1>1 DEF Follows

(* One more advance.                                                         *)
LEMMA FollowsAppend ==
    ASSUME NEW S \in SUBSET Nat, NEW st \in Seq(Nat), NEW from, NEW to \in Nat, NEW n \in Nat,
           Follows(st, from, to, S), to + n \in S, NoCutInside(S, to, to + n)
    PROVE  Follows(Append(st, n), from, to + n, S)
  <1> DEFINE len == Len(st)
             st2 == Append(st, n)
  <1>1. PICK level \in [0 .. len -> S] :
             /\ level[0] = from
             /\ level[len] = to
             /\ \A m \in 1 .. len : /\ level[m] = level[m - 1] + st[m]
                                    /\ NoCutInside(S, level[m - 1], level[m])
    BY DEF Follows
  <1> DEFINE level2 == [m \in 0 .. len + 1 |-> IF m <= len THEN level[m] ELSE to + n]
  <1>2. /\ len \in Nat
        /\ Len(st2) = len + 1
        /\ st2[len + 1] = n
        /\ \A m \in 1 .. len : st2[m] = st[m]
    OBVIOUS
  <1>3. level2 \in [0 .. len + 1 -> S]
    BY <1>1, <1>2
  <1>4. /\ level2[0] = from
        /\ level2[len + 1] = to + n
        /\ \A m \in 0 .. len : level2[m] = level[m]
    BY <1>1, <1>2
  <1>5. ASSUME NEW m \in 1 .. len + 1
        PROVE  /\ level2[m] = level2[m - 1] + st2[m]
               /\ NoCutInside(S, level2[m - 1], level2[m])
    <2>1. CASE m \in 1 .. len
      <3>1. m \in 0 .. len /\ m - 1 \in 0 .. len
        BY <1>2, <2>1
      <3>2. level2[m] = level[m] /\ level2[m - 1] = level[m - 1]
        BY <1>4, <3>1
      <3> QED BY <1>1, <1>2, <2>1, <3>2
    <2>2. CASE m = len + 1
      <3>1. m - 1 = len /\ len \in 0 .. len
        BY <1>2, <2>2
      <3>2. level2[m - 1] = to /\ level2[m] = to + n
        BY <1>1, <1>4, <2>2, <3>1
      <3> QED BY <1>2, <2>2, <3>2
    <2> QED BY <1>2, <2>1, <2>2
  <1> HIDE DEF level2, st2
  <1> QED BY <1>2, <1>3, <1>4, <1>5 DEF Follows, st2

(* The first advance is gone.                                                *)
LEMMA FollowsTail ==
    ASSUME NEW S \in SUBSET Nat, NEW st \in Seq(Nat), NEW from, NEW to,
           Follows(st, from, to, S), st # <<>>
    PROVE  /\ Follows(Tail(st), from + Head(st), to, S)
           /\ from + Head(st) \in S
           /\ NoCutInside(S, from, from + Head(st))
  <1> DEFINE len == Len(st)
             st2 == Tail(st)
  <1>1. PICK level \in [0 .. len -> S] :
             /\ level[0] = from
             /\ level[len] = to
             /\ \A m \in 1 .. len : /\ level[m] = level[m - 1] + st[m]
                                    /\ NoCutInside(S, level[m - 1], level[m])
    BY DEF Follows
  <1> DEFINE level2 == [m \in 0 .. len - 1 |-> level[m + 1]]
  <1>2. /\ len \in Nat
        /\ len >= 1
        /\ Len(st2) = len - 1
        /\ Head(st) = st[1]
        /\ \A m \in 1 .. len - 1 : st2[m] = st[m + 1] /\ m + 1 \in 1 .. len
    OBVIOUS
  <1>3. 1 \in 1 .. len /\ 1 \in 0 .. len /\ 0 \in 0 .. len - 1 /\ len - 1 \in 0 .. len - 1
    BY <1>2
  <1>4. /\ level[1] = from + Head(st)
        /\ level[1] \in S
        /\ NoCutInside(S, from, level[1])
    <2>1. /\ level[1] = level[1 - 1] + st[1]
          /\ NoCutInside(S, level[1 - 1], level[1])
      BY <1>1, <1>3
    <2>2. 1 - 1 = 0
      OBVIOUS
    <2> QED BY <1>1, <1>2, <1>3, <2>1, <2>2
  <1>5. level2 \in [0 .. len - 1 -> S]
    BY <1>1, <1>2
  <1>6. level2[0] = level[1]
    BY <1>3
  <1>7. level2[len - 1] = to
    <2>1. len - 1 + 1 = len
      BY <1>2
    <2> QED BY <1>1, <1>3, <2>1
  <1>8. ASSUME NEW m \in 1 .. len - 1
        PROVE  /\ level2[m] = level2[m - 1] + st2[m]
               /\ NoCutInside(S, level2[m - 1], level2[m])
    <2>1. /\ m \in 0 .. len - 1
          /\ m - 1 \in 0 .. len - 1
          /\ m - 1 + 1 = m
          /\ m + 1 - 1 = m
          /\ m + 1 \in 1 .. len
      BY <1>2
    <2>2. level2[m] = level[m + 1] /\ level2[m - 1] = level[m]
      BY <2>1
    <2>3. level[m + 1] = level[m] + st[m + 1] /\ NoCutInside(S, level[m], level[m + 1])
      BY <1>1, <2>1
    <2> QED BY <1>2, <2>2, <2>3
  <1> HIDE DEF level2, st2
  <1> QED BY <1>2, <1>4, <1>5, <1>6, <1>7, <1>8 DEF Follows, st2

(* A new end beyond all others cuts nothing that is there.                   *)
LEMMA FollowsMore ==
    ASSUME NEW S \in SUBSET Nat, NEW st \in Seq(Nat), NEW from, NEW to, NEW q \in Nat,
           Follows(st, from, to, S), \A s \in S : s <= q
    PROVE  Follows(st, from, to, S \cup {q})
  <1>1. PICK level \in [0 .. Len(st) -> S] :
             /\ level[0] = from
             /\ level[Len(st)] = to
             /\ \A m \in 1 .. Len(st) : /\ level[m] = level[m - 1] + st[m]
                                        /\ NoCutInside(S, level[m - 1], level[m])
    BY DEF Follows
  <1>2. level \in [0 .. Len(st) -> S \cup {q}]
    OBVIOUS
  <1>3. ASSUME NEW m \in 1 .. Len(st)
        PROVE  NoCutInside(S \cup {q}, level[m - 1], level[m])
    <2>1. m \in 0 .. Len(st)
      OBVIOUS
    <2>2. level[m] <= q
      BY <2>1
    <2>3. NoCutInside(S, level[m - 1], level[m])
      BY <1>1
    <2> QED BY <2>2, <2>3 DEF NoCutInside
  <1> QED BY <1>1, <1>2, <1>3 DEF Follows

(* The advances of a link.                                                   *)
LEMMA BeatsOfType ==
    ASSUME NEW l \in Seq(Message)
    PROVE  BeatsOf(l) \in Seq(Nat)
  <1>1. \A n \in 1 .. Len(l) : Beats(l[n]) \in Nat
    BY BeatsType
  <1>2. Len(l) \in Nat
    OBVIOUS
  <1> QED BY <1>1, <1>2 DEF BeatsOf

LEMMA BeatsOfEmpty == BeatsOf(<<>>) = <<>>
  BY DEF BeatsOf

LEMMA BeatsOfAppend ==
    ASSUME NEW l \in Seq(Message), NEW msg \in Message
    PROVE  BeatsOf(Append(l, msg)) = Append(BeatsOf(l), Beats(msg))
  <1> DEFINE l2 == Append(l, msg)
             len == Len(l)
  <1>1. /\ len \in Nat
        /\ Len(l2) = len + 1
        /\ l2[len + 1] = msg
        /\ \A n \in 1 .. len : l2[n] = l[n]
    OBVIOUS
  <1> HIDE DEF l2
  <1>2. BeatsOf(l) \in Seq(Nat) /\ Len(BeatsOf(l)) = len
    BY <1>1, BeatsOfType DEF BeatsOf
  <1>3. Beats(msg) \in Nat
    BY BeatsType
  <1>4. BeatsOf(l2) = [n \in 1 .. len + 1 |-> Beats(l2[n])]
    BY <1>1 DEF BeatsOf
  <1>5. Append(BeatsOf(l), Beats(msg))
          = [n \in 1 .. len + 1 |-> IF n = len + 1 THEN Beats(msg) ELSE BeatsOf(l)[n]]
    <2> DEFINE st == Append(BeatsOf(l), Beats(msg))
    <2>1. /\ st \in Seq(Nat)
          /\ Len(st) = len + 1
          /\ \A n \in 1 .. len + 1 : st[n] = IF n = len + 1 THEN Beats(msg) ELSE BeatsOf(l)[n]
      BY <1>1, <1>2, <1>3
    <2> HIDE DEF st
    <2>2. st = [n \in 1 .. len + 1 |-> st[n]]
      BY <2>1
    <2> QED BY <2>1, <2>2 DEF st
  <1>6. ASSUME NEW n \in 1 .. len + 1
        PROVE  Beats(l2[n]) = IF n = len + 1 THEN Beats(msg) ELSE BeatsOf(l)[n]
    <2>1. CASE n = len + 1
      BY <1>1, <2>1
    <2>2. CASE n # len + 1
      <3>1. n \in 1 .. len
        BY <1>1, <2>2
      <3> QED BY <1>1, <2>2, <3>1 DEF BeatsOf
    <2> QED BY <2>1, <2>2
  <1> QED BY <1>4, <1>5, <1>6 DEF l2

LEMMA BeatsOfTail ==
    ASSUME NEW l \in Seq(Message), l # <<>>
    PROVE  /\ BeatsOf(Tail(l)) = Tail(BeatsOf(l))
           /\ BeatsOf(l) # <<>>
           /\ Head(BeatsOf(l)) = Beats(Head(l))
  <1> DEFINE l2 == Tail(l)
             len == Len(l)
  <1>1. /\ len \in Nat
        /\ len >= 1
        /\ Len(l2) = len - 1
        /\ Head(l) = l[1]
        /\ \A n \in 1 .. len - 1 : l2[n] = l[n + 1] /\ n + 1 \in 1 .. len
    OBVIOUS
  <1> HIDE DEF l2
  <1>2. BeatsOf(l) \in Seq(Nat) /\ Len(BeatsOf(l)) = len
    BY <1>1, BeatsOfType DEF BeatsOf
  <1>3. BeatsOf(l2) = [n \in 1 .. len - 1 |-> Beats(l2[n])]
    BY <1>1 DEF BeatsOf
  <1>4. Tail(BeatsOf(l)) = [n \in 1 .. len - 1 |-> BeatsOf(l)[n + 1]]
    <2> DEFINE st == Tail(BeatsOf(l))
    <2>1. /\ st \in Seq(Nat)
          /\ Len(st) = len - 1
          /\ \A n \in 1 .. len - 1 : st[n] = BeatsOf(l)[n + 1]
      BY <1>1, <1>2
    <2> HIDE DEF st
    <2>2. st = [n \in 1 .. len - 1 |-> st[n]]
      BY <2>1
    <2> QED BY <2>1, <2>2 DEF st
  <1>5. ASSUME NEW n \in 1 .. len - 1 PROVE Beats(l2[n]) = BeatsOf(l)[n + 1]
    BY <1>1 DEF BeatsOf
  <1>6. BeatsOf(l) # <<>> /\ Head(BeatsOf(l)) = BeatsOf(l)[1] /\ 1 \in 1 .. len
    BY <1>1, <1>2
  <1> QED BY <1>1, <1>3, <1>4, <1>5, <1>6 DEF l2, BeatsOf

(***************************************************************************)
(* Every stream is cut alike everywhere.                                   *)
(***************************************************************************)

(* The advances of x end at the beats S: those in a pipe, and those on a     *)
(* link, which reach what x has issued unless nothing more is written there. *)
LinkFollows(x, i, S) ==
    \E to \in S : /\ Follows(BeatsOf(link[x][i]), queued[i][x], to, S)
                  /\ Reaches(x, i) => to = queued[x][x]

PipeFollows(x, i, S) == Follows(pipe[i][x], drained[i][x], queued[i][x], S)

CutAt(x, S) ==
    /\ \A s \in S : s <= queued[x][x]
    /\ \A i \in Client : PipeFollows(x, i, S)
    /\ \A i \in Client : i # x => LinkFollows(x, i, S)

StreamsAreCutAlike == \A x \in Client : \E S \in SUBSET Nat : CutAt(x, S)

LEMMA CutFacts ==
    ASSUME TypeOK, NEW x \in Client, NEW S \in SUBSET Nat, CutAt(x, S), NEW i \in Client
    PROVE  /\ pipe[i][x] \in Seq(Nat)
           /\ link[x][i] \in Seq(Message)
           /\ BeatsOf(link[x][i]) \in Seq(Nat)
           /\ queued[i][x] \in S
           /\ drained[i][x] \in S
  <1>1. pipe[i][x] \in Seq(Nat) /\ link[x][i] \in Seq(Message)
    BY DEF TypeOK
  <1>2. Follows(pipe[i][x], drained[i][x], queued[i][x], S)
    BY DEF CutAt, PipeFollows
  <1> QED BY <1>1, <1>2, FollowsEnds, BeatsOfType

(* A step that leaves the link from x to i as it was, writes or reads what   *)
(* carries no beats, or drops what nobody will read.                         *)
LinkIdles(x, i) ==
    /\ Reaches(x, i)' => Reaches(x, i)
    /\ \/ link'[x][i] = link[x][i]
       \/ \E msg \in Message : Beats(msg) = 0 /\ link'[x][i] = Append(link[x][i], msg)
       \/ /\ link[x][i] # <<>>
          /\ Beats(Head(link[x][i])) = 0
          /\ link'[x][i] = Tail(link[x][i])
       \/ ~Reaches(x, i)' /\ link'[x][i] = <<>>

LEMMA IdleLinkFollows ==
    ASSUME TypeOK, NEW x \in Client, NEW S \in SUBSET Nat, CutAt(x, S),
           NEW i \in Client, i # x, LinkIdles(x, i),
           queued'[i][x] = queued[i][x], queued'[x][x] = queued[x][x]
    PROVE  LinkFollows(x, i, S)'
  <1> DEFINE l == link[x][i]
             l2 == link'[x][i]
  <1>1. /\ l \in Seq(Message)
        /\ BeatsOf(l) \in Seq(Nat)
        /\ queued[i][x] \in S
    BY CutFacts
  <1>2. PICK to \in S : /\ Follows(BeatsOf(l), queued[i][x], to, S)
                        /\ Reaches(x, i) => to = queued[x][x]
    BY DEF CutAt, LinkFollows
  <1>3. ASSUME Follows(BeatsOf(l2), queued[i][x], to, S) PROVE LinkFollows(x, i, S)'
    BY <1>2, <1>3 DEF LinkFollows, LinkIdles
  <1>4. CASE l2 = l
    BY <1>2, <1>3, <1>4
  <1>5. ASSUME NEW msg \in Message, Beats(msg) = 0, l2 = Append(l, msg)
        PROVE  LinkFollows(x, i, S)'
    <2>1. BeatsOf(l2) = Append(BeatsOf(l), 0)
      BY <1>1, <1>5, BeatsOfAppend
    <2>2. to \in Nat /\ to + 0 = to /\ NoCutInside(S, to, to + 0)
      BY DEF NoCutInside
    <2>3. Follows(Append(BeatsOf(l), 0), queued[i][x], to + 0, S)
      BY <1>1, <1>2, <2>2, FollowsAppend
    <2> QED BY <1>3, <2>1, <2>2, <2>3
  <1>6. CASE l # <<>> /\ Beats(Head(l)) = 0 /\ l2 = Tail(l)
    <2>1. BeatsOf(l2) = Tail(BeatsOf(l)) /\ BeatsOf(l) # <<>> /\ Head(BeatsOf(l)) = 0
      BY <1>1, <1>6, BeatsOfTail
    <2>2. Follows(Tail(BeatsOf(l)), queued[i][x] + Head(BeatsOf(l)), to, S)
      BY <1>1, <1>2, <2>1, FollowsTail
    <2>3. queued[i][x] \in Nat
      BY <1>1
    <2>4. queued[i][x] + 0 = queued[i][x]
      BY <2>3
    <2> QED BY <1>3, <2>1, <2>2, <2>4
  <1>7. CASE ~Reaches(x, i)' /\ l2 = <<>>
    <2>1. Follows(BeatsOf(l2), queued[i][x], queued[i][x], S)
      BY <1>1, <1>7, BeatsOfEmpty, FollowsEmpty
    <2> QED BY <1>1, <1>7, <2>1 DEF LinkFollows
  <1> QED BY <1>4, <1>5, <1>6, <1>7 DEF LinkIdles

(* A step in which nothing of the stream of x moves.                         *)
LEMMA IdleStreamIsCut ==
    ASSUME TypeOK, NEW x \in Client, NEW S \in SUBSET Nat, CutAt(x, S),
           \A i \in Client : /\ queued'[i][x] = queued[i][x]
                             /\ pipe'[i][x] = pipe[i][x]
                             /\ drained'[i][x] = drained[i][x]
                             /\ i # x => LinkIdles(x, i)
    PROVE  CutAt(x, S)'
  <1>1. \A i \in Client : i # x => LinkFollows(x, i, S)'
    BY IdleLinkFollows
  <1> QED BY <1>1 DEF CutAt, PipeFollows

(* The player itself issues an advance.                                      *)
LEMMA IssueIsCut ==
    ASSUME TypeOK, NEW x \in Client, NEW S \in SUBSET Nat, CutAt(x, S),
           NEW n \in Advances, Issue(x, n)
    PROVE  \E S2 \in SUBSET Nat : CutAt(x, S2)'
  <1> DEFINE q == queued[x][x]
             msg == AdvanceMsg(x, n, q + n)
  <1>1. /\ n \in Nat
        /\ queued \in [Client -> [Client -> Nat]]
        /\ pipe \in [Client -> [Client -> Seq(Nat)]]
        /\ drained \in [Client -> [Client -> Nat]]
        /\ link \in Links
    BY SessionAssumption DEF TypeOK, Links
  <1>0. q \in S /\ q \in Nat /\ q + n \in Nat
    <2>1. q \in S
      BY CutFacts
    <2> QED BY <1>1, <2>1
  <1>1a. PICK S2 \in SUBSET Nat : S2 = S \cup {q + n}
    BY <1>0
  <1>2. q \in S /\ q \in Nat /\ q + n \in Nat /\ q + n \in S2 /\ S2 = S \cup {q + n}
    BY <1>0, <1>1a
  <1>3. \A s \in S : s <= q /\ s <= q + n /\ s \in Nat
    BY <1>1, <1>2 DEF CutAt
  <1>4. msg \in Message /\ Beats(msg) = n
    BY <1>1, <1>2, AdvanceMsgType DEF AdvanceMsg, Beats
  <1>5. /\ queued' = [queued EXCEPT ![x][x] = @ + n]
        /\ pipe' = [pipe EXCEPT ![x][x] = Append(@, n)]
        /\ link' = Broadcast(link, x, msg)
        /\ UNCHANGED <<drained, ejectPending, gone>>
    BY DEF Issue, QueueAdvance, ejectVars, envVars
  <1>6. NoCutInside(S2, q, q + n)
    BY <1>2, <1>3 DEF NoCutInside
  <1> HIDE DEF msg
  <1>7. queued'[x][x] = q + n /\ \A i \in Client : i # x => queued'[i][x] = queued[i][x]
    BY <1>1, <1>5
  <1>8. ASSUME NEW i \in Client PROVE PipeFollows(x, i, S2)'
    <2>1. /\ pipe[i][x] \in Seq(Nat)
          /\ Follows(pipe[i][x], drained[i][x], queued[i][x], S2)
      <3>1. pipe[i][x] \in Seq(Nat) /\ Follows(pipe[i][x], drained[i][x], queued[i][x], S)
        BY CutFacts DEF CutAt, PipeFollows
      <3> QED BY <1>2, <1>3, <3>1, FollowsMore
    <2>2. CASE i = x
      <3>1. pipe'[x][x] = Append(pipe[x][x], n) /\ drained'[x][x] = drained[x][x]
        BY <1>1, <1>5
      <3>2. Follows(Append(pipe[x][x], n), drained[x][x], q + n, S2)
        BY <1>1, <1>2, <1>6, <2>1, <2>2, FollowsAppend
      <3> QED BY <1>7, <2>2, <3>1, <3>2 DEF PipeFollows
    <2>3. CASE i # x
      <3>1. pipe'[i][x] = pipe[i][x] /\ drained'[i][x] = drained[i][x]
        BY <1>1, <1>5, <2>3
      <3> QED BY <1>7, <2>1, <2>3, <3>1 DEF PipeFollows
    <2> QED BY <2>2, <2>3
  <1>9. ASSUME NEW i \in Client, i # x PROVE LinkFollows(x, i, S2)'
    <2> DEFINE l == link[x][i]
    <2>1. l \in Seq(Message) /\ BeatsOf(l) \in Seq(Nat)
      BY CutFacts
    <2>2. PICK to \in S : /\ Follows(BeatsOf(l), queued[i][x], to, S)
                          /\ Reaches(x, i) => to = q
      BY <1>9 DEF CutAt, LinkFollows
    <2>3. Follows(BeatsOf(l), queued[i][x], to, S2)
      BY <1>2, <1>3, <2>1, <2>2, FollowsMore
    <2>4. Reaches(x, i)' = Reaches(x, i)
      BY <1>5 DEF Reaches
    <2>5. CASE Reaches(x, i)
      <3>1. link'[x][i] = Append(l, msg)
        BY <1>5, <2>5 DEF Broadcast
      <3>2. BeatsOf(link'[x][i]) = Append(BeatsOf(l), n)
        BY <1>4, <2>1, <3>1, BeatsOfAppend
      <3>3. Follows(Append(BeatsOf(l), n), queued[i][x], q + n, S2)
        BY <1>1, <1>2, <1>6, <2>1, <2>2, <2>3, <2>5, FollowsAppend
      <3> QED BY <1>2, <1>7, <1>9, <3>2, <3>3 DEF LinkFollows
    <2>6. CASE ~Reaches(x, i)
      <3>1. link'[x][i] = l
        BY <1>5, <2>6 DEF Broadcast
      <3>2. queued'[i][x] = queued[i][x] /\ to \in S2
        BY <1>2, <1>7, <1>9, <2>2
      <3> QED BY <2>3, <2>4, <2>6, <3>1, <3>2 DEF LinkFollows
    <2> QED BY <2>5, <2>6
  <1>10. \A s \in S2 : s <= queued'[x][x]
    BY <1>2, <1>3, <1>7
  <1> QED BY <1>8, <1>9, <1>10 DEF CutAt

(* Another player pulls an advance of x.                                     *)
LEMMA ReceiveAdvanceIsCut ==
    ASSUME TypeOK, NEW x \in Client, NEW S \in SUBSET Nat, CutAt(x, S),
           NEW j \in Client, ReceiveAdvance(j, x)
    PROVE  CutAt(x, S)'
  <1> DEFINE l == link[x][j]
             msg == Head(l)
             n == msg.delta
             q == queued[j][x]
             ackMsg == AckMsg(x, q + n)
  <1>1. /\ j # x
        /\ l # <<>>
        /\ msg.op = "Advance"
        /\ link' = Broadcast(Pulled(j, x), j, ackMsg)
        /\ queued' = [queued EXCEPT ![j][x] = @ + n]
        /\ pipe' = [pipe EXCEPT ![j][x] = Append(@, n)]
        /\ UNCHANGED <<drained, ejectPending, gone>>
    BY DEF ReceiveAdvance, Pulls, QueueAdvance, ejectVars, envVars
  <1>2. /\ l \in Seq(Message)
        /\ BeatsOf(l) \in Seq(Nat)
        /\ pipe[j][x] \in Seq(Nat)
        /\ q \in S
    BY CutFacts
  <1>3. /\ queued \in [Client -> [Client -> Nat]]
        /\ pipe \in [Client -> [Client -> Seq(Nat)]]
        /\ drained \in [Client -> [Client -> Nat]]
        /\ link \in Links
    BY DEF TypeOK, Links
  <1>4. msg \in Message /\ n \in Nat /\ Beats(msg) = n
    <2>1. msg \in Message
      BY <1>1, <1>2
    <2> QED BY <1>1, <2>1 DEF Message, Beats
  <1>5. /\ BeatsOf(Tail(l)) = Tail(BeatsOf(l))
        /\ BeatsOf(l) # <<>>
        /\ Head(BeatsOf(l)) = n
    BY <1>1, <1>2, <1>4, BeatsOfTail
  <1> HIDE DEF msg, n, ackMsg
  <1>6. PICK to \in S : /\ Follows(BeatsOf(l), q, to, S)
                        /\ Reaches(x, j) => to = queued[x][x]
    BY <1>1 DEF CutAt, LinkFollows
  <1>7. /\ Follows(Tail(BeatsOf(l)), q + n, to, S)
        /\ q + n \in S
        /\ NoCutInside(S, q, q + n)
    BY <1>2, <1>5, <1>6, FollowsTail
  <1>8. queued'[j][x] = q + n /\ \A i \in Client : i # j => queued'[i][x] = queued[i][x]
    BY <1>3, <1>1
  <1>9. ASSUME NEW i \in Client PROVE PipeFollows(x, i, S)'
    <2>1. Follows(pipe[i][x], drained[i][x], queued[i][x], S)
      BY DEF CutAt, PipeFollows
    <2>2. CASE i = j
      <3>1. pipe'[j][x] = Append(pipe[j][x], n) /\ drained'[j][x] = drained[j][x]
        BY <1>1, <1>3
      <3>2. Follows(Append(pipe[j][x], n), drained[j][x], q + n, S)
        BY <1>2, <1>4, <1>7, <2>1, <2>2, FollowsAppend
      <3> QED BY <1>8, <2>2, <3>1, <3>2 DEF PipeFollows
    <2>3. CASE i # j
      <3>1. pipe'[i][x] = pipe[i][x] /\ drained'[i][x] = drained[i][x]
        BY <1>1, <1>3, <2>3
      <3> QED BY <1>8, <2>1, <2>3, <3>1 DEF PipeFollows
    <2> QED BY <2>2, <2>3
  <1>10. ASSUME NEW i \in Client, i # x PROVE LinkFollows(x, i, S)'
    <2>1. Reaches(x, i)' = Reaches(x, i)
      BY <1>1 DEF Reaches
    <2>2. queued'[x][x] = queued[x][x]
      BY <1>1, <1>8
    <2>3. link'[x][i] = Pulled(j, x)[x][i]
      BY <1>1 DEF Broadcast
    <2>4. CASE i = j
      <3>1. link'[x][j] = Tail(l)
        BY <2>3, <2>4, PulledLinks
      <3> QED BY <1>5, <1>6, <1>7, <1>8, <2>1, <2>2, <2>4, <3>1 DEF LinkFollows
    <2>5. CASE i # j
      <3>1. link'[x][i] = link[x][i]
        BY <2>3, <2>5, PulledLinks
      <3> QED BY <1>8, <1>10, <2>1, <2>2, <2>5, <3>1 DEF CutAt, LinkFollows
    <2> QED BY <2>4, <2>5
  <1>11. \A s \in S : s <= queued'[x][x]
    BY <1>1, <1>8 DEF CutAt
  <1> QED BY <1>9, <1>10, <1>11 DEF CutAt

(* A dispatch takes whole advances out of the pipes.                         *)
LEMMA DispatchIsCut ==
    ASSUME TypeOK, NEW x \in Client, NEW S \in SUBSET Nat, CutAt(x, S),
           NEW j \in Client, Dispatch(j)
    PROVE  CutAt(x, S)'
  <1> DEFINE b == dispatchedBeat[j] + 1
  <1>1. /\ pipe \in [Client -> [Client -> Seq(Nat)]]
        /\ drained \in [Client -> [Client -> Nat]]
    BY DEF TypeOK
  <1>2. /\ UNCHANGED <<queued, ejectPending, link, gone>>
        /\ \A i \in Client : i # j => drained'[i] = drained[i] /\ pipe'[i] = pipe[i]
        /\ drained'[j][x] =
             IF Drains(j, x, b) THEN drained[j][x] + Head(pipe[j][x]) ELSE drained[j][x]
        /\ pipe'[j][x] = IF Drains(j, x, b) THEN Tail(pipe[j][x]) ELSE pipe[j][x]
    BY <1>1 DEF Dispatch, envVars
  <1>3. ASSUME NEW i \in Client PROVE PipeFollows(x, i, S)'
    <2>1. /\ pipe[i][x] \in Seq(Nat)
          /\ Follows(pipe[i][x], drained[i][x], queued[i][x], S)
      BY CutFacts DEF CutAt, PipeFollows
    <2>2. CASE i = j /\ Drains(j, x, b)
      <3>1. pipe[j][x] # <<>>
        BY <2>2 DEF Drains
      <3>2. Follows(Tail(pipe[j][x]), drained[j][x] + Head(pipe[j][x]), queued[j][x], S)
        BY <2>1, <2>2, <3>1, FollowsTail
      <3> QED BY <1>2, <2>2, <3>2 DEF PipeFollows
    <2>3. CASE ~(i = j /\ Drains(j, x, b))
      <3>1. pipe'[i][x] = pipe[i][x] /\ drained'[i][x] = drained[i][x]
        BY <1>2, <2>3
      <3> QED BY <1>2, <2>1, <3>1 DEF PipeFollows
    <2> QED BY <2>2, <2>3
  <1> QED BY <1>2, <1>3 DEF CutAt, LinkFollows, Reaches

(* What the other steps do to a link that is not empty of beats.             *)
LEMMA ReceiveElseIdles ==
    ASSUME TypeOK, NEW j \in Client, NEW m \in Client, NEW x \in Client,
           \/ ReceiveAdvance(j, m) /\ x # m
           \/ ReceiveAck(j, m)
           \/ ReceiveEject(j, m),
           NEW i \in Client, i # x
    PROVE  LinkIdles(x, i)
  <1>1. UNCHANGED <<ejectPending, gone>>
    BY DEF ReceiveAdvance, ReceiveAck, ReceiveEject, ejectVars, envVars
  <1>2. Reaches(x, i)' = Reaches(x, i)
    BY <1>1 DEF Reaches
  <1>3. CASE ReceiveAdvance(j, m) /\ x # m
    <2> DEFINE msg == AckMsg(m, queued[j][m] + Head(link[m][j]).delta)
    <2>1. /\ link' = Broadcast(Pulled(j, m), j, msg)
          /\ link[m][j] # <<>>
      BY <1>3 DEF ReceiveAdvance, Pulls
    <2>2. msg \in Message /\ Beats(msg) = 0
      <3>1. Head(link[m][j]) \in Message
        BY <2>1, PulledType
      <3>2. queued[j][m] \in Nat
        BY DEF TypeOK
      <3>3. Head(link[m][j]).delta \in Nat
        BY <3>1 DEF Message
      <3>4. queued[j][m] + Head(link[m][j]).delta \in Nat
        BY <3>2, <3>3
      <3> QED BY <3>4, AckMsgType DEF AckMsg, Beats
    <2>3. Pulled(j, m)[x][i] = link[x][i]
      BY <1>3, PulledLinks
    <2> HIDE DEF msg
    <2>4. link'[x][i] = link[x][i] \/ link'[x][i] = Append(link[x][i], msg)
      BY <2>1, <2>3 DEF Broadcast
    <2> QED BY <1>2, <2>2, <2>4 DEF LinkIdles
  <1>4. CASE ReceiveAck(j, m) \/ ReceiveEject(j, m)
    <2>1. /\ link' = Pulled(j, m)
          /\ link[m][j] # <<>>
          /\ Beats(Head(link[m][j])) = 0
      BY <1>4 DEF ReceiveAck, ReceiveEject, Pulls, Beats
    <2> QED BY <1>2, <2>1, PulledLinks DEF LinkIdles
  <1> QED BY <1>3, <1>4

LEMMA EjectIdles ==
    ASSUME TypeOK, NEW j \in Client, NEW y \in Client, Eject(j, y), UNCHANGED gone,
           NEW x \in Client, NEW i \in Client, i # x
    PROVE  LinkIdles(x, i)
  <1> DEFINE msg == EjectMsg(y, queued[j][y])
             l == Broadcast(link, j, msg)
  <1>0. link \in Links /\ queued[j][y] \in Nat
    BY DEF TypeOK, Links
  <1>1. link \in Links /\ ejectPending \in [Client -> [Client -> BOOLEAN]]
    BY DEF TypeOK, Links
  <1>2. msg \in Message /\ Beats(msg) = 0
    BY <1>0, EjectMsgType DEF EjectMsg, Beats
  <1>3. l \in Links
    BY <1>1, <1>2, BroadcastType
  <1>4. /\ link' = [l EXCEPT ![j][y] = link[j][y], ![y][j] = <<>>]
        /\ ejectPending' = [ejectPending EXCEPT ![j][y] = TRUE]
        /\ j # y
    BY DEF Eject, LinksAfterEject
  <1>5. l[x][i] = link[x][i] \/ l[x][i] = Append(link[x][i], msg)
    BY DEF Broadcast
  <1> HIDE DEF l, msg
  <1>6. Reaches(x, i)' => Reaches(x, i)
    BY <1>1, <1>4 DEF Reaches
  <1>7. CASE x = y /\ i = j
    <2>1. link'[x][i] = <<>>
      BY <1>1, <1>3, <1>4, <1>7 DEF Links
    <2>2. ~Reaches(x, i)'
      BY <1>1, <1>4, <1>7 DEF Reaches
    <2> QED BY <1>6, <2>1, <2>2 DEF LinkIdles
  <1>8. CASE ~(x = y /\ i = j)
    <2>1. link'[x][i] = link[x][i] \/ link'[x][i] = l[x][i]
      BY <1>1, <1>3, <1>4, <1>8 DEF Links
    <2> QED BY <1>2, <1>5, <1>6, <2>1 DEF LinkIdles
  <1> QED BY <1>7, <1>8

LEMMA CutAlikeStep ==
    ASSUME TypeOK, StreamsAreCutAlike, [Next]_vars
    PROVE  StreamsAreCutAlike'
  <1> SUFFICES ASSUME NEW x \in Client PROVE \E S \in SUBSET Nat : CutAt(x, S)'
    BY DEF StreamsAreCutAlike
  <1>1. PICK S \in SUBSET Nat : CutAt(x, S)
    BY DEF StreamsAreCutAlike
  <1>2. /\ queued \in [Client -> [Client -> Nat]]
        /\ pipe \in [Client -> [Client -> Seq(Nat)]]
        /\ link \in Links
    BY DEF TypeOK, Links
  <1>3. ASSUME UNCHANGED <<queued, pipe, drained>>,
               \A i \in Client : i # x => LinkIdles(x, i)
        PROVE  CutAt(x, S)'
    BY <1>1, <1>3, IdleStreamIsCut
  <1>4. ASSUME NEW j \in Client, NEW n \in Advances, Issue(j, n)
        PROVE  \E S2 \in SUBSET Nat : CutAt(x, S2)'
    <2>1. CASE j = x
      BY <1>1, <1>4, <2>1, IssueIsCut
    <2>2. CASE j # x
      <3>1. /\ queued' = [queued EXCEPT ![j][j] = @ + n]
            /\ pipe' = [pipe EXCEPT ![j][j] = Append(@, n)]
            /\ link' = Broadcast(link, j, AdvanceMsg(j, n, queued[j][j] + n))
            /\ UNCHANGED <<drained, ejectPending, gone>>
        BY <1>4 DEF Issue, QueueAdvance, ejectVars, envVars
      <3>2. \A i \in Client : /\ queued'[i][x] = queued[i][x]
                              /\ pipe'[i][x] = pipe[i][x]
                              /\ link'[x][i] = link[x][i]
        BY <1>2, <2>2, <3>1 DEF Broadcast
      <3>3. \A i \in Client : LinkIdles(x, i)
        BY <3>1, <3>2 DEF LinkIdles, Reaches
      <3> QED BY <1>1, <3>1, <3>2, <3>3, IdleStreamIsCut
    <2> QED BY <2>1, <2>2
  <1>5. ASSUME NEW j \in Client, DoBeat(j)
        PROVE  CutAt(x, S)'
    <2>1. ASSUME NEW m \in Client, ReceiveAdvance(j, m)
          PROVE  CutAt(x, S)'
      <3>1. CASE m = x
        BY <1>1, <2>1, <3>1, ReceiveAdvanceIsCut
      <3>2. CASE m # x
        <4>1. /\ queued' = [queued EXCEPT ![j][m] = @ + Head(link[m][j]).delta]
              /\ pipe' = [pipe EXCEPT ![j][m] = Append(@, Head(link[m][j]).delta)]
              /\ UNCHANGED drained
          BY <2>1 DEF ReceiveAdvance, QueueAdvance
        <4>2. \A i \in Client : queued'[i][x] = queued[i][x] /\ pipe'[i][x] = pipe[i][x]
          BY <1>2, <3>2, <4>1
        <4>3. \A i \in Client : i # x => LinkIdles(x, i)
          BY <2>1, <3>2, ReceiveElseIdles
        <4> QED BY <1>1, <4>1, <4>2, <4>3, IdleStreamIsCut
      <3> QED BY <3>1, <3>2
    <2>2. ASSUME NEW m \in Client, ReceiveAck(j, m) \/ ReceiveEject(j, m)
          PROVE  CutAt(x, S)'
      <3>1. UNCHANGED <<queued, pipe, drained>>
        BY <2>2 DEF ReceiveAck, ReceiveEject, streamVars
      <3>2. \A i \in Client : i # x => LinkIdles(x, i)
        BY <2>2, ReceiveElseIdles
      <3> QED BY <1>3, <3>1, <3>2
    <2>3. ASSUME NEW m \in Client, ReceiveConnLost(j, m)
          PROVE  CutAt(x, S)'
      <3>1. Eject(j, m) /\ UNCHANGED <<queued, pipe, drained, gone>>
        BY <2>3 DEF ReceiveConnLost, Eject, streamVars
      <3> QED BY <1>3, <3>1, EjectIdles
    <2>4. ASSUME PullNothing
          PROVE  CutAt(x, S)'
      BY <1>3, <2>4 DEF PullNothing, streamVars, ejectVars, envVars, LinkIdles, Reaches
    <2> QED BY <1>5, <2>1, <2>2, <2>3, <2>4 DEF DoBeat
  <1>6. ASSUME NEW j \in Client, NEW y \in Client, EjectSessionClient(j, y)
        PROVE  CutAt(x, S)'
    <2>1. Eject(j, y) /\ UNCHANGED <<queued, pipe, drained, gone>>
      BY <1>6 DEF EjectSessionClient, Eject, streamVars
    <2> QED BY <1>3, <2>1, EjectIdles
  <1>7. ASSUME NEW j \in Client, Dispatch(j)
        PROVE  CutAt(x, S)'
    BY <1>1, <1>7, DispatchIsCut
  <1>8. ASSUME NEW j \in Client, Leave(j)
        PROVE  CutAt(x, S)'
    <2>1. /\ UNCHANGED <<queued, pipe, drained, ejectPending>>
          /\ gone' = gone \cup {j}
          /\ link' = [k \in Client |-> [link[k] EXCEPT ![j] = <<>>]]
      BY <1>8 DEF Leave, streamVars, ejectVars
    <2>2. ASSUME NEW i \in Client, i # x PROVE LinkIdles(x, i)
      <3>1. Reaches(x, i)' => Reaches(x, i)
        BY <2>1 DEF Reaches
      <3>2. CASE i = j
        <4>1. link'[x][i] = <<>> /\ ~Reaches(x, i)'
          BY <1>2, <2>1, <3>2 DEF Links, Reaches
        <4> QED BY <3>1, <4>1 DEF LinkIdles
      <3>3. CASE i # j
        <4>1. link'[x][i] = link[x][i]
          BY <1>2, <2>1, <3>3 DEF Links
        <4> QED BY <3>1, <4>1 DEF LinkIdles
      <3> QED BY <3>2, <3>3
    <2> QED BY <1>3, <2>1, <2>2
  <1>9. CASE UNCHANGED vars
    BY <1>3, <1>9 DEF vars, streamVars, ejectVars, envVars, LinkIdles, Reaches
  <1> QED BY <1>4, <1>5, <1>6, <1>7, <1>8, <1>9 DEF Next

LEMMA CutAlikeInit ==
    ASSUME Init
    PROVE  StreamsAreCutAlike
  <1> SUFFICES ASSUME NEW x \in Client PROVE CutAt(x, {0})
    BY DEF StreamsAreCutAlike
  <1>1. Follows(<<>>, 0, 0, {0})
    BY FollowsEmpty
  <1> QED BY <1>1, BeatsOfEmpty DEF Init, CutAt, PipeFollows, LinkFollows

(***************************************************************************)
(* One departure.                                                          *)
(***************************************************************************)

(* At most one player leaves, no link fails and nobody is ejected by hand.   *)
(* With a second leaver the theorem is false: a survivor that ejects it      *)
(* forgets where it had asked the first one's stream to end                  *)
(* (RemoveEjectRequestsByRequester), and may run that stream further than    *)
(* one that had ended it there.                                              *)
OneLeaver == MaxCuts = 0 /\ \A x, y \in Leavers : x = y

(* So only a player that has left is ever ejected.                           *)
OnlyTheGoneAreEjected ==
    /\ cuts = 0
    /\ gone \subseteq Leavers
    /\ \A i, x \in Client : ejectPending[i][x] => x \in gone

(* What a player reports of an ejected one is the last beat it ever holds,   *)
(* on its way and where it has been filed.                                   *)
EjectIsFinal(k, msg) ==
    msg.op = "Eject" =>
        ejectPending[k][msg.client] /\ msg.beat = queued[k][msg.client]

EjectsAreFinal ==
    \A i, k \in Client : \A n \in DOMAIN link[k][i] : EjectIsFinal(k, link[k][i][n])

RequestsAreFinal ==
    \A i, k, x \in Client :
        ejectRequests[i][x][k] # NoRequest =>
            ejectPending[k][x] /\ ejectRequests[i][x][k] = queued[k][x]

(* A stream ends at a beat somebody has reported, and a beat that was        *)
(* available.                                                                *)
EndedWhereAsked ==
    \A i, x \in Client :
        ejected[i][x] => /\ ~BeforeEject(i, x, drained[i][x])
                         /\ drained[i][x] <= availableBeat[i]

(* A beat some survivor m will never hold of the leaver's stream is          *)
(* available only to one who knows of a report no more than a beat later.    *)
AvailablePast ==
    \A i, m, x \in Client :
        x \in Leavers /\ i # x /\ m # x /\ availableBeat[i] > queued[m][x] =>
            ejectPending[i][x] /\ ~BeforeEject(i, x, queued[m][x] + 1)

(* So nobody runs the leaver's orders more than a beat past what another     *)
(* survivor holds.                                                           *)
DrainedPast ==
    \A i, m, x \in Client :
        x \in Leavers /\ i # x /\ m # x => drained[i][x] <= queued[m][x] + 1

(* The inductive invariant.                                                  *)
LastBeatInv ==
    /\ StreamInv
    /\ StreamsAreCutAlike
    /\ OnlyTheGoneAreEjected
    /\ EjectsAreFinal
    /\ RequestsAreFinal
    /\ EndedWhereAsked
    /\ AvailablePast
    /\ DrainedPast

(* The earlier invariants it holds.                                          *)
LEMMA LastBeatParts ==
    ASSUME LastBeatInv
    PROVE  /\ TypeOK
           /\ MessagesAreTrue
           /\ AcksAreTrue
           /\ EjectedArePending
           /\ NeverEjectsItself
           /\ StreamsKeepUp
  BY DEF LastBeatInv, StreamInv, CountersInv, BarrierInv

(* A report stays below every later beat.                                    *)
LEMMA BeforeEjectFalls ==
    ASSUME TypeOK, NEW i \in Client, NEW x \in Client, NEW a \in Nat, NEW b \in Nat, a <= b,
           BeforeEject(i, x, b)
    PROVE  BeforeEject(i, x, a)
  <1>1. queued[i][x] \in Nat
    BY DEF TypeOK
  <1>2. \A k \in Client : ejectRequests[i][x][k] # NoRequest => ejectRequests[i][x][k] \in Nat
    BY DEF TypeOK
  <1> QED BY <1>1, <1>2 DEF BeforeEject

(* Nobody who plays on ejects a player that has not left.                    *)
LEMMA OnlyTheGoneAreLost ==
    ASSUME OneLeaver, TypeOK, OnlyTheGoneAreEjected, NEW i \in Client, i \notin gone,
           NEW x \in Client, ReceiveConnLost(i, x)
    PROVE  x \in gone /\ UNCHANGED <<gone, cuts>>
  <1>1. ~(cuts < MaxCuts)
    BY DEF OneLeaver, OnlyTheGoneAreEjected
  <1>2. LinkClosed(i, x) /\ cuts' = cuts
    BY <1>1 DEF ReceiveConnLost
  <1> QED BY <1>2 DEF LinkClosed, OnlyTheGoneAreEjected, ReceiveConnLost

LEMMA NobodyIsEjectedByHand ==
    ASSUME OneLeaver, OnlyTheGoneAreEjected, NEW i \in Client, NEW x \in Client
    PROVE  ~EjectSessionClient(i, x)
  BY DEF OneLeaver, OnlyTheGoneAreEjected, EjectSessionClient

LEMMA DeparturesStep ==
    ASSUME OneLeaver, TypeOK, OnlyTheGoneAreEjected, [Next]_vars
    PROVE  OnlyTheGoneAreEjected'
  <1>0. ejectPending \in [Client -> [Client -> BOOLEAN]]
    BY DEF TypeOK
  <1>1. ASSUME UNCHANGED <<ejectPending, gone, cuts>>
        PROVE  OnlyTheGoneAreEjected'
    BY <1>1 DEF OnlyTheGoneAreEjected
  <1>2. ASSUME NEW i \in Client, NEW n \in Advances, Issue(i, n)
        PROVE  OnlyTheGoneAreEjected'
    BY <1>1, <1>2 DEF Issue, ejectVars, envVars
  <1>3. ASSUME NEW i \in Client, DoBeat(i)
        PROVE  OnlyTheGoneAreEjected'
    <2>1. ASSUME NEW k \in Client,
                 ReceiveAdvance(i, k) \/ ReceiveAck(i, k) \/ ReceiveEject(i, k)
          PROVE  OnlyTheGoneAreEjected'
      BY <1>1, <2>1 DEF ReceiveAdvance, ReceiveAck, ReceiveEject, ejectVars, envVars
    <2>2. ASSUME NEW k \in Client, ReceiveConnLost(i, k)
          PROVE  OnlyTheGoneAreEjected'
      <3>1. k \in gone /\ UNCHANGED <<gone, cuts>>
        BY <1>3, <2>2, OnlyTheGoneAreLost DEF DoBeat
      <3>2. ejectPending' = [ejectPending EXCEPT ![i][k] = TRUE]
        BY <2>2 DEF ReceiveConnLost, Eject
      <3> QED BY <1>0, <3>1, <3>2 DEF OnlyTheGoneAreEjected
    <2>3. ASSUME PullNothing
          PROVE  OnlyTheGoneAreEjected'
      BY <1>1, <2>3 DEF PullNothing, ejectVars, envVars
    <2> QED BY <1>3, <2>1, <2>2, <2>3 DEF DoBeat
  <1>4. ASSUME NEW i \in Client, NEW x \in Client, EjectSessionClient(i, x)
        PROVE  OnlyTheGoneAreEjected'
    BY <1>4, NobodyIsEjectedByHand
  <1>5. ASSUME NEW i \in Client, Dispatch(i)
        PROVE  OnlyTheGoneAreEjected'
    BY <1>1, <1>5 DEF Dispatch, envVars
  <1>6. ASSUME NEW i \in Client, Leave(i)
        PROVE  OnlyTheGoneAreEjected'
    BY <1>6 DEF Leave, ejectVars, OnlyTheGoneAreEjected
  <1>7. CASE UNCHANGED vars
    BY <1>1, <1>7 DEF vars, ejectVars, envVars
  <1> QED BY <1>2, <1>3, <1>4, <1>5, <1>6, <1>7 DEF Next

(* What a player holds only grows, and of a player it has ejected not at all.*)
QueuesFreeze ==
    /\ HoldingsRise
    /\ PendingStays
    /\ \A k, x \in Client : ejectPending[k][x] => queued'[k][x] = queued[k][x]

LEMMA QueuesStep ==
    ASSUME TypeOK, MessagesAreTrue, NeverEjectsItself, [Next]_vars
    PROVE  QueuesFreeze
  <1>1. queued \in [Client -> [Client -> Nat]]
    BY DEF TypeOK
  <1>2. ASSUME UNCHANGED queued, PendingStays
        PROVE  QueuesFreeze
    BY <1>1, <1>2 DEF QueuesFreeze, HoldingsRise
  <1>3. ASSUME NEW i \in Client, NEW x \in Client, NEW n, HoldingsRise, PendingStays,
               QueueAdvance(i, x, n), ~ejectPending[i][x]
        PROVE  QueuesFreeze
    BY <1>1, <1>3 DEF QueueAdvance, QueuesFreeze
  <1>4. ASSUME NEW i \in Client, NEW n \in Advances, Issue(i, n)
        PROVE  QueuesFreeze
    <2>1. PendingStays
      BY <1>4 DEF Issue, ejectVars, PendingStays
    <2>2. HoldingsRise
      BY <1>4, IssueKeepsTruth, SessionAssumption DEF TruthKept
    <2> QED BY <1>3, <1>4, <2>1, <2>2 DEF Issue, NeverEjectsItself
  <1>5. ASSUME NEW i \in Client, DoBeat(i)
        PROVE  QueuesFreeze
    <2>1. HoldingsRise /\ PendingStays
      BY <1>5, PullKeepsTruth DEF TruthKept
    <2>2. ASSUME NEW k \in Client, ReceiveAdvance(i, k)
          PROVE  QueuesFreeze
      BY <1>3, <2>1, <2>2 DEF ReceiveAdvance, Pulls
    <2>3. ASSUME NEW k \in Client,
                 ReceiveAck(i, k) \/ ReceiveEject(i, k) \/ ReceiveConnLost(i, k)
          PROVE  QueuesFreeze
      BY <1>2, <2>1, <2>3 DEF ReceiveAck, ReceiveEject, ReceiveConnLost, Eject, streamVars
    <2>4. ASSUME PullNothing
          PROVE  QueuesFreeze
      BY <1>2, <2>1, <2>4 DEF PullNothing, streamVars
    <2> QED BY <1>5, <2>2, <2>3, <2>4 DEF DoBeat
  <1>6. ASSUME NEW i \in Client, NEW x \in Client, EjectSessionClient(i, x)
        PROVE  QueuesFreeze
    BY <1>2, <1>6, EjectPendingStays DEF EjectSessionClient, Eject, streamVars
  <1>7. ASSUME NEW i \in Client, Dispatch(i) \/ Leave(i)
        PROVE  QueuesFreeze
    BY <1>2, <1>7 DEF Dispatch, Leave, streamVars, ejectVars, PendingStays
  <1>8. CASE UNCHANGED vars
    BY <1>2, <1>8 DEF vars, streamVars, ejectVars, PendingStays
  <1> QED BY <1>4, <1>5, <1>6, <1>7, <1>8 DEF Next

(* Every message on a link after a step was on it before, or is no report,   *)
(* or one of a player just ejected.                                          *)
NewEjectsAreFinal ==
    \A a, c \in Client : \A n \in DOMAIN link'[a][c] :
        \/ \E m \in DOMAIN link[a][c] : link'[a][c][n] = link[a][c][m]
        \/ EjectIsFinal(a, link[a][c][n])'

(* Reports stay final, as what a player holds of an ejected one is frozen.   *)
LEMMA EjectsStayFinal ==
    ASSUME TypeOK, EjectsAreFinal, QueuesFreeze, NewEjectsAreFinal
    PROVE  EjectsAreFinal'
  <1> SUFFICES ASSUME NEW i \in Client, NEW k \in Client, NEW n \in DOMAIN link'[k][i]
               PROVE  EjectIsFinal(k, link[k][i][n])'
    BY DEF EjectsAreFinal
  <1>1. CASE \E m \in DOMAIN link[k][i] : link'[k][i][n] = link[k][i][m]
    <2>1. PICK m \in DOMAIN link[k][i] : link'[k][i][n] = link[k][i][m]
      BY <1>1
    <2>2. EjectIsFinal(k, link[k][i][m])
      BY DEF EjectsAreFinal
    <2>3. link[k][i][m].client \in Client
      <3>1. link[k][i] \in Seq(Message)
        BY DEF TypeOK
      <3>2. link[k][i][m] \in Message
        BY <3>1
      <3> QED BY <3>2 DEF Message
    <2> QED BY <2>1, <2>2, <2>3 DEF EjectIsFinal, QueuesFreeze, PendingStays
  <1>2. CASE EjectIsFinal(k, link[k][i][n])'
    BY <1>2
  <1> QED BY <1>1, <1>2 DEF NewEjectsAreFinal

(* A step that writes one message, and one that writes none.                 *)
LEMMA OneMoreMessage ==
    ASSUME TypeOK, NEW l \in Links, NEW i \in Client, NEW msg \in Message, msg.op # "Eject",
           link' = Broadcast(l, i, msg),
           \A a, c \in Client : \A n \in DOMAIN l[a][c] :
              \E m \in DOMAIN link[a][c] : l[a][c][n] = link[a][c][m]
    PROVE  NewEjectsAreFinal
  <1> SUFFICES ASSUME NEW a \in Client, NEW c \in Client, NEW n \in DOMAIN link'[a][c]
               PROVE  \/ \E m \in DOMAIN link[a][c] : link'[a][c][n] = link[a][c][m]
                      \/ EjectIsFinal(a, link[a][c][n])'
    BY DEF NewEjectsAreFinal
  <1>1. \/ n \in DOMAIN l[a][c] /\ link'[a][c][n] = l[a][c][n]
        \/ link'[a][c][n] = msg
    BY BroadcastAdds
  <1> QED BY <1>1 DEF EjectIsFinal

LEMMA NoMoreMessages ==
    ASSUME \A a, c \in Client : \/ link'[a][c] = link[a][c]
                                \/ link'[a][c] = <<>>
    PROVE  NewEjectsAreFinal
  BY DEF NewEjectsAreFinal

LEMMA EjectReports ==
    ASSUME TypeOK, NEW i \in Client, NEW x \in Client, Eject(i, x)
    PROVE  NewEjectsAreFinal
  <1> DEFINE msg == EjectMsg(x, queued[i][x])
             l == Broadcast(link, i, msg)
  <1>0. queued[i][x] \in Nat
    BY DEF TypeOK
  <1>1. link \in Links /\ ejectPending \in [Client -> [Client -> BOOLEAN]]
    BY DEF TypeOK, Links
  <1>2. msg \in Message /\ msg.client = x /\ msg.beat = queued[i][x]
    BY <1>0, EjectMsgType DEF EjectMsg
  <1>3. l \in Links
    BY <1>1, <1>2, BroadcastType
  <1>4. /\ link' = [l EXCEPT ![i][x] = link[i][x], ![x][i] = <<>>]
        /\ queued' = queued
        /\ ejectPending'[i][x]
    BY <1>1 DEF Eject, LinksAfterEject, streamVars
  <1> HIDE DEF l, msg
  <1>5. EjectIsFinal(i, msg)'
    BY <1>2, <1>4 DEF EjectIsFinal, msg, EjectMsg
  <1> SUFFICES ASSUME NEW a \in Client, NEW c \in Client, NEW n \in DOMAIN link'[a][c]
               PROVE  \/ \E m \in DOMAIN link[a][c] : link'[a][c][n] = link[a][c][m]
                      \/ EjectIsFinal(a, link[a][c][n])'
    BY DEF NewEjectsAreFinal
  <1>6. link'[a][c] = link[a][c] \/ link'[a][c] = l[a][c] \/ link'[a][c] = <<>>
    BY <1>1, <1>3, <1>4 DEF Links
  <1>7. CASE link'[a][c] = link[a][c] \/ link'[a][c] = <<>>
    BY <1>7
  <1>8. CASE link'[a][c] = l[a][c]
    <2>1. \/ n \in DOMAIN link[a][c] /\ l[a][c][n] = link[a][c][n]
          \/ a = i /\ l[a][c][n] = msg
      BY <1>1, <1>2, <1>8, BroadcastAdds DEF l
    <2>2. CASE a = i /\ l[a][c][n] = msg
      <3>1. link'[a][c][n] = msg
        BY <1>8, <2>2
      <3> QED BY <1>2, <1>4, <2>2, <3>1 DEF EjectIsFinal
    <2> QED BY <1>8, <2>1, <2>2
  <1> QED BY <1>6, <1>7, <1>8

LEMMA ReportsStep ==
    ASSUME TypeOK, EjectsAreFinal, QueuesFreeze, [Next]_vars
    PROVE  EjectsAreFinal'
  <1> SUFFICES NewEjectsAreFinal
    BY EjectsStayFinal
  <1>1. link \in Links /\ queued \in [Client -> [Client -> Nat]]
    BY DEF TypeOK, Links
  <1>2. ASSUME UNCHANGED link
        PROVE  NewEjectsAreFinal
    BY <1>2, NoMoreMessages
  <1>3. ASSUME NEW i \in Client, NEW n \in Advances, Issue(i, n)
        PROVE  NewEjectsAreFinal
    <2> DEFINE msg == AdvanceMsg(i, n, queued[i][i] + n)
    <2>1. n \in Nat /\ queued[i][i] \in Nat
      BY <1>1, SessionAssumption
    <2>2. msg \in Message /\ msg.op # "Eject"
      BY <2>1, AdvanceMsgType DEF AdvanceMsg
    <2>3. link' = Broadcast(link, i, msg)
      BY <1>3 DEF Issue
    <2> HIDE DEF msg
    <2> QED BY <1>1, <2>2, <2>3, OneMoreMessage
  <1>4. ASSUME NEW i \in Client, DoBeat(i)
        PROVE  NewEjectsAreFinal
    <2>1. ASSUME NEW k \in Client, ReceiveAdvance(i, k)
          PROVE  NewEjectsAreFinal
      <3> DEFINE msg == AckMsg(k, queued[i][k] + Head(link[k][i]).delta)
      <3>1. link[k][i] # <<>> /\ link' = Broadcast(Pulled(i, k), i, msg)
        BY <2>1 DEF ReceiveAdvance, Pulls
      <3>2. Pulled(i, k) \in Links /\ Head(link[k][i]) \in Message
        BY <3>1, PulledType
      <3>3. Head(link[k][i]).delta \in Nat /\ queued[i][k] \in Nat
        BY <1>1, <3>2 DEF Message
      <3>4. msg \in Message /\ msg.op # "Eject"
        BY <3>3, AckMsgType DEF AckMsg
      <3>5. \A a, c \in Client : \A n \in DOMAIN Pulled(i, k)[a][c] :
               \E m \in DOMAIN link[a][c] : Pulled(i, k)[a][c][n] = link[a][c][m]
        BY <3>1, PulledKeeps
      <3> HIDE DEF msg
      <3> QED BY <3>1, <3>2, <3>4, <3>5, OneMoreMessage
    <2>2. ASSUME NEW k \in Client, ReceiveAck(i, k) \/ ReceiveEject(i, k)
          PROVE  NewEjectsAreFinal
      <3>1. link[k][i] # <<>> /\ link' = Pulled(i, k)
        BY <2>2 DEF ReceiveAck, ReceiveEject, Pulls
      <3> QED BY <3>1, PulledKeeps DEF NewEjectsAreFinal
    <2>3. ASSUME NEW k \in Client, ReceiveConnLost(i, k)
          PROVE  NewEjectsAreFinal
      BY <2>3, EjectReports DEF ReceiveConnLost
    <2> QED BY <1>2, <1>4, <2>1, <2>2, <2>3 DEF DoBeat, PullNothing
  <1>5. ASSUME NEW i \in Client, NEW x \in Client, EjectSessionClient(i, x)
        PROVE  NewEjectsAreFinal
    BY <1>5, EjectReports DEF EjectSessionClient
  <1>6. ASSUME NEW i \in Client, Dispatch(i)
        PROVE  NewEjectsAreFinal
    BY <1>2, <1>6 DEF Dispatch
  <1>7. ASSUME NEW i \in Client, Leave(i)
        PROVE  NewEjectsAreFinal
    <2>1. link' = [k \in Client |-> [link[k] EXCEPT ![i] = <<>>]]
      BY <1>7 DEF Leave
    <2>2. \A a, c \in Client : link'[a][c] = link[a][c] \/ link'[a][c] = <<>>
      BY <1>1, <2>1 DEF Links
    <2> QED BY <2>2, NoMoreMessages
  <1>8. CASE UNCHANGED vars
    BY <1>2, <1>8 DEF vars
  <1> QED BY <1>3, <1>4, <1>5, <1>6, <1>7, <1>8 DEF Next

(* What a step does to the requests about a player that is ejected: one may  *)
(* come, none changes.  The requester is never ejected in its turn.          *)
AsksStay ==
    \A i, x, k \in Client :
        ejectPending[i][x] => \/ ejectRequests'[i][x][k] = ejectRequests[i][x][k]
                              \/ ejectRequests[i][x][k] = NoRequest

(* Filing a report, or making one, leaves only final requests.               *)
LEMMA RequestsStep ==
    ASSUME OneLeaver, TypeOK, TypeOK', NeverEjectsItself, OnlyTheGoneAreEjected, EjectsAreFinal,
           RequestsAreFinal, QueuesFreeze, [Next]_vars
    PROVE  RequestsAreFinal' /\ AsksStay
  <1>1. /\ queued \in [Client -> [Client -> Nat]]
        /\ ejectPending \in [Client -> [Client -> BOOLEAN]]
        /\ ejectRequests \in [Client -> [Client -> [Client -> Nat \cup {NoRequest}]]]
    BY DEF TypeOK
  <1>2. ASSUME UNCHANGED ejectRequests
        PROVE  RequestsAreFinal' /\ AsksStay
    BY <1>2 DEF RequestsAreFinal, AsksStay, QueuesFreeze, PendingStays
  <1>3. ASSUME NEW i \in Client, NEW k \in Client, ReceiveEject(i, k)
        PROVE  RequestsAreFinal' /\ AsksStay
    <2> DEFINE msg == Head(link[k][i])
               y == msg.client
    <2>1. /\ link[k][i] # <<>>
          /\ msg.op = "Eject"
          /\ ejectRequests' = [ejectRequests EXCEPT ![i][y][k] = LowerRequest(@, msg.beat)]
          /\ UNCHANGED <<queued, ejectPending>>
      BY <1>3 DEF ReceiveEject, Pulls, streamVars
    <2>2. y \in Client /\ msg.beat \in Nat
      BY <2>1, PulledType DEF Message
    <2>3. ejectPending[k][y] /\ msg.beat = queued[k][y]
      <3>1. link[k][i] \in Seq(Message)
        BY DEF TypeOK
      <3>2. 1 \in DOMAIN link[k][i] /\ msg = link[k][i][1]
        BY <2>1, <3>1
      <3>3. EjectIsFinal(k, link[k][i][1])
        BY <3>2 DEF EjectsAreFinal
      <3> QED BY <2>1, <3>2, <3>3 DEF EjectIsFinal
    <2>4. ejectRequests'[i][y][k] = queued[k][y]
      <3>1. ejectRequests'[i][y][k] = LowerRequest(ejectRequests[i][y][k], msg.beat)
        BY <1>1, <2>1, <2>2
      <3>2. ejectRequests[i][y][k] \in {NoRequest, queued[k][y]}
        BY <2>2 DEF RequestsAreFinal
      <3> QED BY <2>3, <3>1, <3>2 DEF LowerRequest
    <2>5. \A a, z, c \in Client : ~(a = i /\ z = y /\ c = k) =>
                                      ejectRequests'[a][z][c] = ejectRequests[a][z][c]
      BY <1>1, <2>1, <2>2, ZenonT(30)
    <2> HIDE DEF msg
    <2>6. RequestsAreFinal'
      BY <2>1, <2>2, <2>3, <2>4, <2>5 DEF RequestsAreFinal
    <2>7. AsksStay
      BY <2>2, <2>4, <2>5 DEF RequestsAreFinal, AsksStay
    <2> QED BY <2>6, <2>7
  <1>4. ASSUME NEW i \in Client, i \notin gone, NEW x \in Client, ReceiveConnLost(i, x)
        PROVE  RequestsAreFinal' /\ AsksStay
    <2>1. /\ ~ejectPending[i][x]
          /\ ejectPending' = [ejectPending EXCEPT ![i][x] = TRUE]
          /\ ejectRequests' = [ejectRequests EXCEPT ![i] = RequestsAfterEject(i, x)]
          /\ UNCHANGED queued
      BY <1>4 DEF ReceiveConnLost, Eject, streamVars
    <2>2. x \in Leavers
      BY <1>4, OnlyTheGoneAreLost DEF OnlyTheGoneAreEjected
    <2>3. \A z \in Client : ~ejectPending[i][z]
      BY <2>1, <2>2 DEF OneLeaver, OnlyTheGoneAreEjected
    <2>4. \A a, z, c \in Client : a # i => ejectRequests'[a][z][c] = ejectRequests[a][z][c]
      BY <1>1, <2>1
    <2>5. AsksStay
      BY <2>3, <2>4 DEF AsksStay
    <2>6. ejectRequests[i][x][i] = NoRequest
      BY <2>1 DEF RequestsAreFinal
    <2>7. ASSUME NEW z \in Client, NEW c \in Client, ejectRequests'[i][z][c] # NoRequest
          PROVE  \/ ejectRequests'[i][z][c] = ejectRequests[i][z][c]
                 \/ z = x /\ c = i /\ ejectRequests'[i][z][c] = queued[i][x]
      <3>1. ejectRequests'[i][z][c] = IF c = x THEN NoRequest
                                      ELSE IF z = x /\ c = i
                                           THEN LowerRequest(ejectRequests[i][z][c], queued[i][x])
                                           ELSE ejectRequests[i][z][c]
        BY <1>1, <2>1 DEF RequestsAfterEject
      <3> QED BY <2>6, <2>7, <3>1 DEF LowerRequest
    <2>8. ejectPending'[i][x] /\ PendingStays
      BY <1>1, <2>1 DEF QueuesFreeze
    <2>9. RequestsAreFinal'
      BY <2>1, <2>4, <2>7, <2>8 DEF RequestsAreFinal, PendingStays
    <2> QED BY <2>5, <2>9
  <1>5. ASSUME NEW i \in Client, DoBeat(i)
        PROVE  RequestsAreFinal' /\ AsksStay
    <2>1. ASSUME NEW k \in Client, ReceiveAdvance(i, k) \/ ReceiveAck(i, k)
          PROVE  UNCHANGED ejectRequests
      BY <2>1 DEF ReceiveAdvance, ReceiveAck, ejectVars
    <2> QED BY <1>2, <1>3, <1>4, <1>5, <2>1 DEF DoBeat, PullNothing, ejectVars
  <1>6. ASSUME NEW i \in Client, \/ \E n \in Advances : Issue(i, n)
                                 \/ Dispatch(i)
                                 \/ Leave(i)
        PROVE  RequestsAreFinal' /\ AsksStay
    BY <1>2, <1>6 DEF Issue, Dispatch, Leave, ejectVars
  <1>7. CASE UNCHANGED vars
    BY <1>2, <1>7 DEF vars, ejectVars
  <1> QED BY <1>5, <1>6, <1>7, NobodyIsEjectedByHand DEF Next

(* A report about an ejected player is never taken back.                     *)
LEMMA ReportsStay ==
    ASSUME TypeOK, TypeOK', QueuesFreeze, AsksStay, NEW i \in Client, NEW x \in Client,
           ejectPending[i][x], NEW b \in Nat, ~BeforeEject(i, x, b)
    PROVE  ~BeforeEject(i, x, b)'
  <1>1. queued'[i][x] = queued[i][x]
    BY DEF QueuesFreeze
  <1>2. ASSUME NEW k \in Client, ejectRequests[i][x][k] # NoRequest
        PROVE  ejectRequests'[i][x][k] = ejectRequests[i][x][k]
    BY <1>2 DEF AsksStay
  <1> QED BY <1>1, <1>2 DEF BeforeEject

(* An ended stream has ended at a beat that is reported from then on.        *)
LEMMA EndsStep ==
    ASSUME TypeOK, TypeOK', EjectedArePending, QueuesFreeze, AsksStay, EndedWhereAsked,
           [Next]_vars
    PROVE  EndedWhereAsked'
  <1>1. /\ drained \in [Client -> [Client -> Nat]]
        /\ ejected \in [Client -> [Client -> BOOLEAN]]
        /\ availableBeat \in [Client -> Nat]
        /\ availableBeat' \in [Client -> Nat]
        /\ dispatchedBeat \in [Client -> Nat]
        /\ queued' \in [Client -> [Client -> Nat]]
    BY DEF TypeOK
  <1>2. ASSUME UNCHANGED <<drained, ejected>>,
               \A i \in Client : availableBeat[i] <= availableBeat'[i]
        PROVE  EndedWhereAsked'
    <2> SUFFICES ASSUME NEW i \in Client, NEW x \in Client, ejected[i][x]
                 PROVE  /\ ~BeforeEject(i, x, drained[i][x])'
                        /\ drained[i][x] <= availableBeat'[i]
      BY <1>2 DEF EndedWhereAsked
    <2>1. /\ drained[i][x] \in Nat
          /\ drained' = drained
          /\ ~BeforeEject(i, x, drained[i][x])
          /\ drained[i][x] <= availableBeat[i]
          /\ ejectPending[i][x]
      BY <1>1, <1>2 DEF EndedWhereAsked, EjectedArePending
    <2>2. \A b \in Nat : ~BeforeEject(i, x, b) => ~BeforeEject(i, x, b)'
      BY <2>1, ReportsStay
    <2>3. ~BeforeEject(i, x, drained[i][x])'
      BY <2>1, <2>2 DEF BeforeEject
    <2>4. availableBeat[i] <= availableBeat'[i]
      BY <1>2
    <2> QED BY <1>1, <2>1, <2>3, <2>4
  <1>3. ASSUME UNCHANGED <<drained, ejected, availableBeat>>
        PROVE  EndedWhereAsked'
    BY <1>1, <1>2, <1>3
  <1>4. ASSUME NEW i \in Client, DoBeat(i)
        PROVE  EndedWhereAsked'
    <2>1. UNCHANGED <<drained, ejected>>
      BY <1>4 DEF DoBeat, ReceiveAdvance, ReceiveAck, ReceiveEject, ReceiveConnLost, Eject,
                  PullNothing, streamVars, ejectVars
    <2>2. PICK a \in availableBeat[i] .. queued'[i][i] :
               availableBeat' = [availableBeat EXCEPT ![i] = a]
      BY <1>4 DEF DoBeat, StepCounters
    <2>3. availableBeat[i] <= a
      BY <1>1
    <2>4. \A j \in Client : availableBeat[j] <= availableBeat'[j]
      BY <1>1, <2>2, <2>3
    <2> QED BY <1>2, <2>1, <2>4
  <1>5. ASSUME NEW i \in Client, Dispatch(i)
        PROVE  EndedWhereAsked'
    <2> DEFINE b == dispatchedBeat[i] + 1
    <2>1. /\ UNCHANGED <<queued, ejectRequests, availableBeat>>
          /\ b <= availableBeat[i]
          /\ \A a, x \in Client : a # i => /\ drained'[a][x] = drained[a][x]
                                           /\ ejected'[a][x] = ejected[a][x]
          /\ \A x \in Client : ejected'[i][x] = (ejected[i][x] \/ Terminates(i, x, b))
          /\ \A x \in Client : ~Drains(i, x, b) => drained'[i][x] = drained[i][x]
      BY <1>1, <1>5 DEF Dispatch
    <2> SUFFICES ASSUME NEW j \in Client, NEW x \in Client, ejected'[j][x]
                 PROVE  /\ ~BeforeEject(j, x, drained'[j][x])
                        /\ drained'[j][x] <= availableBeat[j]
      BY <2>1 DEF EndedWhereAsked, BeforeEject
    <2>2. CASE j # i \/ ejected[i][x]
      <3>1. drained'[j][x] = drained[j][x] /\ ejected[j][x]
        BY <2>1, <2>2 DEF Drains
      <3> QED BY <3>1 DEF EndedWhereAsked
    <2>3. CASE j = i /\ ~ejected[i][x]
      <3>1. Terminates(i, x, b)
        BY <2>1, <2>3
      <3>2. /\ ~BeforeEject(i, x, drained[i][x])
            /\ drained[i][x] < b
            /\ ejectPending[i][x]
        BY <3>1 DEF Terminates
      <3>3. drained'[i][x] = drained[i][x]
        BY <2>1, <3>2 DEF Drains
      <3>4. drained[i][x] \in Nat /\ b \in Nat /\ availableBeat[i] \in Nat
        BY <1>1
      <3> HIDE DEF b
      <3> QED BY <2>1, <2>3, <3>2, <3>3, <3>4
    <2> QED BY <2>2, <2>3
  <1>6. ASSUME NEW i \in Client, NEW n \in Advances, Issue(i, n)
        PROVE  EndedWhereAsked'
    BY <1>3, <1>6 DEF Issue, ejectVars
  <1>7. ASSUME NEW i \in Client, NEW x \in Client, EjectSessionClient(i, x)
        PROVE  EndedWhereAsked'
    BY <1>3, <1>7 DEF EjectSessionClient, Eject, streamVars
  <1>8. ASSUME NEW i \in Client, Leave(i)
        PROVE  EndedWhereAsked'
    BY <1>3, <1>8 DEF Leave, streamVars, ejectVars
  <1>9. CASE UNCHANGED vars
    BY <1>3, <1>9 DEF vars, streamVars, ejectVars
  <1> QED BY <1>4, <1>5, <1>6, <1>7, <1>8, <1>9 DEF Next

(* One survivor i of the leaver x, and another, m, that holds q beats of it: *)
(* the beats i finds available pass q only once i knows of a report of x no  *)
(* more than a beat later.  Otherwise i would wait for m to acknowledge it.  *)
LEMMA AvailableStep ==
    ASSUME OneLeaver, LastBeatInv, TypeOK', AcksAreTrue', EjectedArePending', EndedWhereAsked',
           OnlyTheGoneAreEjected', QueuesFreeze, AsksStay, [Next]_vars
    PROVE  AvailablePast'
  <1> SUFFICES ASSUME NEW i \in Client, NEW m \in Client, NEW x \in Client, x \in Leavers,
                      i # x, m # x, availableBeat'[i] > queued'[m][x]
               PROVE  ejectPending'[i][x] /\ ~BeforeEject(i, x, queued[m][x] + 1)'
    BY DEF AvailablePast
  <1>1. /\ availableBeat \in [Client -> Nat]
        /\ availableBeat' \in [Client -> Nat]
        /\ queued \in [Client -> [Client -> Nat]]
        /\ queued' \in [Client -> [Client -> Nat]]
        /\ ack' \in [Client -> [Client -> [Client -> Nat]]]
        /\ drained \in [Client -> [Client -> Nat]]
    BY LastBeatParts DEF TypeOK
  <1> DEFINE q == queued[m][x]
             a == availableBeat[i]
             a2 == availableBeat'[i]
  <1>0. PICK q2 \in Nat : q2 = queued'[m][x]
    BY <1>1
  <1>2. q \in Nat /\ a \in Nat /\ a2 \in Nat /\ q <= q2 /\ q2 < a2
    <2>1. q <= q2
      BY <1>0 DEF QueuesFreeze, HoldingsRise
    <2> QED BY <1>0, <1>1, <2>1
  <1>3. TypeOK
    BY LastBeatParts
  <1>4. ASSUME NEW b \in Nat, b <= q2 + 1, ~BeforeEject(i, x, b)'
        PROVE  ~BeforeEject(i, x, q2 + 1)'
    <2>1. queued'[i][x] \in Nat
      BY <1>1
    <2>2. \A k \in Client : ejectRequests'[i][x][k] # NoRequest => ejectRequests'[i][x][k] \in Nat
      BY DEF TypeOK
    <2>3. q2 + 1 \in Nat
      BY <1>2
    <2> QED BY <1>4, <2>1, <2>2, <2>3 DEF BeforeEject
  <1>5. ASSUME ejectPending'[i][x], NEW b \in Nat, b <= q2 + 1, ~BeforeEject(i, x, b)'
        PROVE  ejectPending'[i][x] /\ ~BeforeEject(i, x, queued[m][x] + 1)'
    <2>1. ~BeforeEject(i, x, q2 + 1)'
      BY <1>4, <1>5
    <2> QED BY <1>0, <1>5, <2>1 DEF BeforeEject
  <1>6. CASE a > q2
    <2>1. ejectPending[i][x] /\ ~BeforeEject(i, x, q + 1)
      BY <1>2, <1>6 DEF LastBeatInv, AvailablePast
    <2>2. q + 1 \in Nat /\ q + 1 <= q2 + 1
      BY <1>2
    <2>3. \A b \in Nat : ~BeforeEject(i, x, b) => ~BeforeEject(i, x, b)'
      BY <1>3, <2>1, ReportsStay
    <2>4. ejectPending'[i][x]
      BY <2>1 DEF QueuesFreeze, PendingStays
    <2>5. PICK b \in Nat : b = q + 1
      BY <2>2
    <2> QED BY <1>5, <2>1, <2>2, <2>3, <2>4, <2>5
  <1>7. CASE ~(a > q2)
    <2>0. PICK b \in Nat : b = q2 + 1
      OBVIOUS
    <2>1. a2 > a
      BY <1>2, <1>7
    <2>2. PICK j \in Client : DoBeat(j)
      <3>1. ASSUME UNCHANGED availableBeat PROVE FALSE
        BY <1>1, <2>1, <3>1
      <3> QED BY <3>1 DEF Next, Issue, EjectSessionClient, Dispatch, Leave, vars
    <2>3. UNCHANGED <<drained, ejected>>
      BY <2>2 DEF DoBeat, ReceiveAdvance, ReceiveAck, ReceiveEject, ReceiveConnLost, Eject,
                  PullNothing, streamVars, ejectVars
    <2>4. PICK top \in availableBeat[j] .. queued'[j][j] :
               /\ \A c \in availableBeat[j] + 1 .. top : EveryoneResponsiveSince(j, c)'
               /\ availableBeat' = [availableBeat EXCEPT ![j] = top]
      BY <2>2 DEF DoBeat, StepCounters
    <2>5. j = i /\ a2 = top
      BY <1>1, <1>2, <2>1, <2>4
    <2>6. b \in a + 1 .. a2
      BY <1>2, <1>7, <2>0
    <2>7. EveryoneResponsiveSince(i, b)'
      BY <2>4, <2>5, <2>6
    <2>8. ~ejectPending'[i][m] /\ ~ejected'[i][m]
      BY DEF OnlyTheGoneAreEjected, EjectedArePending, OneLeaver
    <2>9. ack'[i][m][x] <= q2 /\ ack'[i][m][x] \in Nat
      BY <1>0, <1>1 DEF AcksAreTrue
    <2>10. ~(ack'[i][m][x] >= b)
      BY <1>2, <2>0, <2>9
    <2>11. IsReadyForBeat(i, m, b)'
      BY <2>7 DEF EveryoneResponsiveSince
    <2>12. \/ ejected'[i][x]
           \/ ejectPending'[i][x] /\ ~BeforeEject(i, x, b)'
      BY <2>8, <2>10, <2>11 DEF IsReadyForBeat
    <2>13. CASE ejected'[i][x]
      <3>1. /\ ejectPending'[i][x]
            /\ ~BeforeEject(i, x, drained[i][x])'
            /\ drained'[i][x] = drained[i][x]
        BY <2>3, <2>13 DEF EjectedArePending, EndedWhereAsked
      <3>2. drained[i][x] <= a
        BY <2>3, <2>13 DEF LastBeatInv, EndedWhereAsked
      <3>3. drained[i][x] \in Nat /\ drained[i][x] <= q2 + 1
        BY <1>1, <1>2, <1>7, <3>2
      <3>4. PICK d \in Nat : d = drained[i][x]
        BY <3>3
      <3>5. ~BeforeEject(i, x, d)'
        BY <3>1, <3>4 DEF BeforeEject
      <3> QED BY <1>5, <3>1, <3>3, <3>4, <3>5
    <2>14. CASE ejectPending'[i][x] /\ ~BeforeEject(i, x, b)'
      BY <1>5, <2>0, <2>14
    <2> QED BY <2>12, <2>13, <2>14
  <1> QED BY <1>6, <1>7

(* A survivor i takes the next advance of the leaver's stream out of its     *)
(* pipe.  Either another survivor m holds that advance too, or i knows of a  *)
(* report one beat past what m holds: a beat at which an advance ends, and   *)
(* none goes across it.                                                      *)
LEMMA DrainStopsAtTheReport ==
    ASSUME LastBeatInv, NEW i \in Client, NEW m \in Client, NEW x \in Leavers, i # x, m # x,
           Dispatch(i), Drains(i, x, dispatchedBeat[i] + 1)
    PROVE  drained[i][x] + Head(pipe[i][x]) <= queued[m][x] + 1
  <1> DEFINE d == drained[i][x]
             p == pipe[i][x]
             n == Head(p)
             q == queued[m][x]
             b == dispatchedBeat[i] + 1
  <1>0. TypeOK /\ StreamsKeepUp /\ x \in Client
    BY LastBeatParts, SessionAssumption
  <1>1. /\ d \in Nat
        /\ q \in Nat
        /\ b \in Nat
        /\ availableBeat[i] \in Nat
        /\ dispatchedBeat[i] \in Nat
        /\ p \in Seq(Nat)
    <2>1. d \in Nat /\ q \in Nat
      BY <1>0 DEF TypeOK
    <2>2. availableBeat[i] \in Nat /\ dispatchedBeat[i] \in Nat
      BY <1>0 DEF TypeOK
    <2>3. p \in Seq(Nat)
      BY <1>0 DEF TypeOK
    <2> QED BY <2>1, <2>2, <2>3
  <1>2. /\ ~ejected[i][x]
        /\ d < b
        /\ ejectPending[i][x] => BeforeEject(i, x, d)
        /\ p # <<>>
        /\ b <= availableBeat[i]
    BY DEF Drains, Dispatch
  <1>3. d = dispatchedBeat[i] /\ availableBeat[i] > d
    <2>1. dispatchedBeat[i] <= d
      BY <1>0, <1>2 DEF StreamsKeepUp
    <2> QED BY <1>1, <1>2, <2>1
  <1>4. PICK S \in SUBSET Nat : CutAt(x, S)
    BY <1>0 DEF LastBeatInv, StreamsAreCutAlike
  <1>5. \A k \in Client : queued[k][x] \in S
    BY <1>0, <1>4, CutFacts
  <1>6. n \in Nat /\ NoCutInside(S, d, d + n)
    <2>1. Follows(p, d, queued[i][x], S)
      BY <1>4 DEF CutAt, PipeFollows
    <2>2. NoCutInside(S, d, d + Head(p))
      BY <1>1, <1>2, <2>1, FollowsTail
    <2> QED BY <1>1, <1>2, <2>2
  <1>7. CASE d + n <= q
    BY <1>1, <1>6, <1>7, SMTT(20)
  <1>8. CASE ~(d + n <= q)
    <2>1. q <= d
      BY <1>5, <1>8, <1>6 DEF NoCutInside
    <2>2. availableBeat[i] > q
      BY <1>1, <1>3, <2>1
    <2>3. ejectPending[i][x] /\ ~BeforeEject(i, x, q + 1)
      BY <1>0, <2>2 DEF LastBeatInv, AvailablePast
    <2>4. BeforeEject(i, x, d)
      BY <1>2, <2>3
    <2>5. q = d
      <3>1. q + 1 \in Nat /\ (q # d => q + 1 <= d)
        BY <1>1, <2>1
      <3>2. q + 1 <= d => BeforeEject(i, x, q + 1)
        BY <1>0, <1>1, <2>4, <3>1, BeforeEjectFalls
      <3> QED BY <2>3, <3>1, <3>2
    <2>6. PICK v \in S : ~(q + 1 < v) /\ d < v
      <3>1. CASE ~(q + 1 < queued[i][x])
        <4>1. d < queued[i][x]
          BY <2>4 DEF BeforeEject
        <4> QED BY <1>5, <3>1, <4>1
      <3>2. CASE q + 1 < queued[i][x]
        <4>1. PICK k \in Client : /\ ejectRequests[i][x][k] # NoRequest
                                  /\ ~(q + 1 < ejectRequests[i][x][k])
          BY <2>3, <3>2 DEF BeforeEject
        <4>2. d < ejectRequests[i][x][k]
          BY <2>4, <4>1 DEF BeforeEject
        <4>3. ejectRequests[i][x][k] = queued[k][x]
          BY <1>0, <4>1 DEF LastBeatInv, RequestsAreFinal
        <4> QED BY <1>5, <4>1, <4>2, <4>3
      <3> QED BY <3>1, <3>2
    <2>7. v \in Nat /\ v = d + 1
      BY <1>1, <2>5, <2>6
    <2>8. ~(v <= d)
      BY <1>1, <2>7
    <2>9. d + n <= v
      BY <1>6, <2>8 DEF NoCutInside
    <2> QED BY <2>5, <2>7, <2>9
  <1> QED BY <1>7, <1>8

LEMMA DrainedStep ==
    ASSUME LastBeatInv, TypeOK', QueuesFreeze, [Next]_vars
    PROVE  DrainedPast'
  <1> SUFFICES ASSUME NEW i \in Client, NEW m \in Client, NEW x \in Client, x \in Leavers,
                      i # x, m # x
               PROVE  drained'[i][x] <= queued'[m][x] + 1
    BY DEF DrainedPast
  <1>1. /\ drained \in [Client -> [Client -> Nat]]
        /\ drained' \in [Client -> [Client -> Nat]]
        /\ queued \in [Client -> [Client -> Nat]]
        /\ queued' \in [Client -> [Client -> Nat]]
    BY LastBeatParts DEF TypeOK
  <1>2. queued[m][x] \in Nat /\ queued'[m][x] \in Nat /\ queued[m][x] <= queued'[m][x]
    BY <1>1 DEF QueuesFreeze, HoldingsRise
  <1>3. CASE drained'[i][x] = drained[i][x]
    <2>1. drained[i][x] \in Nat /\ drained[i][x] <= queued[m][x] + 1
      BY <1>1 DEF LastBeatInv, DrainedPast
    <2> QED BY <1>2, <1>3, <2>1
  <1>4. CASE drained'[i][x] # drained[i][x]
    <2>1. PICK j \in Client : Dispatch(j)
      BY <1>4 DEF Next, Issue, DoBeat, ReceiveAdvance, ReceiveAck, ReceiveEject, ReceiveConnLost,
                  Eject, PullNothing, EjectSessionClient, Leave, vars, streamVars
    <2>2. drained' = [drained EXCEPT ![j] = [y \in Client |->
              IF Drains(j, y, dispatchedBeat[j] + 1) THEN drained[j][y] + Head(pipe[j][y])
              ELSE drained[j][y]]]
      BY <2>1 DEF Dispatch
    <2>3. j = i
      BY <1>1, <1>4, <2>2
    <2>4. drained'[i][x] = IF Drains(i, x, dispatchedBeat[i] + 1)
                           THEN drained[i][x] + Head(pipe[i][x]) ELSE drained[i][x]
      BY <1>1, <2>2, <2>3
    <2>5. Drains(i, x, dispatchedBeat[i] + 1) /\ drained'[i][x] = drained[i][x] + Head(pipe[i][x])
      BY <1>4, <2>4
    <2>6. drained'[i][x] <= queued[m][x] + 1
      BY <2>1, <2>3, <2>5, DrainStopsAtTheReport
    <2>7. drained'[i][x] \in Nat
      BY <1>1
    <2> QED BY <1>2, <2>6, <2>7
  <1> QED BY <1>3, <1>4

LEMMA LastBeatStep ==
    ASSUME OneLeaver, LastBeatInv, [Next]_vars
    PROVE  LastBeatInv'
  <1>1. StreamInv'
    BY StreamStep DEF LastBeatInv
  <1>2. TypeOK' /\ AcksAreTrue' /\ EjectedArePending'
    BY <1>1 DEF StreamInv, CountersInv, BarrierInv
  <1>3. QueuesFreeze
    BY LastBeatParts, QueuesStep
  <1>4. StreamsAreCutAlike'
    BY LastBeatParts, CutAlikeStep DEF LastBeatInv
  <1>5. OnlyTheGoneAreEjected'
    BY LastBeatParts, DeparturesStep DEF LastBeatInv
  <1>6. EjectsAreFinal'
    BY <1>3, LastBeatParts, ReportsStep DEF LastBeatInv
  <1>7. RequestsAreFinal' /\ AsksStay
    BY <1>2, <1>3, LastBeatParts, RequestsStep DEF LastBeatInv
  <1>8. EndedWhereAsked'
    BY <1>2, <1>3, <1>7, LastBeatParts, EndsStep DEF LastBeatInv
  <1>9. AvailablePast'
    BY <1>2, <1>3, <1>5, <1>7, <1>8, AvailableStep
  <1>10. DrainedPast'
    BY <1>2, <1>3, DrainedStep
  <1> QED BY <1>1, <1>4, <1>5, <1>6, <1>7, <1>8, <1>9, <1>10 DEF LastBeatInv

LEMMA LastBeatInit ==
    ASSUME Init
    PROVE  LastBeatInv
  <1>1. StreamInv /\ StreamsAreCutAlike
    BY StreamInit, CutAlikeInit
  <1>2. OnlyTheGoneAreEjected /\ EjectsAreFinal /\ RequestsAreFinal /\ EndedWhereAsked
    BY DEF Init, OnlyTheGoneAreEjected, EjectsAreFinal, RequestsAreFinal, EndedWhereAsked
  <1>3. AvailablePast /\ DrainedPast
    BY DEF Init, AvailablePast, DrainedPast
  <1> QED BY <1>1, <1>2, <1>3 DEF LastBeatInv

(* What the invariant says of two survivors.  A stream that goes on at k is  *)
(* drained there through every common beat.  One that has ended at k ended   *)
(* where some survivor holds no more of it, and nobody passes that by more   *)
(* than a beat.                                                              *)
LEMMA LastBeatInvImplies ==
    ASSUME OneLeaver, LastBeatInv
    PROVE  SurvivorsDifferInLastBeat
  <1> SUFFICES ASSUME NEW i \in Client, NEW k \in Client, NEW x \in Client, Together(i, k)
               PROVE  RanThrough(i, x, CommonBeat(i, k))
                        <= RanThrough(k, x, CommonBeat(i, k)) + 1
    BY DEF SurvivorsDifferInLastBeat
  <1> DEFINE c == CommonBeat(i, k)
             di == drained[i][x]
             dk == drained[k][x]
  <1>0. TypeOK /\ EjectedArePending /\ NeverEjectsItself /\ StreamsKeepUp
    BY LastBeatParts
  <1>1. /\ di \in Nat
        /\ dk \in Nat
        /\ dispatchedBeat[i] \in Nat
        /\ dispatchedBeat[k] \in Nat
    BY <1>0 DEF TypeOK
  <1>2. c \in Nat /\ c <= dispatchedBeat[k]
    BY <1>1 DEF CommonBeat
  <1>3. CASE ~ejected[k][x]
    <2>1. dispatchedBeat[k] <= dk
      BY <1>0, <1>3 DEF StreamsKeepUp
    <2>2. c <= dk
      BY <1>1, <1>2, <2>1
    <2> QED BY <1>1, <1>2, <2>2 DEF RanThrough
  <1>4. CASE ejected[k][x]
    <2>1. ejectPending[k][x] /\ x \in Leavers
      BY <1>0, <1>4 DEF EjectedArePending, LastBeatInv, OnlyTheGoneAreEjected
    <2>2. k # x /\ i # x
      BY <1>0, <2>1 DEF NeverEjectsItself, Together
    <2>3. PICK m \in Client : m # x /\ ~(dk < queued[m][x])
      <3>1. ~BeforeEject(k, x, dk)
        BY <1>4 DEF LastBeatInv, EndedWhereAsked
      <3>2. CASE ~(dk < queued[k][x])
        BY <2>2, <3>2
      <3>3. CASE dk < queued[k][x]
        <4>1. PICK m \in Client : /\ ejectRequests[k][x][m] # NoRequest
                                  /\ ~(dk < ejectRequests[k][x][m])
          BY <3>1, <3>3 DEF BeforeEject
        <4>2. ejectPending[m][x] /\ ejectRequests[k][x][m] = queued[m][x]
          BY <4>1 DEF LastBeatInv, RequestsAreFinal
        <4> QED BY <1>0, <4>1, <4>2 DEF NeverEjectsItself
      <3> QED BY <3>2, <3>3
    <2>4. di <= queued[m][x] + 1
      BY <2>1, <2>2, <2>3 DEF LastBeatInv, DrainedPast
    <2>5. queued[m][x] \in Nat
      BY <1>0 DEF TypeOK
    <2>6. di <= dk + 1
      BY <1>1, <2>3, <2>4, <2>5
    <2> QED BY <1>1, <1>2, <2>6 DEF RanThrough
  <1> QED BY <1>3, <1>4

(* When one player quits or crashes and no other link fails, the others run  *)
(* the same orders but for the last beat of the one that left: for any       *)
(* number of players, any sizes of advance and any lead.  The one-beat gap   *)
(* is the code's (SurvivorsRunSameOrders does not hold); that it is no wider *)
(* follows from what a survivor waits for, and from no advance crossing a    *)
(* beat that a survivor reports.                                             *)
THEOREM LastBeatOnly == OneLeaver /\ Spec => []SurvivorsDifferInLastBeat
  <1>1. OneLeaver /\ Init => LastBeatInv
    BY LastBeatInit
  <1>2. OneLeaver /\ LastBeatInv /\ [Next]_vars => LastBeatInv'
    BY LastBeatStep
  <1>3. OneLeaver /\ LastBeatInv => SurvivorsDifferInLastBeat
    BY LastBeatInvImplies
  <1>4. OneLeaver => OneLeaver'
    BY DEF OneLeaver
  <1> QED BY <1>1, <1>2, <1>3, <1>4, PTL DEF Spec
=============================================================================
