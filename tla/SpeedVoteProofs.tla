--------------------------- MODULE SpeedVoteProofs ---------------------------
(***************************************************************************)
(* Proofs about SpeedVote for any players, rates and bounds: no two        *)
(* requests share a stamp, so players that hold the same stamp hold the    *)
(* same speed; and once all is heard, all issue beats at the same rate.    *)
(***************************************************************************)
EXTENDS SpeedVote, TLAPS

(* The requests of p that have not reached everybody yet.                    *)
UnderWay(p) ==
    {message \in UNION {{link[p][q][n] : n \in DOMAIN link[p][q]} : q \in Player} :
        message.kind = "AdjustSimSpeed"}

(* A request under way is no newer than the one its sender holds.            *)
AskedBefore ==
    \A p \in Player : \A m \in UnderWay(p) :
        0 < m.clock /\ m.clock <= stamp[p].clock

(* Nobody holds a request newer than its requester does.                     *)
HeldBefore ==
    \A p, q \in Player :
        stamp[q].requester = p => stamp[q].clock <= stamp[p].clock

(* Requests of one player under way with the same clock ask for one rate.    *)
AskedOnce ==
    \A p \in Player : \A m, k \in UnderWay(p) :
        m.clock = k.clock => m.rate = k.rate

(* A request under way asks for the speed of those who hold it.              *)
AskedAsHeld ==
    \A p, r \in Player : \A m \in UnderWay(p) :
        stamp[r].clock = m.clock /\ stamp[r].requester = p => speed[r] = Clamp(m.rate)

(* Stamps name requests; with the types, the inductive invariant.            *)
StampInv == AskedBefore /\ HeldBefore /\ AskedOnce /\ AskedAsHeld /\ OneStampOneSpeed

Links == [Player -> [Player -> Seq(Message)]]

-----------------------------------------------------------------------------
(* Type correctness.                                                         *)

LEMMA ClampRange ==
    ASSUME NEW rate \in Int
    PROVE  Clamp(rate) \in MinRate .. MaxRate
  BY RateAssumption DEF Clamp

LEMMA MessageTypes ==
    ASSUME NEW clock \in Nat, NEW rate \in Int
    PROVE  Ask(clock, rate) \in Message /\ Report(rate) \in Message /\ ConnLost \in Message
  BY DEF Ask, Report, ConnLost, Message

(* What an action appends to the links of p.                                 *)
LEMMA SentType ==
    ASSUME link \in Links, NEW p \in Player, NEW message \in Message
    PROVE  Sent(p, message) \in Links
  <1>1. \A q \in Player : Append(link[p][q], message) \in Seq(Message)
    BY DEF Links
  <1> QED BY <1>1 DEF Sent, Links

LEMMA ApplyType ==
    ASSUME TypeOK, NEW p \in Player, NEW t \in Stamp, NEW rate \in Int,
           ApplyIncomingGameSpeedRequest(p, t, rate)
    PROVE  /\ stamp' \in [Player -> Stamp]
           /\ speed' \in [Player -> Int]
           /\ \A r \in Player : stamp'[r].clock > 0 => speed'[r] \in MinRate .. MaxRate
  <1>1. CASE Newer(stamp[p], t)
    <2>1. Clamp(rate) \in MinRate .. MaxRate /\ Clamp(rate) \in Int
      BY ClampRange, RateAssumption
    <2>2. stamp' = [stamp EXCEPT ![p] = t] /\ speed' = [speed EXCEPT ![p] = Clamp(rate)]
      BY <1>1 DEF ApplyIncomingGameSpeedRequest
    <2> QED BY <2>1, <2>2 DEF TypeOK
  <1>2. CASE ~Newer(stamp[p], t)
    BY <1>2 DEF ApplyIncomingGameSpeedRequest, TypeOK
  <1> QED BY <1>1, <1>2

LEMMA TypeStep == TypeOK /\ [Next]_vars => TypeOK'
  <1> SUFFICES ASSUME TypeOK, [Next]_vars PROVE TypeOK'
    OBVIOUS
  <1>0. /\ stamp \in [Player -> Stamp] /\ link \in Links
        /\ report \in [Player -> [Player -> Int]]
        /\ asks \in 0 .. MaxAsks /\ gone \subseteq Player /\ MaxAsks \in Nat
    BY BoundAssumption DEF TypeOK, Links
  <1>1. ASSUME NEW p \in Player, NEW rate \in Asked, SetSimRate(p, rate)
        PROVE  TypeOK'
    <2>1. rate \in Int /\ p \in Nat
      BY RateAssumption, PlayerAssumption
    <2>2. stamp[p].clock + 1 \in Nat /\ [clock |-> stamp[p].clock + 1, requester |-> p] \in Stamp
      BY <1>0, <2>1 DEF Stamp
    <2>3. /\ stamp' \in [Player -> Stamp]
          /\ speed' \in [Player -> Int]
          /\ \A r \in Player : stamp'[r].clock > 0 => speed'[r] \in MinRate .. MaxRate
      BY <1>1, <2>1, <2>2, ApplyType DEF SetSimRate
    <2>4. link' \in Links
      BY <1>0, <1>1, <2>1, <2>2, MessageTypes, SentType DEF SetSimRate
    <2>5. asks' \in 0 .. MaxAsks
      BY <1>0, <1>1 DEF SetSimRate
    <2> QED BY <1>1, <2>3, <2>4, <2>5 DEF SetSimRate, TypeOK, Links
  <1>2. ASSUME NEW p \in Player, NEW rate \in Asked, BroadcastIntParam(p, rate)
        PROVE  TypeOK'
    <2>1. rate \in Int
      BY RateAssumption
    <2>2. link' \in Links
      BY <1>0, <1>2, <2>1, MessageTypes, SentType DEF BroadcastIntParam
    <2>3. report' \in [Player -> [Player -> Int]] /\ asks' \in 0 .. MaxAsks
      BY <1>0, <1>2, <2>1 DEF BroadcastIntParam
    <2> QED BY <1>2, <2>2, <2>3 DEF BroadcastIntParam, TypeOK, Links
  <1>3. ASSUME NEW p \in Player, NEW q \in Player, Receive(p, q)
        PROVE  TypeOK'
    <2>1. link[p][q] \in Seq(Message) /\ link[p][q] # <<>>
      BY <1>0, <1>3 DEF Receive, Links
    <2>2. Head(link[p][q]) \in Message /\ Tail(link[p][q]) \in Seq(Message)
      BY <2>1
    <2>3. link' \in Links
      BY <1>0, <1>3, <2>2 DEF Receive, Links
    <2>4. ASSUME ReceiveAsk(p, q, Head(link[p][q]))
          PROVE  TypeOK'
      <3>1. /\ Head(link[p][q]).rate \in Int
            /\ [clock |-> Head(link[p][q]).clock, requester |-> p] \in Stamp
        BY <2>2, PlayerAssumption DEF Message, Stamp
      <3>2. /\ stamp' \in [Player -> Stamp]
            /\ speed' \in [Player -> Int]
            /\ \A r \in Player : stamp'[r].clock > 0 => speed'[r] \in MinRate .. MaxRate
        BY <2>4, <3>1, ApplyType DEF ReceiveAsk
      <3> QED BY <1>3, <2>3, <2>4, <3>2 DEF Receive, ReceiveAsk, TypeOK, Links
    <2>5. ASSUME ReceiveReport(p, q, Head(link[p][q]))
          PROVE  TypeOK'
      <3>1. report' \in [Player -> [Player -> Int]]
        BY <1>0, <2>2, <2>5 DEF ReceiveReport, Message
      <3> QED BY <1>3, <2>3, <2>5, <3>1 DEF Receive, ReceiveReport, TypeOK, Links
    <2>6. ASSUME ReceiveConnLost(p, q, Head(link[p][q]))
          PROVE  TypeOK'
      <3>1. dropped' \in [Player -> SUBSET Player]
        BY <2>6 DEF ReceiveConnLost, TypeOK
      <3> QED BY <1>3, <2>3, <2>6, <3>1 DEF Receive, ReceiveConnLost, TypeOK, Links
    <2> QED BY <1>3, <2>4, <2>5, <2>6 DEF Receive
  <1>4. ASSUME NEW p \in Player, NEW kept \in [Player -> 0 .. MaxAsks], Leave(p, kept)
        PROVE  TypeOK'
    <2>1. ASSUME NEW q \in Player
          PROVE  Append(SubSeq(link[p][q], 1, kept[q]), ConnLost) \in Seq(Message)
      <3>1. link[p][q] \in Seq(Message) /\ kept[q] \in 0 .. Len(link[p][q])
        BY <1>0, <1>4 DEF Links, Leave
      <3>2. SubSeq(link[p][q], 1, kept[q]) \in Seq(Message)
        BY <3>1
      <3> QED BY <3>2, MessageTypes
    <2>2. link' \in Links
      BY <1>0, <1>4, <2>1 DEF Leave, Links
    <2> QED BY <1>4, <2>2 DEF Leave, Live, TypeOK, Links
  <1>5. CASE UNCHANGED vars
    BY <1>5 DEF vars, TypeOK
  <1> QED BY <1>1, <1>2, <1>3, <1>4, <1>5 DEF Next

LEMMA TypeInit == Init => TypeOK
  BY RateAssumption, BoundAssumption DEF Init, TypeOK, Stamp

(* Every variable keeps its type, and once anyone has asked, the speed in    *)
(* force is one the speed controls can produce.                              *)
THEOREM TypeCorrect == Spec => []TypeOK
  BY TypeInit, TypeStep, PTL DEF Spec

-----------------------------------------------------------------------------
(* Stamps.                                                                   *)

(* Requests under way are messages.                                          *)
LEMMA UnderWayType ==
    ASSUME link \in Links, NEW p \in Player
    PROVE  \A m \in UnderWay(p) : m.clock \in Nat /\ m.rate \in Int
  <1>1. \A q \in Player : \A n \in DOMAIN link[p][q] : link[p][q][n] \in Message
    BY DEF Links
  <1> QED BY <1>1 DEF UnderWay, Message

(* What one message at the end of links adds.                                *)
LEMMA SentUnderWay ==
    ASSUME link \in Links, NEW p \in Player, NEW message \in Message,
           link' = Sent(p, message), NEW r \in Player, NEW m \in UnderWay(r)'
    PROVE  m \in UnderWay(r) \/ (r = p /\ m = message)
  <1>a. PICK q \in Player : \E n \in DOMAIN link'[r][q] :
            m = link'[r][q][n] /\ m.kind = "AdjustSimSpeed"
    BY DEF UnderWay
  <1>1. PICK n \in DOMAIN link'[r][q] : m = link'[r][q][n] /\ m.kind = "AdjustSimSpeed"
    BY <1>a
  <1>2. link[r][q] \in Seq(Message)
    BY DEF Links
  <1>3. link'[r][q] = link[r][q] \/ (r = p /\ link'[r][q] = Append(link[r][q], message))
    <2>1. CASE r = p
      <3>1. link'[p] = [t \in Player |-> IF t = p THEN link[p][t] ELSE Append(link[p][t], message)]
        BY DEF Sent, Links
      <3> QED BY <2>1, <3>1
    <2>2. CASE r # p
      BY <2>2 DEF Sent, Links
    <2> QED BY <2>1, <2>2
  <1>4. \/ n \in DOMAIN link[r][q] /\ link'[r][q][n] = link[r][q][n]
        \/ r = p /\ link'[r][q][n] = message
    <2>1. CASE link'[r][q] = link[r][q]
      BY <1>1, <2>1
    <2>2. CASE r = p /\ link'[r][q] = Append(link[r][q], message)
      <3>1. n \in 1 .. Len(link[r][q]) + 1
        BY <1>1, <1>2, <2>2
      <3>2. CASE n = Len(link[r][q]) + 1
        BY <1>2, <2>2, <3>2
      <3>3. CASE n \in 1 .. Len(link[r][q])
        BY <1>2, <2>2, <3>3
      <3> QED BY <1>2, <3>1, <3>2, <3>3
    <2> QED BY <1>3, <2>1, <2>2
  <1> QED BY <1>1, <1>4 DEF UnderWay

(* A step that sends no request and applies none.                            *)
LEMMA NoneAsked ==
    ASSUME StampInv, stamp' = stamp, speed' = speed,
           \A r \in Player : UnderWay(r)' \subseteq UnderWay(r)
    PROVE  StampInv'
  BY DEF StampInv, AskedBefore, HeldBefore, AskedOnce, AskedAsHeld, OneStampOneSpeed

LEMMA StampInit == Init => StampInv
  <1> SUFFICES ASSUME Init PROVE StampInv
    OBVIOUS
  <1>1. \A p \in Player : UnderWay(p) = {}
    BY DEF Init, UnderWay
  <1>2. HeldBefore /\ OneStampOneSpeed
    BY DEF Init, HeldBefore, OneStampOneSpeed
  <1> QED BY <1>1, <1>2 DEF StampInv, AskedBefore, AskedOnce, AskedAsHeld

LEMMA AskStep ==
    ASSUME TypeOK, StampInv, NEW p \in Player, NEW rate \in Asked, SetSimRate(p, rate)
    PROVE  StampInv'
  <1> DEFINE clock == stamp[p].clock + 1
             new == Ask(clock, rate)
  <1>1. /\ link \in Links /\ rate \in Int /\ p \in Nat
        /\ \A q \in Player : stamp[q] \in Stamp
    BY RateAssumption, PlayerAssumption DEF TypeOK, Links
  <1>a. \A q \in Player : stamp[q].clock \in Nat
    BY <1>1 DEF Stamp
  <1>2. stamp[p].clock \in Nat /\ clock \in Nat /\ \A q \in Player : stamp[q].clock \in Nat
    BY <1>a
  <1>3. new \in Message /\ new.clock = clock /\ new.rate = rate
    BY <1>1, <1>2, MessageTypes DEF Ask
  <1>4. \A r \in Player : \A m \in UnderWay(r)' : m \in UnderWay(r) \/ (r = p /\ m = new)
    BY <1>1, <1>3, SentUnderWay DEF SetSimRate
  <1>5. Newer(stamp[p], [clock |-> clock, requester |-> p])
    BY <1>2 DEF Newer
  <1>6. /\ stamp' = [stamp EXCEPT ![p] = [clock |-> clock, requester |-> p]]
        /\ speed' = [speed EXCEPT ![p] = Clamp(rate)]
    BY <1>5 DEF SetSimRate, ApplyIncomingGameSpeedRequest
  <1>7. /\ stamp'[p].clock = clock /\ stamp'[p].requester = p /\ speed'[p] = Clamp(rate)
        /\ \A q \in Player \ {p} : stamp'[q] = stamp[q] /\ speed'[q] = speed[q]
    BY <1>6 DEF TypeOK
  (* The new clock is past every request of p.                               *)
  <1>8. \A m \in UnderWay(p) : m.clock \in Nat /\ m.clock < clock
    BY <1>1, <1>2, UnderWayType DEF StampInv, AskedBefore
  <1>9. \A q \in Player : stamp[q].requester = p => stamp[q].clock < clock
    BY <1>2 DEF StampInv, HeldBefore
  <1> HIDE DEF clock, new
  <1>10. AskedBefore'
    <2> SUFFICES ASSUME NEW r \in Player, NEW m \in UnderWay(r)'
                 PROVE  0 < m.clock /\ m.clock <= stamp'[r].clock
      BY DEF AskedBefore
    <2>1. CASE m \in UnderWay(r)
      <3>1. 0 < m.clock /\ m.clock <= stamp[r].clock
        BY <2>1 DEF StampInv, AskedBefore
      <3> QED BY <1>2, <1>7, <1>8, <2>1, <3>1
    <2>2. CASE r = p /\ m = new
      BY <1>2, <1>3, <1>7, <2>2 DEF clock
    <2> QED BY <1>4, <2>1, <2>2
  <1>11. HeldBefore'
    BY <1>2, <1>7, <1>9 DEF StampInv, HeldBefore, clock
  <1>12. AskedOnce'
    BY <1>2, <1>3, <1>4, <1>8 DEF StampInv, AskedOnce
  <1>13. AskedAsHeld'
    <2> SUFFICES ASSUME NEW s \in Player, NEW r \in Player, NEW m \in UnderWay(s)',
                        stamp'[r].clock = m.clock, stamp'[r].requester = s
                 PROVE  speed'[r] = Clamp(m.rate)
      BY DEF AskedAsHeld
    <2>1. CASE r = p
      BY <1>2, <1>3, <1>4, <1>7, <1>8, <2>1
    <2>2. CASE r # p /\ m \in UnderWay(s)
      BY <1>7, <2>2 DEF StampInv, AskedAsHeld
    <2>3. CASE r # p /\ s = p /\ m = new
      BY <1>2, <1>3, <1>7, <1>9, <2>3
    <2> QED BY <1>4, <2>1, <2>2, <2>3
  <1>14. OneStampOneSpeed'
    BY <1>2, <1>7, <1>9 DEF StampInv, OneStampOneSpeed
  <1> QED BY <1>10, <1>11, <1>12, <1>13, <1>14 DEF StampInv

(* Taking a request from a link, whether or not it is the newest.            *)
LEMMA TakeStep ==
    ASSUME TypeOK, StampInv, NEW p \in Player, NEW q \in Player, NEW m \in UnderWay(p),
           ApplyIncomingGameSpeedRequest(q, [clock |-> m.clock, requester |-> p], m.rate),
           \A r \in Player : UnderWay(r)' \subseteq UnderWay(r)
    PROVE  StampInv'
  <1>1. CASE ~Newer(stamp[q], [clock |-> m.clock, requester |-> p])
    BY <1>1, NoneAsked DEF ApplyIncomingGameSpeedRequest
  <1>2. ASSUME Newer(stamp[q], [clock |-> m.clock, requester |-> p])
        PROVE  StampInv'
    <2>1. \A r \in Player : stamp[r].clock \in Nat
      BY DEF TypeOK, Stamp
    <2>2. /\ m.clock \in Nat /\ 0 < m.clock /\ m.clock <= stamp[p].clock
          /\ \A r \in Player : \A k \in UnderWay(r) : k.clock \in Nat /\ k.clock <= stamp[r].clock
      BY UnderWayType DEF StampInv, AskedBefore, TypeOK, Links
    <2>3. stamp[q].clock <= m.clock
      BY <1>2, <2>1, <2>2 DEF Newer
    <2>4. /\ stamp' = [stamp EXCEPT ![q] = [clock |-> m.clock, requester |-> p]]
          /\ speed' = [speed EXCEPT ![q] = Clamp(m.rate)]
      BY <1>2 DEF ApplyIncomingGameSpeedRequest
    <2>5. /\ stamp'[q].clock = m.clock /\ stamp'[q].requester = p /\ speed'[q] = Clamp(m.rate)
          /\ \A r \in Player \ {q} : stamp'[r] = stamp[r] /\ speed'[r] = speed[r]
      BY <2>4 DEF TypeOK
    <2>6. \A r \in Player : stamp'[r].clock \in Nat /\ stamp[r].clock <= stamp'[r].clock
      BY <2>1, <2>2, <2>3, <2>5
    <2>7. AskedBefore'
      BY <2>1, <2>2, <2>6 DEF StampInv, AskedBefore
    <2>8. HeldBefore'
      <3> SUFFICES ASSUME NEW r \in Player, NEW s \in Player, stamp'[s].requester = r
                   PROVE  stamp'[s].clock <= stamp'[r].clock
        BY DEF HeldBefore
      <3>1. CASE s = q
        BY <2>1, <2>2, <2>5, <2>6, <3>1
      <3>2. CASE s # q
        <4>1. stamp[s].clock <= stamp[r].clock /\ stamp'[s] = stamp[s]
          BY <2>5, <3>2 DEF StampInv, HeldBefore
        <4> QED BY <2>1, <2>6, <4>1
      <3> QED BY <3>1, <3>2
    <2>9. AskedOnce'
      BY DEF StampInv, AskedOnce
    <2>10. AskedAsHeld'
      <3> SUFFICES ASSUME NEW s \in Player, NEW r \in Player, NEW k \in UnderWay(s)',
                          stamp'[r].clock = k.clock, stamp'[r].requester = s
                   PROVE  speed'[r] = Clamp(k.rate)
        BY DEF AskedAsHeld
      <3>1. CASE r = q
        <4>1. s = p /\ k \in UnderWay(p) /\ k.clock = m.clock
          BY <2>5, <3>1
        <4>2. k.rate = m.rate
          BY <4>1 DEF StampInv, AskedOnce
        <4> QED BY <2>5, <3>1, <4>2
      <3>2. CASE r # q
        BY <2>5, <3>2 DEF StampInv, AskedAsHeld
      <3> QED BY <3>1, <3>2
    <2>11. OneStampOneSpeed'
      <3>1. \A r \in Player \ {q} :
                stamp[r].clock = m.clock /\ stamp[r].requester = p => speed[r] = Clamp(m.rate)
        BY DEF StampInv, AskedAsHeld
      <3> QED BY <2>5, <3>1 DEF StampInv, OneStampOneSpeed
    <2> QED BY <2>7, <2>8, <2>9, <2>10, <2>11 DEF StampInv
  <1> QED BY <1>1, <1>2

LEMMA StampStep == TypeOK /\ StampInv /\ [Next]_vars => StampInv'
  <1> SUFFICES ASSUME TypeOK, StampInv, [Next]_vars PROVE StampInv'
    OBVIOUS
  <1>0. link \in Links
    BY DEF TypeOK, Links
  <1>1. ASSUME NEW p \in Player, NEW rate \in Asked, SetSimRate(p, rate)
        PROVE  StampInv'
    BY <1>1, AskStep
  <1>2. ASSUME NEW p \in Player, NEW rate \in Asked, BroadcastIntParam(p, rate)
        PROVE  StampInv'
    <2>1. Report(rate) \in Message /\ Report(rate).kind # "AdjustSimSpeed"
      BY MessageTypes, RateAssumption DEF Report
    <2>2. link' = Sent(p, Report(rate)) /\ stamp' = stamp /\ speed' = speed
      BY <1>2 DEF BroadcastIntParam
    <2>3. \A r \in Player : \A m \in UnderWay(r)' : m.kind = "AdjustSimSpeed"
      BY DEF UnderWay
    <2>4. \A r \in Player : UnderWay(r)' \subseteq UnderWay(r)
      BY <1>0, <2>1, <2>2, <2>3, SentUnderWay
    <2> QED BY <2>2, <2>4, NoneAsked
  <1>3. ASSUME NEW p \in Player, NEW q \in Player, Receive(p, q)
        PROVE  StampInv'
    <2> DEFINE head == Head(link[p][q])
    <2>1. link[p][q] \in Seq(Message) /\ link[p][q] # <<>>
      BY <1>0, <1>3 DEF Receive, Links
    <2>2. ASSUME NEW r \in Player, NEW m \in UnderWay(r)'
          PROVE  m \in UnderWay(r)
      <3>a. PICK s \in Player : \E n \in DOMAIN link'[r][s] :
                m = link'[r][s][n] /\ m.kind = "AdjustSimSpeed"
        BY <2>2 DEF UnderWay
      <3>1. PICK n \in DOMAIN link'[r][s] : m = link'[r][s][n] /\ m.kind = "AdjustSimSpeed"
        BY <3>a
      <3>2. \/ link'[r][s] = link[r][s]
            \/ r = p /\ s = q /\ link'[r][s] = Tail(link[r][s])
        <4>1. link' = [link EXCEPT ![p][q] = Tail(link[p][q])]
          BY <1>3 DEF Receive
        <4>2. CASE r = p /\ s = q
          BY <1>0, <4>1, <4>2 DEF Links
        <4>3. CASE ~(r = p /\ s = q)
          BY <1>0, <4>1, <4>3 DEF Links
        <4> QED BY <4>2, <4>3
      <3>3. \E k \in DOMAIN link[r][s] : link[r][s][k] = m
        <4>1. CASE link'[r][s] = link[r][s]
          BY <3>1, <4>1
        <4>2. CASE r = p /\ s = q /\ link'[r][s] = Tail(link[r][s])
          <5>1. n + 1 \in DOMAIN link[r][s] /\ link[r][s][n + 1] = m
            BY <2>1, <3>1, <4>2
          <5> QED BY <5>1
        <4> QED BY <3>2, <4>1, <4>2
      <3> QED BY <3>1, <3>3 DEF UnderWay
    <2>3. ASSUME ReceiveAsk(p, q, head)
          PROVE  StampInv'
      <3>1. 1 \in DOMAIN link[p][q] /\ head = link[p][q][1]
        BY <2>1
      <3>2. head \in UnderWay(p)
        BY <2>3, <3>1 DEF ReceiveAsk, UnderWay
      <3> QED BY <2>2, <2>3, <3>2, TakeStep DEF ReceiveAsk
    <2>4. CASE ReceiveReport(p, q, head) \/ ReceiveConnLost(p, q, head)
      BY <2>2, <2>4, NoneAsked DEF ReceiveReport, ReceiveConnLost
    <2> QED BY <1>3, <2>3, <2>4 DEF Receive
  <1>4. ASSUME NEW p \in Player, NEW kept \in [Player -> 0 .. MaxAsks], Leave(p, kept)
        PROVE  StampInv'
    <2>1. ASSUME NEW r \in Player, NEW m \in UnderWay(r)'
          PROVE  m \in UnderWay(r)
      <3>a. PICK s \in Player : \E n \in DOMAIN link'[r][s] :
                m = link'[r][s][n] /\ m.kind = "AdjustSimSpeed"
        BY <2>1 DEF UnderWay
      <3>1. PICK n \in DOMAIN link'[r][s] : m = link'[r][s][n] /\ m.kind = "AdjustSimSpeed"
        BY <3>a
      <3>2. /\ link[r][s] \in Seq(Message)
            /\ r = p => kept[s] \in 0 .. Len(link[r][s])
        BY <1>0, <1>4 DEF Links, Leave
      <3>3. \/ link'[r][s] = link[r][s]
            \/ r = p /\ link'[r][s] = Append(SubSeq(link[r][s], 1, kept[s]), ConnLost)
        BY <1>0, <1>4 DEF Leave, Links
      <3>4. \E k \in DOMAIN link[r][s] : link[r][s][k] = m
        <4>1. CASE link'[r][s] = link[r][s]
          BY <3>1, <4>1
        <4>2. CASE r = p /\ link'[r][s] = Append(SubSeq(link[r][s], 1, kept[s]), ConnLost)
          <5>1. m # ConnLost
            BY <3>1 DEF ConnLost
          <5>2. /\ SubSeq(link[r][s], 1, kept[s]) \in Seq(Message)
                /\ Len(SubSeq(link[r][s], 1, kept[s])) = kept[s]
            BY <3>2, <4>2
          <5>3. n \in 1 .. kept[s] /\ m = SubSeq(link[r][s], 1, kept[s])[n]
            BY <3>1, <3>2, <4>2, <5>1, <5>2
          <5>4. n \in DOMAIN link[r][s] /\ link[r][s][n] = m
            BY <3>2, <4>2, <5>3
          <5> QED BY <5>4
        <4> QED BY <3>3, <4>1, <4>2
      <3> QED BY <3>1, <3>4 DEF UnderWay
    <2> QED BY <1>4, <2>1, NoneAsked DEF Leave
  <1>5. CASE UNCHANGED vars
    BY <1>5, NoneAsked DEF vars, UnderWay
  <1> QED BY <1>1, <1>2, <1>3, <1>4, <1>5 DEF Next

(* Players that hold the same clock and requester hold the same speed: a     *)
(* player numbers its request past every one of its own that anybody holds   *)
(* or has yet to hear of, so no two requests ever share a stamp.             *)
THEOREM OneStamp == Spec => []OneStampOneSpeed
  <1>1. TypeOK /\ StampInv => OneStampOneSpeed
    BY DEF StampInv
  <1> QED BY <1>1, TypeInit, TypeStep, StampInit, StampStep, PTL DEF Spec

(***************************************************************************)
(* All players issue beats at the same rate once every message has arrived.*)
(***************************************************************************)

(* The stamp c, r names a request: somebody holds it, or it is under way.    *)
StampOf(c, r) == [clock |-> c, requester |-> r]

Requested(c, r) ==
    \/ \E m \in UnderWay(r) : m.clock = c
    \/ c > 0 /\ \E h \in Player : stamp[h] = StampOf(c, r)

Told(r, q, c) ==
    \E n \in DOMAIN link[r][q] :
        link[r][q][n].kind = "AdjustSimSpeed" /\ link[r][q][n].clock = c

(* A request of a player that is still there is not newer than what any      *)
(* player holds, or on its way to it.                                        *)
RequestsReachAll ==
    \A r \in Live, q \in Player : \A c \in Nat :
        Requested(c, r) => ~Newer(stamp[q], StampOf(c, r)) \/ Told(r, q, c)

(* Before anyone has asked, all hold the stamp of the launch options.        *)
FirstStamp == \A p \in Player : stamp[p].clock = 0 => stamp[p].requester = 0

NothingToItself == \A p \in Player : link[p][p] = <<>>

(* Who has left is dropped by each other player, or the notice is under way; *)
(* and nobody else is.                                                       *)
ToldOfLoss(x, q) == \E n \in DOMAIN link[x][q] : link[x][q][n].kind = "ConnLost"

LeaversAreDropped ==
    \A x, q \in Player :
        /\ x \in dropped[q] \/ ToldOfLoss(x, q) => x \in gone
        /\ x \in gone /\ x # q => x \in dropped[q] \/ ToldOfLoss(x, q)

(* The last report on l tells rate; without one, before is rate.             *)
LastReport(l, before, rate) ==
    /\ (\A n \in DOMAIN l : l[n].kind # "IntParam") => before = rate
    /\ \A n \in DOMAIN l :
         l[n].kind = "IntParam" /\ (\A m \in DOMAIN l : m > n => l[m].kind # "IntParam")
            => l[n].rate = rate

(* What a player that is still there reported last is what each of the       *)
(* others has or will have of it.                                            *)
ReportsReachAll ==
    \A x \in Live, q \in Player :
        x # q => LastReport(link[x][q], report[q][x], report[x][x])

RateInv ==
    /\ TypeOK
    /\ StampInv
    /\ RequestsReachAll
    /\ FirstStamp
    /\ NothingToItself
    /\ LeaversAreDropped
    /\ ReportsReachAll

-----------------------------------------------------------------------------
(* Stamps are ordered.                                                       *)

LEMMA NewerOrder ==
    ASSUME NEW s \in Stamp, NEW t \in Stamp
    PROVE  /\ ~Newer(t, t)
           /\ ~Newer(s, t) /\ ~Newer(t, s) => s = t
  <1>1. /\ s.clock \in Nat /\ s.requester \in Nat
        /\ t.clock \in Nat /\ t.requester \in Nat
    BY DEF Stamp
  <1>2. ASSUME s.clock = t.clock, s.requester = t.requester PROVE s = t
    BY <1>2 DEF Stamp
  <1> QED BY <1>1, <1>2 DEF Newer

LEMMA NewerStays ==
    ASSUME NEW s \in Stamp, NEW t \in Stamp, NEW u \in Stamp,
           ~Newer(s, u), t = s \/ Newer(s, t)
    PROVE  ~Newer(t, u)
  <1>1. /\ s.clock \in Nat /\ s.requester \in Nat
        /\ t.clock \in Nat /\ t.requester \in Nat
        /\ u.clock \in Nat /\ u.requester \in Nat
    BY DEF Stamp
  <1> QED BY <1>1 DEF Newer

(* Whoever applies a request then holds none older, and nobody else changes. *)
LEMMA Applied ==
    ASSUME TypeOK, NEW p \in Player, NEW t \in Stamp, NEW rate \in Int,
           ApplyIncomingGameSpeedRequest(p, t, rate)
    PROVE  /\ ~Newer(stamp'[p], t)
           /\ \A q \in Player : \/ stamp'[q] = stamp[q]
                                \/ q = p /\ stamp'[q] = t /\ Newer(stamp[q], t)
  <1>1. stamp \in [Player -> Stamp]
    BY DEF TypeOK
  <1>2. CASE Newer(stamp[p], t)
    <2>1. stamp' = [stamp EXCEPT ![p] = t]
      BY <1>2 DEF ApplyIncomingGameSpeedRequest
    <2> QED BY <1>1, <1>2, <2>1, NewerOrder
  <1>3. CASE ~Newer(stamp[p], t)
    BY <1>1, <1>3 DEF ApplyIncomingGameSpeedRequest
  <1> QED BY <1>2, <1>3

-----------------------------------------------------------------------------
(* Links.                                                                    *)

LEMMA SentLinks ==
    ASSUME link \in Links, NEW p \in Player, NEW message \in Message,
           link' = Sent(p, message), NEW x \in Player, NEW q \in Player
    PROVE  /\ x = p /\ q # p => link'[x][q] = Append(link[x][q], message)
           /\ x # p \/ q = p => link'[x][q] = link[x][q]
  <1>1. link \in [Player -> [Player -> Seq(Message)]]
    BY DEF Links
  <1> QED BY <1>1 DEF Sent

LEMMA ReceiveLinks ==
    ASSUME link \in Links, NEW p \in Player, NEW q \in Player, Receive(p, q),
           NEW x \in Player, NEW y \in Player
    PROVE  link'[x][y] = IF x = p /\ y = q THEN Tail(link[x][y]) ELSE link[x][y]
  <1>1. link \in [Player -> [Player -> Seq(Message)]]
    BY DEF Links
  <1> QED BY <1>1 DEF Receive

(* A message on a link is still there once one is appended, and so it is     *)
(* once the first is pulled, unless it was that one.                         *)
LEMMA AppendKeeps ==
    ASSUME NEW l \in Seq(Message), NEW message \in Message
    PROVE  /\ DOMAIN Append(l, message) = DOMAIN l \cup {Len(l) + 1}
           /\ Append(l, message)[Len(l) + 1] = message
           /\ \A n \in DOMAIN l : Append(l, message)[n] = l[n] /\ n < Len(l) + 1
  OBVIOUS

LEMMA TailShifts ==
    ASSUME NEW l \in Seq(Message), l # <<>>
    PROVE  /\ 1 \in DOMAIN l /\ Head(l) = l[1]
           /\ \A n \in DOMAIN l : n # 1 => n - 1 \in DOMAIN Tail(l) /\ Tail(l)[n - 1] = l[n]
           /\ \A n \in DOMAIN Tail(l) : n + 1 \in DOMAIN l /\ Tail(l)[n] = l[n + 1]
  OBVIOUS

(* A report that is sent is the last; anything else leaves the last as it    *)
(* was; and a report that is pulled is what its reader has from then on.     *)
LEMMA ReportAppended ==
    ASSUME NEW l \in Seq(Message), NEW message \in Message, NEW before, NEW rate,
           \/ message.kind = "IntParam" /\ message.rate = rate
           \/ message.kind # "IntParam" /\ LastReport(l, before, rate)
    PROVE  LastReport(Append(l, message), before, rate)
  <1> DEFINE l2 == Append(l, message)
             last == Len(l) + 1
  <1>1. /\ DOMAIN l2 = DOMAIN l \cup {last}
        /\ l2[last] = message
        /\ \A n \in DOMAIN l : l2[n] = l[n] /\ n < last /\ n \in Nat
        /\ last \in Nat
    BY AppendKeeps
  <1> HIDE DEF l2, last
  <1>2. CASE message.kind = "IntParam" /\ message.rate = rate
    <2>1. ~(\A n \in DOMAIN l2 : l2[n].kind # "IntParam")
      BY <1>1, <1>2
    <2>2. ASSUME NEW n \in DOMAIN l2,
                 \A m \in DOMAIN l2 : m > n => l2[m].kind # "IntParam"
          PROVE  n = last
      BY <1>1, <1>2, <2>2
    <2> QED BY <1>1, <1>2, <2>1, <2>2 DEF LastReport, l2
  <1>3. CASE message.kind # "IntParam" /\ LastReport(l, before, rate)
    <2>1. (\A n \in DOMAIN l2 : l2[n].kind # "IntParam") => before = rate
      BY <1>1, <1>3 DEF LastReport
    <2>2. ASSUME NEW n \in DOMAIN l2, l2[n].kind = "IntParam",
                 \A m \in DOMAIN l2 : m > n => l2[m].kind # "IntParam"
          PROVE  l2[n].rate = rate
      BY <1>1, <1>3, <2>2 DEF LastReport
    <2> QED BY <2>1, <2>2 DEF LastReport, l2
  <1> QED BY <1>2, <1>3

LEMMA ReportPulled ==
    ASSUME NEW l \in Seq(Message), l # <<>>, NEW before, NEW rate,
           LastReport(l, before, rate)
    PROVE  LastReport(Tail(l), IF Head(l).kind = "IntParam" THEN Head(l).rate ELSE before, rate)
  <1> DEFINE l2 == Tail(l)
  <1>1. /\ 1 \in DOMAIN l /\ Head(l) = l[1]
        /\ \A n \in DOMAIN l : n \in Nat /\ n >= 1
        /\ \A n \in DOMAIN l : n # 1 => n - 1 \in DOMAIN l2 /\ l2[n - 1] = l[n]
        /\ \A n \in DOMAIN l2 : n \in Nat /\ n + 1 \in DOMAIN l /\ l2[n] = l[n + 1]
    BY TailShifts
  <1> HIDE DEF l2
  <1>2. ASSUME \A n \in DOMAIN l2 : l2[n].kind # "IntParam"
        PROVE  (IF Head(l).kind = "IntParam" THEN Head(l).rate ELSE before) = rate
    <2>1. \A n \in DOMAIN l : n # 1 => l[n].kind # "IntParam"
      BY <1>1, <1>2
    <2>2. CASE Head(l).kind = "IntParam"
      <3>1. \A m \in DOMAIN l : m > 1 => l[m].kind # "IntParam"
        BY <2>1
      <3> QED BY <1>1, <2>2, <3>1 DEF LastReport
    <2>3. CASE Head(l).kind # "IntParam"
      <3>1. \A n \in DOMAIN l : l[n].kind # "IntParam"
        BY <1>1, <2>1, <2>3
      <3> QED BY <2>3, <3>1 DEF LastReport
    <2> QED BY <2>2, <2>3
  <1>3. ASSUME NEW n \in DOMAIN l2, l2[n].kind = "IntParam",
               \A m \in DOMAIN l2 : m > n => l2[m].kind # "IntParam"
        PROVE  l2[n].rate = rate
    <2>1. n \in Nat /\ n + 1 \in DOMAIN l /\ l[n + 1].kind = "IntParam" /\ l2[n] = l[n + 1]
      BY <1>1, <1>3
    <2>2. ASSUME NEW m \in DOMAIN l, m > n + 1 PROVE l[m].kind # "IntParam"
      <3>1. m \in Nat /\ m # 1 /\ m - 1 > n
        BY <1>1, <2>1, <2>2
      <3>2. m - 1 \in DOMAIN l2 /\ l2[m - 1] = l[m]
        BY <1>1, <3>1
      <3> QED BY <1>3, <3>1, <3>2
    <2> QED BY <2>1, <2>2 DEF LastReport
  <1> QED BY <1>2, <1>3 DEF LastReport, l2

(* What was told on a link stays told when its sender sends more; and no     *)
(* notice of a loss appears.                                                 *)
LEMMA SentKeeps ==
    ASSUME link \in Links, NEW p \in Player, NEW message \in Message,
           link' = Sent(p, message), NEW x \in Player, NEW q \in Player, NEW c \in Nat
    PROVE  /\ Told(x, q, c) => Told(x, q, c)'
           /\ message.kind # "ConnLost" => (ToldOfLoss(x, q)' <=> ToldOfLoss(x, q))
           /\ x = p /\ q # p /\ message.kind = "AdjustSimSpeed" /\ message.clock = c
                 => Told(x, q, c)'
  <1>1. link[x][q] \in Seq(Message)
    BY DEF Links
  <1>2. CASE x = p /\ q # p
    <2>1. link'[x][q] = Append(link[x][q], message)
      BY <1>2, SentLinks
    <2> QED BY <1>1, <1>2, <2>1, AppendKeeps DEF Told, ToldOfLoss
  <1>3. CASE ~(x = p /\ q # p)
    <2>1. link'[x][q] = link[x][q]
      BY <1>3, SentLinks
    <2> QED BY <1>3, <2>1 DEF Told, ToldOfLoss
  <1> QED BY <1>2, <1>3

LEMMA SentReports ==
    ASSUME RateInv, NEW p \in Live, NEW message \in Message, link' = Sent(p, message),
           NEW x \in Live, NEW q \in Player, x # q, NEW rate,
           IF x = p THEN \/ message.kind = "IntParam" /\ message.rate = rate
                         \/ message.kind # "IntParam" /\ rate = report[x][x]
                    ELSE rate = report[x][x]
    PROVE  LastReport(link'[x][q], report[q][x], rate)
  <1>1. /\ link \in Links
        /\ p \in Player
        /\ x \in Player
        /\ LastReport(link[x][q], report[q][x], report[x][x])
    BY DEF RateInv, TypeOK, Links, Live, ReportsReachAll
  <1>2. link[x][q] \in Seq(Message)
    BY <1>1 DEF Links
  <1>3. CASE x = p
    <2>1. link'[x][q] = Append(link[x][q], message)
      BY <1>1, <1>3, SentLinks
    <2> QED BY <1>1, <1>2, <1>3, <2>1, ReportAppended
  <1>4. CASE x # p
    <2>1. link'[x][q] = link[x][q]
      BY <1>1, <1>4, SentLinks
    <2> QED BY <1>1, <1>4, <2>1
  <1> QED BY <1>3, <1>4

-----------------------------------------------------------------------------
(* The steps.                                                                *)

RateStep == RequestsReachAll' /\ FirstStamp' /\ NothingToItself' /\ LeaversAreDropped'
            /\ ReportsReachAll'

LEMMA SetSimRateKeeps ==
    ASSUME RateInv, NEW p \in Player, NEW rate \in Asked, SetSimRate(p, rate)
    PROVE  RateStep
  <1> DEFINE clock == stamp[p].clock + 1
             t == StampOf(clock, p)
             new == Ask(clock, rate)
  <1>1. /\ TypeOK
        /\ link \in Links
        /\ stamp \in [Player -> Stamp]
        /\ rate \in Int
        /\ p \in Live
    BY RateAssumption DEF RateInv, TypeOK, Links, SetSimRate
  <1>2. clock \in Nat /\ clock > 0 /\ t \in Stamp
    <2>1. stamp[p].clock \in Nat /\ p \in Nat
      BY <1>1, PlayerAssumption DEF Stamp
    <2> QED BY <2>1 DEF StampOf, Stamp
  <1>3. /\ new \in Message
        /\ new.kind = "AdjustSimSpeed"
        /\ new.clock = clock
    BY <1>1, <1>2, MessageTypes DEF Ask
  <1>4. /\ link' = Sent(p, new)
        /\ ApplyIncomingGameSpeedRequest(p, t, rate)
        /\ UNCHANGED <<report, dropped, gone>>
    BY DEF SetSimRate, StampOf
  <1>5. /\ ~Newer(stamp'[p], t)
        /\ \A q \in Player : \/ stamp'[q] = stamp[q]
                             \/ q = p /\ stamp'[q] = t /\ Newer(stamp[q], t)
    BY <1>1, <1>2, <1>4, Applied
  <1>6. t.clock = clock /\ t.requester = p
    BY DEF StampOf
  <1> HIDE DEF clock, t, new
  <1>7. RequestsReachAll'
    <2> SUFFICES ASSUME NEW r \in Live', NEW q \in Player, NEW c \in Nat, Requested(c, r)'
                 PROVE  ~Newer(stamp'[q], StampOf(c, r)) \/ Told(r, q, c)'
      BY DEF RequestsReachAll
    <2>1. r \in Live /\ r \in Player
      BY <1>4 DEF Live
    <2>2. Requested(c, r) \/ (c = clock /\ r = p)
      <3>1. CASE \E m \in UnderWay(r)' : m.clock = c
        BY <1>1, <1>3, <1>4, <2>1, <3>1, SentUnderWay DEF Requested
      <3>2. CASE c > 0 /\ \E h \in Player : stamp'[h] = StampOf(c, r)
        <4>1. PICK h \in Player : stamp'[h] = StampOf(c, r)
          BY <3>2
        <4>2. CASE stamp'[h] = stamp[h]
          BY <3>2, <4>1, <4>2 DEF Requested
        <4>3. CASE stamp'[h] = t
          BY <1>6, <4>1, <4>3 DEF StampOf
        <4> QED BY <1>5, <4>2, <4>3
      <3> QED BY <3>1, <3>2 DEF Requested
    <2>3. CASE Requested(c, r)
      <3>1. StampOf(c, r) \in Stamp
        BY <2>1, PlayerAssumption DEF StampOf, Stamp
      <3>2. ~Newer(stamp[q], StampOf(c, r)) \/ Told(r, q, c)
        BY <2>1, <2>3 DEF RateInv, RequestsReachAll
      <3>3. ~Newer(stamp[q], StampOf(c, r)) => ~Newer(stamp'[q], StampOf(c, r))
        BY <1>1, <1>2, <1>5, <3>1, NewerStays
      <3>4. Told(r, q, c) => Told(r, q, c)'
        BY <1>1, <1>3, <1>4, <2>1, SentKeeps
      <3> QED BY <3>2, <3>3, <3>4
    <2>4. CASE c = clock /\ r = p /\ q = p
      BY <1>5, <2>4 DEF t
    <2>5. CASE c = clock /\ r = p /\ q # p
      BY <1>1, <1>2, <1>3, <1>4, <2>5, SentKeeps
    <2> QED BY <2>2, <2>3, <2>4, <2>5
  <1>8. FirstStamp'
    BY <1>2, <1>5, <1>6 DEF FirstStamp, RateInv
  <1>9. NothingToItself'
    BY <1>1, <1>3, <1>4, SentLinks DEF NothingToItself, RateInv
  <1>10. LeaversAreDropped'
    <2>1. \A x, q \in Player : ToldOfLoss(x, q)' <=> ToldOfLoss(x, q)
      BY <1>1, <1>2, <1>3, <1>4, SentKeeps
    <2> QED BY <1>4, <2>1 DEF LeaversAreDropped, RateInv
  <1>11. ReportsReachAll'
    <2> SUFFICES ASSUME NEW x \in Live, NEW q \in Player, x # q
                 PROVE  LastReport(link'[x][q], report[q][x], report[x][x])
      BY <1>4 DEF ReportsReachAll, Live
    <2> QED BY <1>1, <1>3, <1>4, SentReports
  <1> QED BY <1>7, <1>8, <1>9, <1>10, <1>11 DEF RateStep

LEMMA BroadcastKeeps ==
    ASSUME RateInv, NEW p \in Player, NEW rate \in Asked, BroadcastIntParam(p, rate)
    PROVE  RateStep
  <1> DEFINE new == Report(rate)
  <1>1. /\ TypeOK
        /\ link \in Links
        /\ report \in [Player -> [Player -> Int]]
        /\ rate \in Int
        /\ p \in Live
    BY RateAssumption DEF RateInv, TypeOK, Links, BroadcastIntParam
  <1>2. new \in Message /\ new.kind = "IntParam" /\ new.rate = rate
    BY <1>1, MessageTypes DEF Report
  <1>3. /\ link' = Sent(p, new)
        /\ report' = [report EXCEPT ![p][p] = rate]
        /\ UNCHANGED <<stamp, dropped, gone>>
    BY DEF BroadcastIntParam
  <1> HIDE DEF new
  <1>4. RequestsReachAll'
    <2> SUFFICES ASSUME NEW r \in Live', NEW q \in Player, NEW c \in Nat, Requested(c, r)'
                 PROVE  ~Newer(stamp[q], StampOf(c, r)) \/ Told(r, q, c)'
      BY <1>3 DEF RequestsReachAll
    <2>1. r \in Live /\ r \in Player
      BY <1>3 DEF Live
    <2>2. \A m \in UnderWay(r)' : m \in UnderWay(r)
      <3>1. \A m \in UnderWay(r)' : m.kind = "AdjustSimSpeed"
        BY DEF UnderWay
      <3> QED BY <1>1, <1>2, <1>3, <2>1, <3>1, SentUnderWay
    <2>3. Requested(c, r)
      BY <1>3, <2>2 DEF Requested
    <2>4. ~Newer(stamp[q], StampOf(c, r)) \/ Told(r, q, c)
      BY <2>1, <2>3 DEF RateInv, RequestsReachAll
    <2> QED BY <1>1, <1>2, <1>3, <2>1, <2>4, SentKeeps
  <1>5. FirstStamp'
    BY <1>3 DEF FirstStamp, RateInv
  <1>6. NothingToItself'
    BY <1>1, <1>2, <1>3, SentLinks DEF NothingToItself, RateInv
  <1>7. LeaversAreDropped'
    <2>1. \A x, q \in Player : ToldOfLoss(x, q)' <=> ToldOfLoss(x, q)
      BY <1>1, <1>2, <1>3, SentKeeps
    <2> QED BY <1>3, <2>1 DEF LeaversAreDropped, RateInv
  <1>8. ReportsReachAll'
    <2> SUFFICES ASSUME NEW x \in Live, NEW q \in Player, x # q
                 PROVE  LastReport(link'[x][q], report'[q][x], report'[x][x])
      BY <1>3 DEF ReportsReachAll, Live
    <2>1. x \in Player /\ p \in Player
      BY DEF Live
    <2>2. report'[q][x] = report[q][x]
      BY <1>1, <1>3, <2>1
    <2>3. report'[x][x] = IF x = p THEN rate ELSE report[x][x]
      BY <1>1, <1>3, <2>1
    <2> QED BY <1>1, <1>2, <1>3, <2>2, <2>3, SentReports
  <1> QED BY <1>4, <1>5, <1>6, <1>7, <1>8 DEF RateStep

LEMMA LeaveKeeps ==
    ASSUME RateInv, NEW p \in Player, NEW kept \in [Player -> 0 .. MaxAsks], Leave(p, kept)
    PROVE  RateStep
  <1>1. link \in Links /\ TypeOK
    BY DEF RateInv, TypeOK, Links
  <1>2. /\ gone' = gone \cup {p}
        /\ UNCHANGED <<stamp, report, dropped>>
    BY DEF Leave
  <1>3. \A x, q \in Player : x # p \/ q = p => link'[x][q] = link[x][q]
    BY <1>1 DEF Leave, Links
  <1>4. ASSUME NEW q \in Player, q # p PROVE ToldOfLoss(p, q)'
    <2> DEFINE l == SubSeq(link[p][q], 1, kept[q])
    <2>1. l \in Seq(Message)
      <3>1. link[p][q] \in Seq(Message) /\ kept[q] \in 0 .. Len(link[p][q])
        BY <1>1 DEF Links, Leave
      <3> QED BY <3>1
    <2>2. link'[p][q] = Append(l, ConnLost)
      BY <1>1, <1>4 DEF Leave, Links
    <2> HIDE DEF l
    <2>3. Len(l) + 1 \in DOMAIN link'[p][q] /\ link'[p][q][Len(l) + 1] = ConnLost
      BY <2>1, <2>2
    <2> QED BY <2>3 DEF ToldOfLoss, ConnLost
  <1>5. \A r \in Live' : r \in Live /\ r # p /\ r \in Player
    BY <1>2 DEF Live
  <1>6. RequestsReachAll'
    <2> SUFFICES ASSUME NEW r \in Live', NEW q \in Player, NEW c \in Nat, Requested(c, r)'
                 PROVE  ~Newer(stamp[q], StampOf(c, r)) \/ Told(r, q, c)'
      BY <1>2 DEF RequestsReachAll
    <2>1. link'[r] = link[r]
      BY <1>1, <1>5 DEF Leave, Links
    <2>2. Requested(c, r) /\ (Told(r, q, c) => Told(r, q, c)')
      BY <1>2, <2>1 DEF Requested, UnderWay, Told
    <2> QED BY <1>5, <2>2 DEF RateInv, RequestsReachAll
  <1>7. FirstStamp'
    BY <1>2 DEF FirstStamp, RateInv
  <1>8. NothingToItself'
    BY <1>3 DEF NothingToItself, RateInv
  <1>9. LeaversAreDropped'
    <2> SUFFICES ASSUME NEW x \in Player, NEW q \in Player
                 PROVE  /\ x \in dropped[q] \/ ToldOfLoss(x, q)' => x \in gone'
                        /\ x \in gone' /\ x # q => x \in dropped[q] \/ ToldOfLoss(x, q)'
      BY <1>2 DEF LeaversAreDropped
    <2>1. CASE x = p
      BY <1>2, <1>4, <2>1
    <2>2. CASE x # p
      <3>1. ToldOfLoss(x, q)' <=> ToldOfLoss(x, q)
        BY <1>3, <2>2 DEF ToldOfLoss
      <3> QED BY <1>2, <2>2, <3>1 DEF LeaversAreDropped, RateInv
    <2> QED BY <2>1, <2>2
  <1>10. ReportsReachAll'
    BY <1>2, <1>3, <1>5 DEF ReportsReachAll, RateInv
  <1> QED BY <1>6, <1>7, <1>8, <1>9, <1>10 DEF RateStep

(* A pulled request was under way, and pulling makes none.                   *)
LEMMA PulledUnderWay ==
    ASSUME link \in Links, NEW p \in Player, NEW q \in Player, Receive(p, q)
    PROVE  /\ \A r \in Player : UnderWay(r)' \subseteq UnderWay(r)
           /\ Head(link[p][q]).kind = "AdjustSimSpeed" => Head(link[p][q]) \in UnderWay(p)
  <1>1. link[p][q] \in Seq(Message) /\ link[p][q] # <<>>
    BY DEF Receive, Links
  <1>2. ASSUME NEW r \in Player, NEW m \in UnderWay(r)' PROVE m \in UnderWay(r)
    <2>1. PICK s \in Player : \E n \in DOMAIN link'[r][s] :
              m = link'[r][s][n] /\ m.kind = "AdjustSimSpeed"
      BY DEF UnderWay
    <2>2. PICK n \in DOMAIN link'[r][s] : m = link'[r][s][n] /\ m.kind = "AdjustSimSpeed"
      BY <2>1
    <2>3. \E k \in DOMAIN link[r][s] : link[r][s][k] = m
      <3>1. CASE r = p /\ s = q
        <4>1. link'[r][s] = Tail(link[r][s])
          BY <3>1, ReceiveLinks
        <4> QED BY <1>1, <2>2, <3>1, <4>1, TailShifts
      <3>2. CASE ~(r = p /\ s = q)
        <4>1. link'[r][s] = link[r][s]
          BY <3>2, ReceiveLinks
        <4> QED BY <2>2, <4>1
      <3> QED BY <3>1, <3>2
    <2> QED BY <2>2, <2>3 DEF UnderWay
  <1>3. ASSUME Head(link[p][q]).kind = "AdjustSimSpeed"
        PROVE  Head(link[p][q]) \in UnderWay(p)
    <2>1. 1 \in DOMAIN link[p][q] /\ Head(link[p][q]) = link[p][q][1]
      BY <1>1, TailShifts
    <2> QED BY <1>3, <2>1 DEF UnderWay
  <1> QED BY <1>2, <1>3

LEMMA ReceiveKeeps ==
    ASSUME RateInv, NEW p \in Player, NEW q \in Player, Receive(p, q)
    PROVE  RateStep
  <1> DEFINE head == Head(link[p][q])
             t == StampOf(head.clock, p)
             rest == Tail(link[p][q])
  <1>1. /\ TypeOK
        /\ link \in Links
        /\ stamp \in [Player -> Stamp]
        /\ report \in [Player -> [Player -> Int]]
        /\ dropped \in [Player -> SUBSET Player]
    BY DEF RateInv, TypeOK, Links
  <1>2. link[p][q] \in Seq(Message) /\ link[p][q] # <<>> /\ q \in Live
    BY <1>1 DEF Receive, Links
  <1>3. head \in Message /\ head.clock \in Nat /\ head.rate \in Int
    <2>1. head \in Message
      BY <1>2
    <2> QED BY <2>1 DEF Message
  <1>4. p # q
    BY <1>2 DEF RateInv, NothingToItself
  <1>5. /\ UNCHANGED gone
        /\ \/ ReceiveAsk(p, q, head)
           \/ ReceiveReport(p, q, head)
           \/ ReceiveConnLost(p, q, head)
    BY DEF Receive
  <1>6. t \in Stamp /\ t.clock = head.clock /\ t.requester = p
    BY <1>3, PlayerAssumption DEF StampOf, Stamp
  <1>7. /\ 1 \in DOMAIN link[p][q] /\ head = link[p][q][1]
        /\ \A n \in DOMAIN link[p][q] : n # 1 =>
             n - 1 \in DOMAIN rest /\ rest[n - 1] = link[p][q][n]
        /\ \A n \in DOMAIN rest : n + 1 \in DOMAIN link[p][q] /\ rest[n] = link[p][q][n + 1]
    BY <1>2, TailShifts
  <1>8. link'[p][q] = rest
    BY <1>1, ReceiveLinks
  <1>9. \A x, y \in Player : ~(x = p /\ y = q) => link'[x][y] = link[x][y]
    BY <1>1, ReceiveLinks
  <1>10. /\ head.kind = "AdjustSimSpeed" => ~Newer(stamp'[q], t) /\ head \in UnderWay(p)
         /\ \A h \in Player : \/ stamp'[h] = stamp[h]
                              \/ /\ h = q /\ stamp'[h] = t /\ Newer(stamp[h], t)
                                 /\ head.kind = "AdjustSimSpeed"
    <2>1. CASE ReceiveAsk(p, q, head)
      <3>1. ApplyIncomingGameSpeedRequest(q, t, head.rate) /\ head.kind = "AdjustSimSpeed"
        BY <2>1 DEF ReceiveAsk, StampOf
      <3> HIDE DEF head, t
      <3>2. /\ ~Newer(stamp'[q], t)
            /\ \A h \in Player : \/ stamp'[h] = stamp[h]
                                 \/ h = q /\ stamp'[h] = t /\ Newer(stamp[h], t)
        BY <1>1, <1>3, <1>6, <3>1, Applied
      <3>3. head \in UnderWay(p)
        BY <1>1, <3>1, PulledUnderWay DEF head
      <3> QED BY <3>1, <3>2, <3>3
    <2>2. CASE ReceiveReport(p, q, head) \/ ReceiveConnLost(p, q, head)
      <3>1. head.kind # "AdjustSimSpeed" /\ UNCHANGED stamp
        BY <2>2 DEF ReceiveReport, ReceiveConnLost
      <3> QED BY <3>1
    <2> QED BY <1>5, <2>1, <2>2
  <1>11. report'[q][p] = IF head.kind = "IntParam" THEN head.rate ELSE report[q][p]
    BY <1>1, <1>5 DEF ReceiveAsk, ReceiveReport, ReceiveConnLost
  <1>12. \A x, y \in Player : ~(x = p /\ y = q) => report'[y][x] = report[y][x]
    BY <1>1, <1>5 DEF ReceiveAsk, ReceiveReport, ReceiveConnLost
  <1>13. /\ \A y \in Player : y # q => dropped'[y] = dropped[y]
         /\ dropped'[q] = IF head.kind = "ConnLost" THEN dropped[q] \cup {p} ELSE dropped[q]
    BY <1>1, <1>5 DEF ReceiveAsk, ReceiveReport, ReceiveConnLost
  <1> HIDE DEF head, t, rest
  <1>14. RequestsReachAll'
    <2> SUFFICES ASSUME NEW r \in Live', NEW y \in Player, NEW c \in Nat, Requested(c, r)'
                 PROVE  ~Newer(stamp'[y], StampOf(c, r)) \/ Told(r, y, c)'
      BY DEF RequestsReachAll
    <2>1. r \in Live /\ r \in Player
      BY <1>5 DEF Live
    <2>2. Requested(c, r)
      <3>1. CASE \E m \in UnderWay(r)' : m.clock = c
        BY <1>1, <2>1, <3>1, PulledUnderWay DEF Requested
      <3>2. CASE c > 0 /\ \E h \in Player : stamp'[h] = StampOf(c, r)
        <4>1. PICK h \in Player : stamp'[h] = StampOf(c, r)
          BY <3>2
        <4>2. CASE stamp'[h] = stamp[h]
          BY <3>2, <4>1, <4>2 DEF Requested
        <4>3. CASE stamp'[h] = t /\ head.kind = "AdjustSimSpeed"
          <5>1. c = head.clock /\ r = p
            BY <1>6, <4>1, <4>3 DEF StampOf
          <5> QED BY <1>10, <4>3, <5>1 DEF Requested
        <4> QED BY <1>10, <4>2, <4>3
      <3> QED BY <3>1, <3>2 DEF Requested
    <2>3. StampOf(c, r) \in Stamp
      BY <2>1, PlayerAssumption DEF StampOf, Stamp
    <2>4. ~Newer(stamp[y], StampOf(c, r)) \/ Told(r, y, c)
      BY <2>1, <2>2 DEF RateInv, RequestsReachAll
    <2>5. ~Newer(stamp[y], StampOf(c, r)) => ~Newer(stamp'[y], StampOf(c, r))
      BY <1>1, <1>6, <1>10, <2>3, NewerStays
    <2>6. CASE Told(r, y, c) /\ ~(r = p /\ y = q)
      BY <1>9, <2>1, <2>6 DEF Told
    <2>7. CASE Told(r, y, c) /\ r = p /\ y = q
      <3>1. PICK n \in DOMAIN link[p][q] :
                 link[p][q][n].kind = "AdjustSimSpeed" /\ link[p][q][n].clock = c
        BY <2>7 DEF Told
      <3>2. CASE n = 1
        BY <1>7, <1>10, <2>7, <3>1, <3>2 DEF t
      <3>3. CASE n # 1
        BY <1>7, <1>8, <2>7, <3>1, <3>3 DEF Told
      <3> QED BY <3>2, <3>3
    <2> QED BY <2>4, <2>5, <2>6, <2>7
  <1>15. FirstStamp'
    <2>1. head.kind = "AdjustSimSpeed" => head.clock > 0
      BY <1>3, <1>10 DEF RateInv, StampInv, AskedBefore
    <2> QED BY <1>3, <1>6, <1>10, <2>1 DEF FirstStamp, RateInv
  <1>16. NothingToItself'
    BY <1>4, <1>9 DEF NothingToItself, RateInv
  <1>17. LeaversAreDropped'
    <2> SUFFICES ASSUME NEW x \in Player, NEW y \in Player
                 PROVE  /\ x \in dropped'[y] \/ ToldOfLoss(x, y)' => x \in gone
                        /\ x \in gone /\ x # y => x \in dropped'[y] \/ ToldOfLoss(x, y)'
      BY <1>5 DEF LeaversAreDropped
    <2>1. /\ x \in dropped[y] \/ ToldOfLoss(x, y) => x \in gone
          /\ x \in gone /\ x # y => x \in dropped[y] \/ ToldOfLoss(x, y)
      BY DEF LeaversAreDropped, RateInv
    <2>2. CASE x = p /\ y = q
      <3>1. ToldOfLoss(x, y)' => ToldOfLoss(x, y)
        BY <1>7, <1>8, <2>2 DEF ToldOfLoss
      <3>2. head.kind = "ConnLost" => ToldOfLoss(x, y)
        BY <1>7, <2>2 DEF ToldOfLoss
      <3>3. ToldOfLoss(x, y) => head.kind = "ConnLost" \/ ToldOfLoss(x, y)'
        BY <1>7, <1>8, <2>2 DEF ToldOfLoss
      <3> QED BY <1>13, <2>1, <2>2, <3>1, <3>2, <3>3
    <2>3. CASE ~(x = p /\ y = q)
      <3>1. ToldOfLoss(x, y)' <=> ToldOfLoss(x, y)
        BY <1>9, <2>3 DEF ToldOfLoss
      <3>2. x \in dropped'[y] <=> x \in dropped[y]
        BY <1>13, <2>3
      <3> QED BY <2>1, <3>1, <3>2
    <2> QED BY <2>2, <2>3
  <1>18. ReportsReachAll'
    <2> SUFFICES ASSUME NEW x \in Live, NEW y \in Player, x # y
                 PROVE  LastReport(link'[x][y], report'[y][x], report'[x][x])
      BY <1>5 DEF ReportsReachAll, Live
    <2>1. x \in Player /\ LastReport(link[x][y], report[y][x], report[x][x])
      BY DEF Live, RateInv, ReportsReachAll
    <2>2. report'[x][x] = report[x][x]
      BY <1>4, <1>12, <2>1
    <2>3. CASE x = p /\ y = q
      <3>1. LastReport(Tail(link[p][q]),
                       IF head.kind = "IntParam" THEN head.rate ELSE report[q][p],
                       report[p][p])
        BY <1>2, <2>1, <2>3, ReportPulled DEF head
      <3> QED BY <1>8, <1>11, <2>2, <2>3, <3>1 DEF rest
    <2>4. CASE ~(x = p /\ y = q)
      BY <1>9, <1>12, <2>1, <2>2, <2>4
    <2> QED BY <2>3, <2>4
  <1> QED BY <1>14, <1>15, <1>16, <1>17, <1>18 DEF RateStep

LEMMA RateInvStep == RateInv /\ [Next]_vars => RateInv'
  <1> SUFFICES ASSUME RateInv, [Next]_vars PROVE RateInv'
    OBVIOUS
  <1>1. TypeOK' /\ StampInv'
    BY TypeStep, StampStep DEF RateInv
  <1>2. ASSUME RateStep PROVE RateInv'
    BY <1>1, <1>2 DEF RateInv, RateStep
  <1>3. CASE UNCHANGED vars
    BY <1>1, <1>3 DEF vars, RateInv, RequestsReachAll, Requested, UnderWay, Told, FirstStamp,
                      NothingToItself, LeaversAreDropped, ToldOfLoss, ReportsReachAll, Live
  <1> QED BY <1>2, <1>3, SetSimRateKeeps, BroadcastKeeps, ReceiveKeeps, LeaveKeeps DEF Next

LEMMA RateInvInit == Init => RateInv
  <1> SUFFICES ASSUME Init PROVE RateInv
    OBVIOUS
  <1>1. TypeOK /\ StampInv
    BY TypeInit, StampInit
  <1>2. RequestsReachAll
    <2> SUFFICES ASSUME NEW r \in Live, NEW q \in Player, NEW c \in Nat, Requested(c, r)
                 PROVE  FALSE
      BY DEF RequestsReachAll
    <2>1. r \in Player /\ UnderWay(r) = {}
      BY DEF Init, UnderWay, Live
    <2>2. \A h \in Player : stamp[h].clock = 0
      BY DEF Init
    <2> QED BY <2>1, <2>2 DEF Requested, StampOf
  <1>3. FirstStamp /\ NothingToItself /\ LeaversAreDropped
    BY DEF Init, FirstStamp, NothingToItself, LeaversAreDropped, ToldOfLoss
  <1>4. ReportsReachAll
    BY DEF Init, ReportsReachAll, LastReport, Live
  <1> QED BY <1>1, <1>2, <1>3, <1>4 DEF RateInv

-----------------------------------------------------------------------------
(* When nothing is under way.                                                *)

LEMMA SameSpeed ==
    ASSUME RateInv, Quiet, NewestIsOfTheLiving, NEW p \in Live, NEW q \in Live
    PROVE  speed[p] = speed[q]
  <1>1. PICK r \in Live : /\ \A x \in Live : ~Newer(stamp[r], stamp[x])
                          /\ stamp[r].clock = 0 \/ stamp[r].requester \in Live
    BY DEF NewestIsOfTheLiving
  <1>2. stamp \in [Player -> Stamp] /\ Live \subseteq Player
    BY DEF RateInv, TypeOK, Live
  <1>3. ASSUME NEW x \in Live PROVE stamp[x] = stamp[r]
    <2>1. /\ stamp[x] \in Stamp
          /\ stamp[r] \in Stamp
          /\ stamp[r].clock \in Nat
          /\ stamp[r] = StampOf(stamp[r].clock, stamp[r].requester)
          /\ ~Newer(stamp[r], stamp[x])
      BY <1>1, <1>2 DEF Stamp, StampOf
    <2>2. CASE stamp[r].clock = 0
      <3>1. stamp[x].clock = 0
        BY <2>1, <2>2 DEF Newer, Stamp
      <3>2. stamp[r].requester = 0 /\ stamp[x].requester = 0
        BY <1>2, <2>2, <3>1 DEF RateInv, FirstStamp
      <3> QED BY <2>1, <2>2, <3>1, <3>2 DEF Stamp
    <2>3. CASE stamp[r].clock # 0
      <3> DEFINE c == stamp[r].clock
                 a == stamp[r].requester
      <3>1. c > 0 /\ c \in Nat /\ a \in Live
        BY <1>1, <2>1, <2>3
      <3>2. Requested(c, a)
        BY <1>2, <2>1, <3>1 DEF Requested
      <3>3. ~Told(a, x, c)
        BY <1>2, <3>1 DEF Quiet, Told
      <3>4. ~Newer(stamp[x], StampOf(c, a))
        BY <1>2, <3>1, <3>2, <3>3 DEF RateInv, RequestsReachAll
      <3> QED BY <2>1, <3>4, NewerOrder
    <2> QED BY <2>2, <2>3
  <1>4. stamp[p] = stamp[q]
    BY <1>3
  <1> QED BY <1>2, <1>4 DEF RateInv, StampInv, OneStampOneSpeed

LEMMA SameReports ==
    ASSUME RateInv, Quiet, NEW p \in Live
    PROVE  {report[p][x] : x \in Player \ dropped[p]} = {report[x][x] : x \in Live}
  <1>1. p \in Player
    BY DEF Live
  <1>2. ASSUME NEW x \in Player PROVE x \in dropped[p] <=> x \in gone
    <2>1. ~ToldOfLoss(x, p)
      BY <1>2 DEF Quiet, ToldOfLoss
    <2>2. p \notin gone
      BY DEF Live
    <2> QED BY <1>1, <2>1, <2>2 DEF RateInv, LeaversAreDropped
  <1>3. Player \ dropped[p] = Live
    BY <1>2 DEF Live
  <1>4. ASSUME NEW x \in Live PROVE report[p][x] = report[x][x]
    <2>1. CASE x = p
      BY <2>1
    <2>2. CASE x # p
      <3>1. link[x][p] = <<>> /\ LastReport(link[x][p], report[p][x], report[x][x])
        BY <1>1, <2>2 DEF Quiet, Live, RateInv, ReportsReachAll
      <3> QED BY <3>1 DEF LastReport
    <2> QED BY <2>1, <2>2
  <1> QED BY <1>3, <1>4

(* Once every message has arrived, the players that are left issue beats at  *)
(* the same rate, if whoever asked last is one of them: the newest request   *)
(* of somebody still there has reached all, a leaver is dropped by all, and  *)
(* what each of the rest reported last is what all have of it.               *)
THEOREM OneRate == Spec => []SameRateWhenQuiet
  <1>1. RateInv => SameRateWhenQuiet
    <2> SUFFICES ASSUME RateInv, Quiet, NewestIsOfTheLiving, NEW p \in Live, NEW q \in Live
                 PROVE  GetSimRate(p) = GetSimRate(q)
      BY DEF SameRateWhenQuiet
    <2>1. speed[p] = speed[q]
      BY SameSpeed
    <2>2. {report[p][x] : x \in Player \ dropped[p]} = {report[x][x] : x \in Live}
      BY SameReports
    <2>3. {report[q][x] : x \in Player \ dropped[q]} = {report[x][x] : x \in Live}
      BY SameReports
    <2> QED BY <2>1, <2>2, <2>3 DEF GetSimRate
  <1> QED BY <1>1, RateInvInit, RateInvStep, PTL DEF Spec

=============================================================================
