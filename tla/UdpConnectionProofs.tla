------------------------ MODULE UdpConnectionProofs ------------------------
(* Three results about UdpConnection, for every window, mask and bound.      *)
(*                                                                           *)
(* A connector has at most one connection to its peer that has not failed,   *)
(* whatever the network and the two games do.  A step either works on        *)
(* connections one by one, and then none that failed comes back (Failing);   *)
(* or it lets one live connection of the list change and leaves the others   *)
(* (the packet's target); or it fails every live connection but one, and     *)
(* only then puts a new one in the list (Connect, ReceiveConnect).           *)
(*                                                                           *)
(* Every field keeps its range (Typed).                                      *)
(*                                                                           *)
(* An established link delivers in order, and acknowledges only what is held *)
(* (TransferInv).  The invariant counts packets in natural numbers, n of     *)
(* which the program has only Num(n), and says of each direction what the    *)
(* sender, the receiver and the packets under way know of each other         *)
(* (Direction).  It is stated of the two connections, the two logs and the   *)
(* packets, so that a step of either end is shown to keep it by a lemma that *)
(* names neither end (the Link lemmas); an action is then one of those at    *)
(* the first connection of its list.                                         *)
EXTENDS UdpTransfer, SequenceTheorems, FiniteSetTheorems, WellFoundedInduction,
        NaturalsInduction, TLAPS

----------------------------------------------------------------------------
(* One live connection *)

\* What the steps need of the shape of conn: an entry for each end, and a state
\* in each connection.
Shape ==
  /\ DOMAIN conn = End
  /\ \A e \in End : \A i \in DOMAIN conn[e] : "state" \in DOMAIN conn[e][i]

Inv == Shape /\ OneLiveConnection

\* The list f after a step has at most one live connection, and states.
Sound(f) ==
  /\ \A i \in DOMAIN f : "state" \in DOMAIN f[i]
  /\ \A i, j \in DOMAIN f : BeforeErrored(f[i]) /\ BeforeErrored(f[j]) => i = j

\* A step that changes one connector's list, to a sound one, keeps the invariant.
LEMMA OneList ==
  ASSUME Inv, NEW e \in End, NEW f, conn' = [conn EXCEPT ![e] = f], Sound(f)
  PROVE  Inv'
BY DEF Inv, Shape, OneLiveConnection, Sound

LEMMA InvSound == ASSUME Inv, NEW e \in End PROVE Sound(conn[e])
BY DEF Inv, Shape, OneLiveConnection, Sound

\* No failed connection comes back from f to g.
Failing(f, g) ==
  /\ DOMAIN g \subseteq DOMAIN f
  /\ \A i \in DOMAIN g : "state" \in DOMAIN g[i]
  /\ \A i \in DOMAIN g : BeforeErrored(g[i]) => BeforeErrored(f[i])

LEMMA FailingIsSound == ASSUME NEW f, NEW g, Sound(f), Failing(f, g) PROVE Sound(g)
BY DEF Sound, Failing

\* One connection is changed, and is not brought back by it.
LEMMA SetOne ==
  ASSUME Inv, NEW e \in End, NEW i \in DOMAIN conn[e], NEW c, Set(e, i, c),
         "state" \in DOMAIN c, BeforeErrored(c) => BeforeErrored(conn[e][i])
  PROVE  Inv'
<1>1. conn' = [conn EXCEPT ![e] = [conn[e] EXCEPT ![i] = c]]
  BY DEF Set
<1>2. Failing(conn[e], [conn[e] EXCEPT ![i] = c])
  BY InvSound DEF Failing, Sound
<1>3. Sound([conn[e] EXCEPT ![i] = c])
  BY <1>2, InvSound, FailingIsSound
<1> QED BY <1>1, <1>3, OneList

LEMMA SendOne ==
  ASSUME Inv, NEW e \in End, NEW i \in DOMAIN conn[e], NEW c, NEW p, SendPacket(e, i, c, p),
         "state" \in DOMAIN c, BeforeErrored(conn[e][i])
  PROVE  Inv'
<1>1. Set(e, i, [c EXCEPT !.owes = FALSE])
  BY DEF SendPacket
<1>2. "state" \in DOMAIN [c EXCEPT !.owes = FALSE]
  OBVIOUS
<1> QED BY <1>1, <1>2, SetOne

----------------------------------------------------------------------------
(* The connector's thread sends *)

LEMMA SendsKeep ==
  ASSUME Inv, NEW e \in End, NEW i \in Slot, Network(e, i)
  PROVE  Inv'
<1> USE DEF Sending, Established
<1>1. CASE SendConnect(e, i)
  BY <1>1, SendOne DEF SendConnect, SendHandshake, BeforeErrored, Inv, Shape
<1>2. CASE SendAnswer(e, i)
  BY <1>2, SendOne DEF SendAnswer, SendHandshake, BeforeErrored, Inv, Shape
<1>3. CASE DestroyAtOnce(e, i)
  <2> DEFINE c == [conn[e][i] EXCEPT !.destroyed = TRUE]
  <2>1. i \in DOMAIN conn[e] /\ Set(e, i, c)
    BY <1>3 DEF DestroyAtOnce
  <2>2. "state" \in DOMAIN c /\ c.state = conn[e][i].state
    BY <2>1 DEF Inv, Shape
  <2> QED BY <2>1, <2>2, SetOne DEF BeforeErrored
<1>4. CASE TimeOut(e, i)
  <2> DEFINE c == [conn[e][i] EXCEPT !.state = "TimedOut", !.destroyed = conn[e][i].destroy]
  <2>1. i \in DOMAIN conn[e] /\ Set(e, i, c) /\ BeforeErrored(conn[e][i])
    BY <1>4 DEF TimeOut, BeforeErrored
  <2>2. "state" \in DOMAIN c
    BY <2>1 DEF Inv, Shape
  <2> QED BY <2>1, <2>2, SetOne
<1>5. CASE Resend(e, i)
  BY <1>5, SendOne DEF Resend, BeforeErrored, Inv, Shape
<1>6. CASE SendData(e, i)
  <2>1. i \in DOMAIN conn[e] /\ BeforeErrored(conn[e][i]) /\ "state" \in DOMAIN conn[e][i]
    BY <1>6 DEF SendData, BeforeErrored, Inv, Shape
  <2>2. PICK c, p : "state" \in DOMAIN c /\ SendPacket(e, i, c, p)
    BY <1>6, <2>1 DEF SendData
  <2> QED BY <2>1, <2>2, SendOne
<1>7. CASE SendGoodbye(e, i)
  <2>1. i \in DOMAIN conn[e] /\ BeforeErrored(conn[e][i]) /\ "state" \in DOMAIN conn[e][i]
    BY <1>7 DEF SendGoodbye, BeforeErrored, Inv, Shape
  <2> QED BY <1>7, <2>1, SendOne DEF SendGoodbye
<1>8. CASE SendKeepAlive(e, i)
  BY <1>8, SendOne DEF SendKeepAlive, BeforeErrored, Inv, Shape
<1>9. CASE SendAck(e, i)
  BY <1>9, SendOne DEF SendAck, BeforeErrored, Inv, Shape
<1> QED
  BY <1>1, <1>2, <1>3, <1>4, <1>5, <1>6, <1>7, <1>8, <1>9 DEF Network

----------------------------------------------------------------------------
(* It receives *)

\* What a connection becomes has a state still.
LEMMA ProcessedHasState ==
  ASSUME NEW c, NEW p, "state" \in DOMAIN c
  PROVE  "state" \in DOMAIN Processed(c, p)
<1>1. "state" \in DOMAIN Opened(c)
  BY DEF Opened
<1>2. "state" \in DOMAIN TakeAck(c, p)
  BY <1>1 DEF TakeAck
<1>3. ASSUME NEW d, "state" \in DOMAIN d PROVE "state" \in DOMAIN Adopt(d)
  BY <1>3 DEF Adopt
<1>4. ASSUME NEW d, "state" \in DOMAIN d PROVE "state" \in DOMAIN CloseInput(d)
  BY <1>4 DEF CloseInput
<1>5. ASSUME NEW d, "state" \in DOMAIN d PROVE "state" \in DOMAIN Drain(d)
  BY <1>5 DEF Drain
<1>6. "state" \in DOMAIN ProcessAnswer(c, p)
  BY <1>3 DEF ProcessAnswer
<1>7. "state" \in DOMAIN ProcessData(c, p)
  BY <1>1, <1>2, <1>3, <1>5 DEF ProcessData
<1>8. "state" \in DOMAIN ProcessAck(c, p)
  BY <1>1, <1>2 DEF ProcessAck
<1>9. "state" \in DOMAIN ProcessKeepAlive(c, p)
  BY <1>1, <1>2, <1>3 DEF ProcessKeepAlive
<1>10. "state" \in DOMAIN ProcessGoodbye(c, p)
  BY <1>1, <1>2, <1>4 DEF ProcessGoodbye
<1> QED BY <1>6, <1>7, <1>8, <1>9, <1>10 DEF Processed

LEMMA FirstIsOne ==
  ASSUME Inv, NEW e \in End
  PROVE  \A k \in First({i \in DOMAIN conn[e] : BeforeErrored(conn[e][i])}) :
           k \in DOMAIN conn[e] /\ BeforeErrored(conn[e][k])
BY DEF First

\* Only the target changes, and it was the one live connection.
LEMMA ReceivePacketKeeps ==
  ASSUME Inv, NEW e \in End, NEW p, ReceivePacket(e, p)
  PROVE  Inv'
<1> DEFINE target == First({i \in DOMAIN conn[e] : BeforeErrored(conn[e][i])})
           f == [i \in DOMAIN conn[e] |->
                   IF i \in target THEN Processed(conn[e][i], p) ELSE conn[e][i]]
<1>1. conn' = [conn EXCEPT ![e] = f]
  BY DEF ReceivePacket
<1>2. \A i \in DOMAIN f : "state" \in DOMAIN f[i]
  BY ProcessedHasState DEF ReceivePacket, Inv, Shape
<1>3. \A i \in DOMAIN f : BeforeErrored(f[i]) => BeforeErrored(conn[e][i])
  BY FirstIsOne
<1>4. Failing(conn[e], f)
  BY <1>2, <1>3 DEF Failing
<1>5. Sound(f)
  BY <1>4, InvSound, FailingIsSound
<1> QED BY <1>1, <1>5, OneList

\* CONNECT fails each live connection it is offered to, up to one that takes it.
LEMMA ReceiveConnectKeeps ==
  ASSUME Inv, NEW e \in End, NEW p, ReceiveConnect(e, p)
  PROVE  Inv'
<1> DEFINE Takes(c) == BeforeErrored(c) /\ (Handshaking(c) \/ Obsolete(c, p))
           taker == First({i \in DOMAIN conn[e] : Takes(conn[e][i])})
           Offer(i) == CASE i \in taker -> IF Obsolete(conn[e][i], p) THEN conn[e][i]
                                           ELSE AdoptConnect(conn[e][i], p)
                         [] BeforeErrored(conn[e][i]) /\ \A t \in taker : i > t -> CloseInput(conn[e][i])
                         [] OTHER -> conn[e][i]
           offered == [i \in DOMAIN conn[e] |-> Offer(i)]
           made == taker = {} /\ ~closed[e] /\ Len(log[e]) < MaxConns[e]
           new == AdoptConnect(NewConnection("Pending"), p)
           f == IF made THEN With(offered, NextId(e), new) ELSE offered
<1>1. conn' = [conn EXCEPT ![e] = f]
  BY Zenon DEF ReceiveConnect
<1>2. \A i \in taker : i \in DOMAIN conn[e] /\ BeforeErrored(conn[e][i])
  BY DEF First
<1>3. ASSUME NEW c, "state" \in DOMAIN c
      PROVE  /\ "state" \in DOMAIN AdoptConnect(c, p)
             /\ "state" \in DOMAIN CloseInput(c) /\ ~BeforeErrored(CloseInput(c))
  BY <1>3 DEF AdoptConnect, Adopt, CloseInput, BeforeErrored
<1>4. \A i \in DOMAIN conn[e] : "state" \in DOMAIN Offer(i)
  BY <1>3, Zenon DEF Inv, Shape
<1>5. \A i \in DOMAIN conn[e] : BeforeErrored(Offer(i)) => BeforeErrored(conn[e][i])
  BY <1>2, Zenon
<1>6. Failing(conn[e], offered)
  BY <1>4, <1>5 DEF Failing
<1>7. Sound(offered)
  BY <1>6, InvSound, FailingIsSound
<1>8. CASE made
  <2>1. \A i \in DOMAIN conn[e] : ~BeforeErrored(Offer(i))
    BY <1>8, <1>3, Zenon DEF Inv, Shape
  <2>2. "state" \in DOMAIN new
    BY <1>3 DEF NewConnection
  <2>3. Sound(With(offered, NextId(e), new))
    BY <1>4, <2>1, <2>2 DEF Sound, With
  <2> QED BY <1>1, <1>8, <2>3, OneList
<1>9. CASE ~made
  BY <1>1, <1>7, <1>9, OneList
<1> QED BY <1>8, <1>9

----------------------------------------------------------------------------
(* The game's thread *)

\* Connect fails whatever the scan passes before the connection it accepts.
LEMMA ConnectKeeps ==
  ASSUME Inv, NEW e \in End, Connect(e)
  PROVE  Inv'
<1> DEFINE accepted == First({i \in DOMAIN conn[e] : Acceptable(conn[e][i])})
           Scan(i) == CASE i \in accepted -> [conn[e][i] EXCEPT !.state = "Answering"]
                        [] i \notin accepted /\ \A k \in accepted : i > k -> Replaced(conn[e][i])
                        [] OTHER -> conn[e][i]
           scanned == [i \in DOMAIN conn[e] |-> Scan(i)]
           made == accepted = {}
           f == IF made THEN With(scanned, NextId(e), NewConnection("Connecting")) ELSE scanned
<1>1. conn' = [conn EXCEPT ![e] = f]
  BY Zenon DEF Connect
<1>2. \A i \in accepted : i \in DOMAIN conn[e] /\ BeforeErrored(conn[e][i])
  BY DEF First, Acceptable, BeforeErrored
<1>3. ASSUME NEW c, "state" \in DOMAIN c
      PROVE  /\ "state" \in DOMAIN [c EXCEPT !.state = "Answering"]
             /\ "state" \in DOMAIN Replaced(c) /\ ~BeforeErrored(Replaced(c))
  BY <1>3 DEF Replaced, BeforeErrored
<1>4. \A i \in DOMAIN conn[e] : "state" \in DOMAIN Scan(i)
  BY <1>3, Zenon DEF Inv, Shape
<1>5. \A i \in DOMAIN conn[e] : BeforeErrored(Scan(i)) => BeforeErrored(conn[e][i])
  BY <1>2, <1>3, Zenon DEF Inv, Shape
<1>6. Failing(conn[e], scanned)
  BY <1>4, <1>5 DEF Failing
<1>7. Sound(scanned)
  BY <1>6, InvSound, FailingIsSound
<1>8. CASE made
  <2>1. \A i \in DOMAIN conn[e] : ~BeforeErrored(Scan(i))
    BY <1>8, <1>3, Zenon DEF Inv, Shape
  <2>2. "state" \in DOMAIN NewConnection("Connecting")
    BY DEF NewConnection
  <2>3. Sound(With(scanned, NextId(e), NewConnection("Connecting")))
    BY <1>4, <2>1, <2>2 DEF Sound, With
  <2> QED BY <1>1, <1>8, <2>3, OneList
<1>9. CASE ~made
  BY <1>1, <1>7, <1>9, OneList
<1> QED BY <1>8, <1>9

\* Asking for the end of connections leaves their states.
LEMMA ScheduleKeeps ==
  ASSUME Inv, NEW e \in End, NEW which, Schedule(e, which)
  PROVE  Inv'
<1> DEFINE f == [i \in DOMAIN conn[e] |-> IF i \in which THEN ShutOutput(conn[e][i]) ELSE conn[e][i]]
<1>1. conn' = [conn EXCEPT ![e] = f]
  BY DEF Schedule
<1>2. ASSUME NEW c, "state" \in DOMAIN c
      PROVE  "state" \in DOMAIN ShutOutput(c) /\ ShutOutput(c).state = c.state
  BY <1>2 DEF ShutOutput
<1>3. Failing(conn[e], f)
  BY <1>2 DEF Failing, BeforeErrored, Inv, Shape
<1>4. Sound(f)
  BY <1>3, InvSound, FailingIsSound
<1> QED BY <1>1, <1>4, OneList

LEMMA WriteKeeps ==
  ASSUME Inv, NEW e \in End, NEW i, Write(e, i)
  PROVE  Inv'
<1>1. i \in DOMAIN conn[e] /\ "state" \in DOMAIN conn[e][i]
  BY DEF Write, Inv, Shape
<1>2. PICK m : Set(e, i, [conn[e][i] EXCEPT !.out = Append(@, m)])
  BY DEF Write
<1> DEFINE c == [conn[e][i] EXCEPT !.out = Append(@, m)]
<1>3. "state" \in DOMAIN c /\ c.state = conn[e][i].state
  BY <1>1
<1> QED BY <1>1, <1>2, <1>3, SetOne DEF BeforeErrored

\* Deleting connections and handing out their input leaves the others' states.
LEMMA PullKeeps ==
  ASSUME Inv, NEW e \in End, Pull(e)
  PROVE  Inv'
<1> DEFINE kept == {i \in DOMAIN conn[e] : ~conn[e][i].destroyed}
           f == [i \in kept |-> IF Dispatches(conn[e][i]) THEN Dispatched(conn[e][i]) ELSE conn[e][i]]
<1>1. conn' = [conn EXCEPT ![e] = f]
  BY DEF Pull
<1>2. ASSUME NEW c, "state" \in DOMAIN c
      PROVE  "state" \in DOMAIN Dispatched(c) /\ Dispatched(c).state = c.state
  BY <1>2 DEF Dispatched
<1>3. Failing(conn[e], f)
  BY <1>2 DEF Failing, BeforeErrored, Inv, Shape
<1>4. Sound(f)
  BY <1>3, InvSound, FailingIsSound
<1> QED BY <1>1, <1>4, OneList

LEMMA ReapKeeps ==
  ASSUME Inv, NEW e \in End, Reap(e)
  PROVE  Inv'
<1> DEFINE f == [i \in {k \in DOMAIN conn[e] : ~conn[e][k].destroyed} |-> conn[e][i]]
<1>1. conn' = [conn EXCEPT ![e] = f]
  BY DEF Reap
<1>2. Failing(conn[e], f)
  BY DEF Failing, Inv, Shape
<1>3. Sound(f)
  BY <1>2, InvSound, FailingIsSound
<1> QED BY <1>1, <1>3, OneList

----------------------------------------------------------------------------
LEMMA InitInv == Init => Inv
BY DEF Init, Inv, Shape, OneLiveConnection

LEMMA InvNext == Inv /\ [Next]_vars => Inv'
<1> SUFFICES ASSUME Inv, [Next]_vars PROVE Inv'
  OBVIOUS
<1>1. CASE UNCHANGED vars
  BY <1>1 DEF vars, Inv, Shape, OneLiveConnection
<1>2. ASSUME NEW e \in End, NEW i \in Slot, Network(e, i) PROVE Inv'
  BY <1>2, SendsKeep
<1>3. ASSUME NEW e \in End, NEW p \in net[e], ReceivePacket(e, p) \/ ReceiveConnect(e, p) PROVE Inv'
  BY <1>3, ReceivePacketKeeps, ReceiveConnectKeeps
<1>4. ASSUME NEW e \in End, Lose(e) PROVE Inv'
  BY <1>4 DEF Lose, Inv, Shape, OneLiveConnection
<1>5. ASSUME NEW e \in End, Game(e) PROVE Inv'
  <2>1. CASE Connect(e)
    BY <2>1, ConnectKeeps
  <2>2. CASE Reject(e)
    BY <2>2, ScheduleKeeps DEF Reject
  <2>3. CASE Destroy(e)
    BY <2>3, ScheduleKeeps DEF Destroy
  <2>4. CASE Pull(e)
    BY <2>4, PullKeeps
  <2>5. ASSUME NEW i \in Slot, ScheduleDestroy(e, i) PROVE Inv'
    BY <2>5, ScheduleKeeps DEF ScheduleDestroy
  <2>6. ASSUME NEW i \in Slot, Write(e, i) PROVE Inv'
    BY <2>6, WriteKeeps
  <2> QED BY <1>5, <2>1, <2>2, <2>3, <2>4, <2>5, <2>6 DEF Game
<1> QED BY <1>1, <1>2, <1>3, <1>4, <1>5, ReapKeeps DEF Next

\* A connector never has two live connections to its peer (Connect,
\* ProcessConnect, and every other handler), in every behaviour of two lobbies
\* and a network that loses, repeats, delays and reorders.
THEOREM OneLiveConnectionAlways == Spec => []OneLiveConnection
<1>1. Inv => OneLiveConnection
  BY DEF Inv
<1> QED BY <1>1, InitInv, InvNext, PTL DEF Spec

LEMMA InitEstablishedInv == InitEstablished => Inv
<1> DEFINE c == [NewConnection("Establishing") EXCEPT !.hs = 1,
                   !.next = FirstSeq, !.remote = FirstSeq, !.expected = FirstSeq]
<1>1. "state" \in DOMAIN c
  BY DEF NewConnection
<1>2. \A e \in End : InitEstablished => conn[e] = <<c>>
  BY DEF InitEstablished
<1>3. DOMAIN <<c>> = {1} /\ <<c>>[1] = c
  OBVIOUS
<1>4. InitEstablished => DOMAIN conn = End
  BY DEF InitEstablished
<1> HIDE DEF c
<1> QED BY <1>1, <1>2, <1>3, <1>4 DEF Inv, Shape, OneLiveConnection

\* The same of a link that is established already.
THEOREM OneLiveConnectionStays == TransferSpec => []OneLiveConnection
<1>1. Inv => OneLiveConnection
  BY DEF Inv
<1> QED BY <1>1, InitEstablishedInv, InvNext, PTL DEF TransferSpec
----------------------------------------------------------------------------
(* Sequence numbers: Num(n) is the number of packet n *)

\* Half of the sequence space: what two numbers may be apart and be told apart.
Half == SeqSpace \div 2
\* The number that stands for the n-th of the link.
Num(n) == (FirstSeq + n) % SeqSpace

LEMMA Space ==
  /\ SeqSpace \in Nat /\ Half \in Nat /\ Window \in Nat /\ MaskBits \in Nat /\ FirstSeq \in Nat
  /\ SeqSpace = 2 * Half /\ Window + 1 < Half /\ FirstSeq < SeqSpace
<1>1. SeqSpace \in Nat /\ SeqSpace % 2 = 0 /\ Window \in Nat /\ MaskBits \in Nat
      /\ Window + 1 < SeqSpace \div 2 /\ FirstSeq \in 0..(SeqSpace - 1)
  BY SeqAssumption
<1>2. SeqSpace = 2 * (SeqSpace \div 2) /\ SeqSpace \div 2 \in Nat
  BY <1>1
<1> QED BY <1>1, <1>2 DEF Half

\* Remainders are unique.
LEMMA Remainder ==
  ASSUME NEW v \in Int, NEW k \in Int, NEW r \in 0..(SeqSpace - 1), v = SeqSpace * k + r
  PROVE  v % SeqSpace = r
<1>1. SeqSpace \in Nat /\ SeqSpace > 0
  BY Space
<1>2. v = SeqSpace * (v \div SeqSpace) + (v % SeqSpace) /\ v \div SeqSpace \in Int
      /\ v % SeqSpace \in 0..(SeqSpace - 1)
  BY <1>1
<1> DEFINE q == v \div SeqSpace
           s == v % SeqSpace
<1>3. SeqSpace * (k - q) = s - r /\ k - q \in Int /\ s - r < SeqSpace /\ s - r > -SeqSpace
      /\ s \in Int
  BY <1>1, <1>2
<1> HIDE DEF q, s
<1>4. CASE k - q <= -1
  BY <1>1, <1>3, <1>4
<1>5. CASE k - q >= 1
  BY <1>1, <1>3, <1>5
<1>6. CASE k - q = 0
  <2>1. s = r
    BY <1>1, <1>3, <1>6
  <2> QED BY <2>1 DEF s
<1> QED BY <1>3, <1>4, <1>5, <1>6

\* A number and what it leaves out.
LEMMA NumIs ==
  ASSUME NEW n \in Int
  PROVE  /\ Num(n) \in 0..(SeqSpace - 1)
         /\ \E k \in Int : FirstSeq + n = SeqSpace * k + Num(n)
<1>1. SeqSpace \in Nat /\ SeqSpace > 0 /\ FirstSeq + n \in Int
  BY Space
<1> DEFINE v == FirstSeq + n
<1>a. v \in Int
  BY <1>1
<1> HIDE DEF v
<1>2. v = SeqSpace * (v \div SeqSpace) + (v % SeqSpace) /\ v \div SeqSpace \in Int
      /\ v % SeqSpace \in 0..(SeqSpace - 1)
  BY <1>1, <1>a
<1> QED BY <1>2 DEF v, Num

\* Sixteen bits tell numbers less than half the space apart.
LEMMA DeltaNum ==
  ASSUME NEW x \in Int, NEW y \in Int, x - y >= -Half, x - y < Half
  PROVE  Delta(Num(x), Num(y)) = x - y
<1>1. SeqSpace \in Nat /\ Half \in Nat /\ SeqSpace = 2 * Half /\ FirstSeq \in Nat
  BY Space
<1>2. PICK i \in Int : FirstSeq + x = SeqSpace * i + Num(x)
  BY NumIs
<1>3. PICK j \in Int : FirstSeq + y = SeqSpace * j + Num(y)
  BY NumIs
<1>4. Num(x) \in Int /\ Num(y) \in Int
  BY NumIs
<1> DEFINE v == Num(x) - Num(y) + SeqSpace + Half
           s == x - y + Half
<1>5. v = SeqSpace * (1 - i + j) + s
  <2>1. SeqSpace * (1 - i + j) = SeqSpace - SeqSpace * i + SeqSpace * j
    BY <1>1
  <2>2. SeqSpace * i \in Int /\ SeqSpace * j \in Int
    BY <1>1
  <2> DEFINE si == SeqSpace * i
             sj == SeqSpace * j
             w == SeqSpace * (1 - i + j)
  <2>3. w = SeqSpace - si + sj /\ si \in Int /\ sj \in Int
        /\ FirstSeq + x = si + Num(x) /\ FirstSeq + y = sj + Num(y)
    BY <1>2, <1>3, <2>1, <2>2
  <2> HIDE DEF si, sj, w
  <2>4. v = w + s
    BY <1>1, <1>4, <2>3
  <2> QED BY <2>4 DEF w
<1>6. v \in Int /\ s \in 0..(SeqSpace - 1) /\ 1 - i + j \in Int
  BY <1>1, <1>2, <1>3, <1>4
<1>7. v % SeqSpace = s
  <2> HIDE DEF v, s
  <2> QED BY <1>5, <1>6, Remainder
<1> QED BY <1>1, <1>7 DEF Delta, Half

\* The other way round: a number d past y's is y + d's.
LEMMA NumPlus ==
  ASSUME NEW x \in Int, NEW n \in Int
  PROVE  (Num(x) + n) % SeqSpace = Num(x + n)
<1>1. SeqSpace \in Nat /\ FirstSeq \in Nat
  BY Space
<1>2. PICK i \in Int : FirstSeq + x = SeqSpace * i + Num(x)
  BY NumIs
<1>3. PICK j \in Int : FirstSeq + (x + n) = SeqSpace * j + Num(x + n)
  BY NumIs
<1>4. Num(x) \in Int /\ Num(x + n) \in 0..(SeqSpace - 1)
  BY NumIs
<1>5. Num(x) + n = SeqSpace * (j - i) + Num(x + n)
  <2>1. SeqSpace * (j - i) = SeqSpace * j - SeqSpace * i
    BY <1>1, <1>2, <1>3
  <2> QED BY <1>1, <1>2, <1>3, <1>4, <2>1
<1> QED BY <1>4, <1>5, Remainder

\* The numbers of two packets made one after the other.
LEMMA FollowingNum ==
  ASSUME NEW n \in Int
  PROVE  Following(Num(n)) = Num(n + 1)
BY NumPlus DEF Following

\* The k-th number before.
LEMMA NumMinus ==
  ASSUME NEW x \in Int, NEW k \in Int
  PROVE  (Num(x) - k + SeqSpace) % SeqSpace = Num(x - k)
<1>1. SeqSpace \in Nat /\ Num(x) \in Int
  BY Space, NumIs
<1>2. (Num(x) + (SeqSpace - k)) % SeqSpace = Num(x + (SeqSpace - k))
  BY <1>1, NumPlus
<1>3. Num(x + (SeqSpace - k)) = Num(x - k)
  <2>1. PICK j \in Int : FirstSeq + (x - k) = SeqSpace * j + Num(x - k)
    BY NumIs
  <2>2. Num(x - k) \in 0..(SeqSpace - 1)
    BY NumIs
  <2>3. FirstSeq + (x + (SeqSpace - k)) = SeqSpace * (j + 1) + Num(x - k)
    <3>1. SeqSpace * (j + 1) = SeqSpace * j + SeqSpace
      BY <1>1, <2>1
    <3> DEFINE w == SeqSpace * j
               w2 == SeqSpace * (j + 1)
    <3>2. w2 = w + SeqSpace /\ w \in Int /\ FirstSeq + (x - k) = w + Num(x - k)
      BY <1>1, <2>1, <3>1
    <3> HIDE DEF w, w2
    <3>3. FirstSeq + (x + (SeqSpace - k)) = w2 + Num(x - k)
      BY <1>1, <2>2, <3>2, Space
    <3> QED BY <3>3 DEF w2
  <2>4. FirstSeq + (x + (SeqSpace - k)) \in Int
    BY <1>1, Space
  <2>5. (FirstSeq + (x + (SeqSpace - k))) % SeqSpace = Num(x - k)
    BY <2>1, <2>2, <2>3, <2>4, Remainder
  <2> QED BY <2>5 DEF Num
<1>4. Num(x) - k + SeqSpace = Num(x) + (SeqSpace - k)
  BY <1>1
<1> QED BY <1>2, <1>3, <1>4

\* A number y comes before x, by less than half the space.
LEMMA NumBefore ==
  ASSUME NEW x \in Int, NEW s \in 0..(SeqSpace - 1), Delta(Num(x), s) >= 0
  PROVE  \E m \in Int : s = Num(m) /\ m <= x /\ x - m < Half
<1>1. SeqSpace \in Nat /\ Half \in Nat /\ SeqSpace = 2 * Half /\ SeqSpace > 0 /\ FirstSeq \in Nat
  BY Space
<1>2. Num(x) \in 0..(SeqSpace - 1)
  BY NumIs
<1> DEFINE v == Num(x) - s + SeqSpace + Half
           t == v % SeqSpace
           m == x - (t - Half)
<1>3. v \in Int
  BY <1>1, <1>2
<1>4. t \in 0..(SeqSpace - 1) /\ v = SeqSpace * (v \div SeqSpace) + t /\ v \div SeqSpace \in Int
  <2> HIDE DEF v
  <2> QED BY <1>1, <1>3
<1>5. t - Half >= 0
  BY DEF Delta, Half
<1>6. m \in Int /\ m <= x /\ x - m < Half
  <2> HIDE DEF v, t
  <2> QED BY <1>1, <1>4, <1>5
<1>7. PICK i \in Int : FirstSeq + x = SeqSpace * i + Num(x)
  BY NumIs
<1> DEFINE q == v \div SeqSpace
<1>8. FirstSeq + m = SeqSpace * (i + q - 1) + s
  <2>1. v = SeqSpace * q + t /\ q \in Int /\ t \in Int
    BY <1>4
  <2>2. v = Num(x) - s + SeqSpace + Half /\ m = x - (t - Half)
    OBVIOUS
  <2> HIDE DEF v, t, q, m
  <2>3. SeqSpace * (i + q - 1) = SeqSpace * i + SeqSpace * q - SeqSpace
    BY <1>1, <1>7, <2>1
  <2> QED BY <1>1, <1>2, <1>7, <2>1, <2>2, <2>3
<1>9. q \in Int
  BY <1>4
<1> HIDE DEF m, q, v, t
<1>10. (FirstSeq + m) % SeqSpace = s
  <2>1. FirstSeq + m \in Int /\ i + q - 1 \in Int
    BY <1>1, <1>6, <1>9
  <2> QED BY <1>8, <2>1, Remainder
<1> QED BY <1>6, <1>10 DEF Num

----------------------------------------------------------------------------
(* Types *)

\* What a field, a packet, a connection and a log may hold.
SeqNum == 0..(SeqSpace - 1)
Message == Nat \X Nat
Content == Message \union {Eof}

\* The packets, by their kinds.
IsData(p) ==
  /\ p.kind = "Data" /\ p.seq \in SeqNum /\ p.expected \in SeqNum /\ p.item \in Content
  /\ p.nth \in Int /\ p.had \in Int
IsAck(p) == p.kind \in {"Ack", "KeepAlive"} /\ p.expected \in SeqNum /\ p.had \in Int
IsHandshake(p) == p.kind \in {"Connect", "Answer"} /\ p.time \in Nat
IsPacket(p) == IsData(p) \/ IsAck(p) \/ IsHandshake(p) \/ p = GoodbyePacket

\* A connection: its fields and, unless it failed, nothing early past the end.
ConnFields == {"state", "hs", "owes", "next", "remote", "expected", "unacked", "early", "out",
               "shut", "sentShutdown", "input", "eof", "dispatchedEof", "destroy", "destroyed"}
Shaped(c) ==
  /\ DOMAIN c = ConnFields
  /\ c.state \in {"Pending", "Connecting", "Answering", "Establishing", "TimedOut", "Errored"}
  /\ c.hs \in Nat /\ c.owes \in BOOLEAN
  /\ c.next \in SeqNum /\ c.remote \in SeqNum /\ c.expected \in SeqNum
  /\ \A p \in c.unacked : IsData(p)
  /\ \A p \in c.early : IsData(p)
  /\ c.out \in Seq(Message) /\ c.input \in Seq(Content)
  /\ c.shut \in BOOLEAN /\ c.sentShutdown \in BOOLEAN /\ c.eof \in BOOLEAN
  /\ c.dispatchedEof \in BOOLEAN /\ c.destroy \in BOOLEAN /\ c.destroyed \in BOOLEAN
  /\ Len(c.input) <= InputCap + 1
  /\ ~c.eof => Len(c.input) <= InputCap
IsConn(c) == Shaped(c) /\ (BeforeErrored(c) /\ c.eof => c.early = {})

LogRecord == [wrote : Seq(Message), shut : BOOLEAN, handed : Seq(Content),
              notice : {"None", "Eof", "Errored"}]

\* The typing invariant: TypeOK, and what its steps need.
ConnTyped ==
  /\ DOMAIN conn = End
  /\ \A e \in End : \A i \in DOMAIN conn[e] : IsConn(conn[e][i]) /\ i \in DOMAIN log[e]
LogTyped == log \in [End -> Seq(LogRecord)]
NetTyped == DOMAIN net = End /\ \A e \in End : \A p \in net[e] : IsPacket(p)
ClockTyped == DOMAIN clock = End /\ \A e \in End : clock[e] \in 0..MaxTime[e]
Typed == ConnTyped /\ LogTyped /\ NetTyped /\ ClockTyped

\* A connection starts from a number of the space.
LEMMA Zero == 0 \in SeqNum
BY Space DEF SeqNum

\* Connections as they are changed.
LEMMA NewIsConn ==
  ASSUME NEW s \in {"Pending", "Connecting", "Establishing"}
  PROVE  IsConn(NewConnection(s))
BY Zero, BoundAssumption DEF NewConnection, IsConn, Shaped, ConnFields, BeforeErrored

\* What the small steps of a connection make of it is a connection.
LEMMA SentIsConn ==
  ASSUME NEW c, IsConn(c)
  PROVE  IsConn([c EXCEPT !.owes = FALSE])
BY DEF IsConn, Shaped, ConnFields, BeforeErrored

LEMMA StateIsConn ==
  ASSUME NEW c, IsConn(c), BeforeErrored(c),
         NEW s \in {"Pending", "Connecting", "Answering", "Establishing", "TimedOut", "Errored"}
  PROVE  IsConn([c EXCEPT !.state = s])
BY DEF IsConn, Shaped, ConnFields, BeforeErrored

LEMMA OpenedIsConn ==
  ASSUME NEW c, IsConn(c)
  PROVE  IsConn(Opened(c))
BY DEF Opened, Hears, IsConn, Shaped, ConnFields, BeforeErrored

LEMMA AdoptIsConn ==
  ASSUME NEW c, IsConn(c)
  PROVE  IsConn(Adopt(c))
BY DEF Adopt, IsConn, Shaped, ConnFields, BeforeErrored

LEMMA CloseIsConn ==
  ASSUME NEW c, IsConn(c)
  PROVE  IsConn(CloseInput(c))
BY DEF CloseInput, IsConn, Shaped, ConnFields, BeforeErrored

LEMMA TakeAckIsConn ==
  ASSUME NEW c, IsConn(c), NEW p, p.expected \in SeqNum
  PROVE  IsConn(TakeAck(c, p))
<1> DEFINE o == Opened(c)
           u == {q \in o.unacked : ~Acked(p, q)}
           r == IF Delta(p.expected, o.remote) > 0 THEN p.expected ELSE o.remote
<1>1. IsConn(o)
  BY OpenedIsConn
<1>2. TakeAck(c, p) = [o EXCEPT !.unacked = u, !.remote = r]
  BY DEF TakeAck
<1>3. r \in SeqNum /\ \A q \in u : IsData(q)
  BY <1>1 DEF IsConn, Shaped
<1> HIDE DEF o, u, r
<1>4. IsConn([o EXCEPT !.unacked = u, !.remote = r])
  BY <1>1, <1>3 DEF IsConn, Shaped, ConnFields, BeforeErrored
<1> QED BY <1>2, <1>4

\* A set of numbers that is not empty has a least one.
LEMMA LeastNumber ==
  ASSUME NEW T \in SUBSET Nat, T # {}
  PROVE  \E n \in T : \A m \in T : n <= m
<1> DEFINE R == OpToRel(<, Nat)
<1>1. IsWellFoundedOn(R, Nat)
  BY NatLessThanWellFounded
<1>2. \A x, y \in Nat : x < y <=> <<x, y>> \in R
  BY DEF OpToRel
<1> HIDE DEF R
<1>3. PICK n \in T : \A m \in T : ~(<<m, n>> \in R)
  BY <1>1, WFMin
<1>4. ASSUME NEW m \in T PROVE n <= m
  <2>1. n \in Nat /\ m \in Nat /\ ~(m < n)
    BY <1>2, <1>3
  <2> QED BY <2>1
<1> QED BY <1>4

\* Delta is the signed 16-bit difference.
LEMMA DeltaRange ==
  ASSUME NEW x \in SeqNum, NEW y \in SeqNum
  PROVE  Delta(x, y) \in Int /\ -Half <= Delta(x, y) /\ Delta(x, y) < Half
<1> DEFINE v == x - y + SeqSpace + Half
<1>1. SeqSpace \in Nat /\ SeqSpace > 0 /\ Half \in Nat /\ SeqSpace = 2 * Half /\ v \in Int
  BY Space DEF SeqNum
<1>2. Delta(x, y) = (v % SeqSpace) - Half
  BY DEF Delta, Half
<1> HIDE DEF v
<1>3. v % SeqSpace \in 0..(SeqSpace - 1)
  BY <1>1
<1> QED BY <1>1, <1>2, <1>3

\* The drain consumes what it can, and no more.
LEMMA ConsumedIs ==
  ASSUME NEW c, Shaped(c)
  PROVE  /\ Consumed(c) \in Nat
         /\ Consumable(c, Consumed(c)) /\ ~Consumable(c, Consumed(c) + 1)
<1> DEFINE T == {n \in Nat : ~Consumable(c, n + 1)}
<1>1. Half \in Nat /\ Half = SeqSpace \div 2
  BY Space DEF Half
<1>2. InPlace(c, Half) = {}
  <2> SUFFICES ASSUME NEW q \in c.early, Delta(q.seq, c.expected) = Half PROVE FALSE
    BY DEF InPlace
  <2>1. q.seq \in SeqNum /\ c.expected \in SeqNum
    BY DEF Shaped, IsData
  <2> QED BY <1>1, <2>1, DeltaRange
<1>3. Half \in T
  <2>1. Half \in 0..(Half + 1 - 1)
    BY <1>1
  <2> QED BY <1>1, <1>2, <2>1 DEF Consumable
<1>4. PICK n \in T : \A m \in T : n <= m
  BY <1>3, LeastNumber
<1>5. n \in 0..Half
  BY <1>1, <1>3, <1>4
<1>6. Consumable(c, n)
  <2>1. CASE n = 0
    BY <2>1 DEF Consumable
  <2>2. CASE n > 0
    <3>1. n - 1 \in Nat /\ (n - 1) + 1 = n /\ ~(n <= n - 1)
      BY <2>2
    <3>2. n - 1 \notin T
      BY <1>4, <3>1
    <3> QED BY <3>1, <3>2
  <2> QED BY <2>1, <2>2
<1>7. \E m \in 0..(SeqSpace \div 2) : Consumable(c, m) /\ ~Consumable(c, m + 1)
  BY <1>1, <1>4, <1>5, <1>6
<1>8. Consumed(c) \in 0..(SeqSpace \div 2) /\ Consumable(c, Consumed(c)) /\ ~Consumable(c, Consumed(c) + 1)
  BY <1>7 DEF Consumed
<1> QED BY <1>1, <1>8

\* The parts of Drain.
Ends(c, n) == n > 0 /\ Item(c, n - 1) = Eof
\* Drain taken apart: how the consumed packets end, and what is left of the early ones.
Overflows(c, n) == n > 0 /\ ~Ends(c, n) /\ Len(c.input) + n > InputCap
Taken(c, n) == IF Ends(c, n) THEN n - 1 ELSE n
More(c, n) == [d \in 1..Taken(c, n) |-> Item(c, d - 1)]
Rest(c, n) == IF c.eof \/ Ends(c, n) \/ Overflows(c, n) THEN {}
              ELSE {q \in c.early : Delta(q.seq, c.expected) >= n}

\* The fields of a connection that was drained.
LEMMA DrainIs ==
  ASSUME NEW c, Shaped(c)
  PROVE  LET n == Consumed(c) IN
         /\ DOMAIN Drain(c) = ConnFields
         /\ Drain(c).expected = (c.expected + n) % SeqSpace
         /\ Drain(c).input = c.input \o More(c, n)
         /\ Drain(c).eof = (c.eof \/ Ends(c, n) \/ Overflows(c, n))
         /\ Drain(c).state = (IF Overflows(c, n) THEN "Errored" ELSE c.state)
         /\ Drain(c).early = Rest(c, n)
         /\ \A f \in ConnFields \ {"expected", "input", "eof", "state", "early"} : Drain(c)[f] = c[f]
<1> DEFINE n == Consumed(c)
<1>1. DOMAIN c = ConnFields
  BY DEF Shaped
<1>2. Drain(c) = [c EXCEPT !.expected = (@ + n) % SeqSpace, !.input = @ \o More(c, n),
                !.eof = @ \/ Ends(c, n) \/ Overflows(c, n),
                !.state = IF Overflows(c, n) THEN "Errored" ELSE @,
                !.early = Rest(c, n)]
  BY DEF Drain, More, Taken, Rest, Overflows, Ends
<1> HIDE DEF n
<1>3. n = Consumed(c)
  BY DEF n
<1> QED BY <1>1, <1>2, <1>3 DEF ConnFields

\* The items consumed in order are there, and none but the last ends the input.
LEMMA ItemIs ==
  ASSUME NEW c, NEW n \in Nat, Consumable(c, n), NEW k \in 0..(n - 1)
  PROVE  /\ InPlace(c, k) # {}
         /\ \E q \in InPlace(c, k) : Item(c, k) = q.item
         /\ ~c.eof
         /\ k > 0 => Item(c, k - 1) # Eof /\ ~(Len(c.input) + k > InputCap)
BY DEF Consumable, EndsBy, Item

\* ConsumePacketHeaderData leaves a connection.
LEMMA DrainIsConn ==
  ASSUME NEW c, Shaped(c)
  PROVE  IsConn(Drain(c))
<1> DEFINE n == Consumed(c)
<1>1. n \in Nat /\ Consumable(c, n) /\ InputCap \in Nat
  BY ConsumedIs, BoundAssumption
<1>2. \A d \in 1..Taken(c, n) : Item(c, d - 1) \in Content
  <2> TAKE d \in 1..Taken(c, n)
  <2>1. d - 1 \in 0..(n - 1)
    BY <1>1 DEF Taken
  <2>2. PICK q \in InPlace(c, d - 1) : Item(c, d - 1) = q.item
    BY <1>1, <2>1, ItemIs
  <2> QED BY <2>2 DEF InPlace, Shaped, IsData
<1>3. Taken(c, n) \in Nat
  BY <1>1 DEF Taken, Ends
<1>4. More(c, n) \in Seq(Content) /\ Len(More(c, n)) = Taken(c, n)
  BY <1>2, <1>3 DEF More
<1>5. c.input \in Seq(Content) /\ Len(c.input) \in Nat
  BY DEF Shaped
<1>6. c.input \o More(c, n) \in Seq(Content) /\ Len(c.input \o More(c, n)) = Len(c.input) + Taken(c, n)
  BY <1>4, <1>5
<1>7. /\ Len(c.input) + Taken(c, n) <= InputCap + 1
      /\ ~(c.eof \/ Ends(c, n) \/ Overflows(c, n)) => Len(c.input) + Taken(c, n) <= InputCap
  <2>1. CASE n = 0
    BY <2>1, <1>1, <1>5 DEF Taken, Ends, Shaped
  <2>2. CASE n > 0
    <3>1. n - 1 \in 0..(n - 1)
      BY <1>1, <2>2
    <3>2. ~c.eof
      BY <1>1, <3>1, ItemIs
    <3>3. Len(c.input) <= InputCap
      BY <3>2 DEF Shaped
    <3>4. n - 1 > 0 => Len(c.input) + (n - 1) <= InputCap
      BY <1>1, <1>5, <3>1, ItemIs
    <3> QED BY <1>1, <1>5, <2>2, <3>3, <3>4 DEF Taken, Overflows
  <2> QED BY <1>1, <2>1, <2>2
<1>8. (c.expected + n) % SeqSpace \in SeqNum
  BY <1>1, Space DEF Shaped, SeqNum
<1>9. \A q \in Rest(c, n) : IsData(q)
  BY DEF Rest, Shaped
<1>10. (c.eof \/ Ends(c, n) \/ Overflows(c, n)) \in BOOLEAN
  OBVIOUS
<1>11. (c.eof \/ Ends(c, n) \/ Overflows(c, n)) => Rest(c, n) = {}
  BY DEF Rest
<1> DEFINE d == Drain(c)
<1>12. /\ DOMAIN d = ConnFields
       /\ d.expected = (c.expected + n) % SeqSpace
       /\ d.input = c.input \o More(c, n)
       /\ d.eof = (c.eof \/ Ends(c, n) \/ Overflows(c, n))
       /\ d.state = (IF Overflows(c, n) THEN "Errored" ELSE c.state)
       /\ d.early = Rest(c, n)
  BY DrainIs
<1>13. \A f \in ConnFields \ {"expected", "input", "eof", "state", "early"} : d[f] = c[f]
  BY DrainIs
<1>14. /\ d.hs = c.hs /\ d.owes = c.owes /\ d.next = c.next /\ d.remote = c.remote
       /\ d.unacked = c.unacked /\ d.out = c.out /\ d.shut = c.shut /\ d.sentShutdown = c.sentShutdown
       /\ d.dispatchedEof = c.dispatchedEof /\ d.destroy = c.destroy /\ d.destroyed = c.destroyed
  BY <1>13 DEF ConnFields
<1> HIDE DEF n, d
<1>15. Shaped(d)
  <2>1. d.state \in {"Pending", "Connecting", "Answering", "Establishing", "TimedOut", "Errored"}
    BY <1>12 DEF Shaped
  <2>2. d.eof \in BOOLEAN
    BY <1>10, <1>12
  <2>3. Len(d.input) <= InputCap + 1 /\ (~d.eof => Len(d.input) <= InputCap)
    BY <1>6, <1>7, <1>12
  <2> QED BY <1>6, <1>8, <1>9, <1>12, <1>14, <2>1, <2>2, <2>3 DEF Shaped
<1>16. d.eof => d.early = {}
  BY <1>11, <1>12
<1> QED BY <1>15, <1>16 DEF IsConn, d

\* And so does every packet that is processed.
LEMMA ProcessedIsConn ==
  ASSUME NEW c, IsConn(c), NEW p, IsPacket(p)
  PROVE  IsConn(Processed(c, p))
<1>1. CASE IsData(p)
  <2>1. Processed(c, p) = ProcessData(c, p)
    BY <1>1 DEF IsData, Processed
  <2> DEFINE d == Adopt(TakeAck(c, p))
  <2>2. IsConn(d) /\ IsConn(Opened(c))
    BY <1>1, TakeAckIsConn, AdoptIsConn, OpenedIsConn DEF IsData
  <2> HIDE DEF d
  <2>3. Shaped([d EXCEPT !.early = @ \union {p}])
    BY <1>1, <2>2 DEF IsConn, Shaped, ConnFields
  <2>4. IsConn(Drain([d EXCEPT !.early = @ \union {p}]))
    BY <2>3, DrainIsConn
  <2> QED BY <2>1, <2>2, <2>4 DEF ProcessData, d
<1>2. CASE IsAck(p)
  <2>1. Processed(c, p) \in {ProcessAck(c, p), ProcessKeepAlive(c, p)}
    BY <1>2 DEF IsAck, Processed
  <2> QED BY <1>2, <2>1, TakeAckIsConn, AdoptIsConn, OpenedIsConn DEF IsAck, ProcessAck, ProcessKeepAlive
<1>3. CASE IsHandshake(p)
  <2>1. Processed(c, p) \in {ProcessAnswer(c, p), c}
    BY <1>3 DEF IsHandshake, Processed
  <2>2. c.state \in {"Connecting", "Answering"} =>
          IsConn([c EXCEPT !.hs = p.time, !.state = "Establishing"])
    BY <1>3 DEF IsHandshake, IsConn, Shaped, ConnFields, BeforeErrored
  <2> QED BY <2>1, <2>2, AdoptIsConn DEF ProcessAnswer
<1>4. CASE p = GoodbyePacket
  <2>1. Processed(c, p) = ProcessGoodbye(c, p) /\ p.expected \in SeqNum
    BY <1>4, Zero DEF GoodbyePacket, Processed
  <2> QED BY <2>1, TakeAckIsConn, CloseIsConn, OpenedIsConn DEF ProcessGoodbye
<1> QED BY <1>1, <1>2, <1>3, <1>4 DEF IsPacket

\* There are two ends, and each is the peer of the other.
LEMMA Peers == /\ a \in End /\ b \in End /\ Peer(a) = b /\ Peer(b) = a
               /\ \A e \in End : e = a \/ e = b
<1>1. End = {a, b} /\ a # b
  BY EndsAssumption
<1>2. Peer(a) = b
  BY <1>1 DEF Peer
<1>3. Peer(b) = a
  BY <1>1 DEF Peer
<1> QED BY <1>1, <1>2, <1>3

LEMMA PeerOf == ASSUME NEW e \in End PROVE Peer(e) \in End /\ Peer(Peer(e)) = e /\ Peer(e) # e
BY Peers, EndsAssumption

\* What a step may leave of the variables one connector's handler changes.
LEMMA TypedList ==
  ASSUME ConnTyped, NEW e \in End, NEW f, conn' = [conn EXCEPT ![e] = f],
         \A i \in DOMAIN f : IsConn(f[i]) /\ i \in DOMAIN log'[e],
         \A x \in End : DOMAIN log[x] \subseteq DOMAIN log'[x]
  PROVE  ConnTyped'
BY DEF ConnTyped

\* One connection is changed.
LEMMA TypedSet ==
  ASSUME ConnTyped, NEW e \in End, NEW i \in DOMAIN conn[e], NEW c, Set(e, i, c), IsConn(c),
         \A x \in End : DOMAIN log[x] \subseteq DOMAIN log'[x]
  PROVE  ConnTyped'
<1>1. conn' = [conn EXCEPT ![e] = [conn[e] EXCEPT ![i] = c]]
  BY DEF Set
<1>2. \A k \in DOMAIN [conn[e] EXCEPT ![i] = c] :
         IsConn([conn[e] EXCEPT ![i] = c][k]) /\ k \in DOMAIN log'[e]
  BY DEF ConnTyped
<1> QED BY <1>1, <1>2, TypedList

\* A packet sent takes its place in the network, and perhaps another's.
LEMMA CarriedIs ==
  ASSUME NEW e \in End, NEW p, NEW n \in Carried(e, p)
  PROVE  n \subseteq net[e] \union {p} /\ p \in n
BY DEF Carried

\* A packet is sent for one connection.
LEMMA TypedSend ==
  ASSUME Typed, NEW e \in End, NEW i \in DOMAIN conn[e], NEW c, IsConn(c), NEW p, IsPacket(p),
         SendPacket(e, i, c, p), UNCHANGED log
  PROVE  ConnTyped' /\ NetTyped'
<1>1. ConnTyped'
  BY SentIsConn, TypedSet DEF SendPacket, Typed
<1>2. NetTyped'
  <2>1. PICK n \in Carried(Peer(e), p) : net' = [net EXCEPT ![Peer(e)] = n]
    BY DEF SendPacket
  <2>2. n \subseteq net[Peer(e)] \union {p}
    BY <2>1, CarriedIs, PeerOf
  <2>3. DOMAIN net = End /\ \A x \in End : \A q \in net[x] : IsPacket(q)
    BY DEF Typed, NetTyped
  <2>4. \A q \in n : IsPacket(q)
    BY <2>2, <2>3, PeerOf
  <2> HIDE DEF IsPacket
  <2> QED BY <2>1, <2>3, <2>4 DEF NetTyped
<1> QED BY <1>1, <1>2

\* Every connection has a log.
LEMMA LogOf ==
  ASSUME Typed, NEW e \in End
  PROVE  /\ log[e] \in Seq(LogRecord) /\ Len(log[e]) \in Nat /\ DOMAIN log[e] = 1..Len(log[e])
         /\ \A i \in DOMAIN conn[e] : i \in DOMAIN log[e] /\ IsConn(conn[e][i]) /\ log[e][i] \in LogRecord
BY DEF Typed, LogTyped, ConnTyped

\* The counts of packets are numbers.
LEMMA CountsAreInts ==
  ASSUME NEW c, IsConn(c), NEW l \in LogRecord
  PROVE  /\ Len(l.wrote) \in Nat /\ Len(l.handed) \in Nat /\ Len(c.out) \in Nat /\ Len(c.input) \in Nat
         /\ Sent(c, l) \in Int /\ Got(c, l) \in Nat
<1>1. Len(l.wrote) \in Nat /\ Len(l.handed) \in Nat
  BY DEF LogRecord
<1>2. Len(c.out) \in Nat /\ Len(c.input) \in Nat
  BY DEF IsConn, Shaped
<1>3. (IF c.sentShutdown THEN 1 ELSE 0) \in {0, 1} /\ (IF c.eof THEN 1 ELSE 0) \in {0, 1}
  OBVIOUS
<1> DEFINE s == IF c.sentShutdown THEN 1 ELSE 0
           t == IF c.eof THEN 1 ELSE 0
<1>4. Sent(c, l) = Len(l.wrote) - Len(c.out) + s /\ Got(c, l) = Len(l.handed) + Len(c.input) + t
  BY DEF Sent, Got
<1>5. s \in Nat /\ t \in Nat
  BY <1>3
<1> HIDE DEF s, t
<1>6. Sent(c, l) \in Int
  BY <1>1, <1>2, <1>4, <1>5
<1>7. Got(c, l) \in Nat
  <2> DEFINE x == Len(l.handed)
             y == Len(c.input)
  <2>1. x \in Nat /\ y \in Nat /\ Got(c, l) = x + y + t
    BY <1>1, <1>2, <1>4
  <2> HIDE DEF x, y
  <2> QED BY <1>5, <2>1
<1> QED BY <1>1, <1>2, <1>6, <1>7

\* The packets a connection makes are packets.
LEMMA HeaderTyped ==
  ASSUME NEW c, IsConn(c), NEW l \in LogRecord
  PROVE  /\ \A item \in Content : IsData(DataPacket(c, l, item))
         /\ \A kind \in {"Ack", "KeepAlive"} : IsAck(AckPacket(c, l, kind))
<1>1. Sent(c, l) \in Int /\ Got(c, l) \in Int
  BY CountsAreInts
<1>2. c.next \in SeqNum /\ c.expected \in SeqNum
  BY DEF IsConn, Shaped
<1> QED BY <1>1, <1>2 DEF DataPacket, AckPacket, IsData, IsAck

\* What SendData makes of a connection, and the packet.
Packet(c, l) == DataPacket(c, l, IF c.out = <<>> THEN Eof ELSE Head(c.out))
\* The connection once it has made p.
Made(c, p) == [c EXCEPT !.next = Following(@), !.unacked = @ \union {p},
                        !.out = IF c.out = <<>> THEN @ ELSE Tail(@),
                        !.sentShutdown = @ \/ c.out = <<>>]

LEMMA MadeIsConn ==
  ASSUME NEW c, IsConn(c), NEW l \in LogRecord
  PROVE  IsData(Packet(c, l)) /\ IsConn(Made(c, Packet(c, l)))
<1> DEFINE p == Packet(c, l)
<1>1. c.out \in Seq(Message)
  BY DEF IsConn, Shaped
<1>2. (IF c.out = <<>> THEN Eof ELSE Head(c.out)) \in Content
  BY <1>1 DEF Content
<1>3. IsData(p)
  BY <1>2, HeaderTyped DEF Packet
<1>4. (IF c.out = <<>> THEN c.out ELSE Tail(c.out)) \in Seq(Message) /\ Following(c.next) \in SeqNum
  <2>1. Following(c.next) \in SeqNum
    BY Space DEF Following, IsConn, Shaped, SeqNum
  <2> QED BY <1>1, <2>1
<1> HIDE DEF p
<1>5. (c.sentShutdown \/ c.out = <<>>) \in BOOLEAN
  OBVIOUS
<1>6. IsConn(Made(c, p))
  BY <1>3, <1>4, <1>5 DEF Made, IsConn, Shaped, ConnFields, BeforeErrored
<1> QED BY <1>3, <1>6 DEF p

\* The steps of the connector that sends keep the types.
LEMMA NetworkTyped ==
  ASSUME Typed, NEW e \in End, NEW i \in Slot, Network(e, i)
  PROVE  Typed'
<1> DEFINE c == conn[e][i]
           l == log[e][i]
<1>1. /\ i \in DOMAIN conn[e] /\ UNCHANGED log
      /\ \A x \in End : DOMAIN log[x] \subseteq DOMAIN log'[x]
  <2>1. i \in DOMAIN conn[e] /\ UNCHANGED log
    BY DEF Network, SendConnect, SendAnswer, SendHandshake, DestroyAtOnce, TimeOut, Resend, SendData,
           SendGoodbye, SendKeepAlive, SendAck, Sending, Established
  <2> QED BY <2>1
<1>2. IsConn(c) /\ l \in LogRecord /\ LogTyped' /\ ConnTyped /\ NetTyped /\ ClockTyped
  BY <1>1, LogOf DEF Typed, LogTyped
<1> DEFINE Sends(d, p) == IsConn(d) /\ IsPacket(p) /\ SendPacket(e, i, d, p)
<1>3. ASSUME NEW d, NEW p, Sends(d, p), ClockTyped' PROVE Typed'
  BY <1>1, <1>2, <1>3, TypedSend DEF Typed
<1>4. ASSUME NEW d, IsConn(d), Set(e, i, d), UNCHANGED <<net, clock>> PROVE Typed'
  <2>1. ConnTyped'
    BY <1>1, <1>2, <1>4, TypedSet
  <2>2. NetTyped' /\ ClockTyped'
    BY <1>2, <1>4 DEF NetTyped, ClockTyped
  <2> QED BY <1>2, <2>1, <2>2 DEF Typed
<1>5. UNCHANGED clock => ClockTyped'
  BY <1>2 DEF ClockTyped
<1>6. ASSUME clock[e] < MaxTime[e], clock' = [clock EXCEPT ![e] = @ + 1] PROVE ClockTyped'
  BY <1>2, <1>6, BoundAssumption DEF ClockTyped
<1>7. clock[e] + 1 \in Nat
  BY <1>2 DEF ClockTyped
<1> HIDE DEF c, l
<1>8. CASE SendConnect(e, i)
  <2>1. IsPacket(ConnectPacket(clock[e] + 1))
    BY <1>7 DEF ConnectPacket, IsPacket, IsHandshake
  <2> QED BY <1>2, <1>3, <1>6, <1>8, <2>1 DEF SendConnect, SendHandshake, c
<1>9. CASE SendAnswer(e, i)
  <2>1. IsPacket(AnswerPacket(clock[e] + 1))
    BY <1>7 DEF AnswerPacket, IsPacket, IsHandshake
  <2> QED BY <1>2, <1>3, <1>6, <1>9, <2>1 DEF SendAnswer, SendHandshake, c
<1>10. CASE DestroyAtOnce(e, i)
  <2>1. IsConn([c EXCEPT !.destroyed = TRUE])
    BY <1>2 DEF IsConn, Shaped, ConnFields, BeforeErrored
  <2> QED BY <1>4, <1>10, <2>1 DEF DestroyAtOnce, c
<1>11. CASE TimeOut(e, i)
  <2>1. c.state = "Establishing"
    BY <1>11 DEF TimeOut, Established, c
  <2>2. IsConn([c EXCEPT !.state = "TimedOut", !.destroyed = c.destroy])
    BY <1>2, <2>1 DEF IsConn, Shaped, ConnFields, BeforeErrored
  <2> QED BY <1>4, <1>11, <2>2 DEF TimeOut, c
<1>12. CASE Resend(e, i)
  <2>1. PICK p \in c.unacked : SendPacket(e, i, c, p)
    BY <1>12 DEF Resend, c
  <2>2. IsPacket(p)
    BY <1>2 DEF IsConn, Shaped, IsPacket
  <2> QED BY <1>2, <1>3, <1>5, <1>12, <2>1, <2>2 DEF Resend
<1>13. CASE SendData(e, i)
  <2>1. SendPacket(e, i, Made(c, Packet(c, l)), Packet(c, l)) /\ UNCHANGED clock
    BY <1>13 DEF SendData, Made, Packet, c, l
  <2> QED BY <1>2, <1>3, <1>5, <2>1, MadeIsConn DEF IsPacket
<1>14. CASE SendGoodbye(e, i)
  <2>1. IsConn([c EXCEPT !.destroyed = TRUE])
    BY <1>2 DEF IsConn, Shaped, ConnFields, BeforeErrored
  <2> QED BY <1>3, <1>5, <1>14, <2>1 DEF SendGoodbye, IsPacket, c
<1>15. CASE SendKeepAlive(e, i)
  BY <1>2, <1>3, <1>5, <1>15, HeaderTyped DEF SendKeepAlive, IsPacket, c, l
<1>16. CASE SendAck(e, i)
  BY <1>2, <1>3, <1>5, <1>16, HeaderTyped DEF SendAck, IsPacket, c, l
<1> QED BY <1>8, <1>9, <1>10, <1>11, <1>12, <1>13, <1>14, <1>15, <1>16 DEF Network

\* The logs of a step.
LEMMA AppendLog ==
  ASSUME LogTyped, NEW e \in End, log' = [log EXCEPT ![e] = Append(@, NewLog)]
  PROVE  /\ LogTyped' /\ DOMAIN log'[e] = 1..(Len(log[e]) + 1)
         /\ \A x \in End : DOMAIN log[x] \subseteq DOMAIN log'[x]
<1>1. NewLog \in LogRecord
  BY DEF NewLog, LogRecord
<1>2. log \in [End -> Seq(LogRecord)]
  BY DEF LogTyped
<1>3. Append(log[e], NewLog) \in Seq(LogRecord) /\ DOMAIN Append(log[e], NewLog) = 1..(Len(log[e]) + 1)
      /\ DOMAIN log[e] = 1..Len(log[e]) /\ Len(log[e]) \in Nat
  BY <1>1, <1>2
<1> QED BY <1>2, <1>3 DEF LogTyped

\* The logs of an end are written to where they are.
LEMMA MapLog ==
  ASSUME LogTyped, NEW e \in End, NEW f, log' = [log EXCEPT ![e] = f],
         DOMAIN f = DOMAIN log[e], f = [k \in DOMAIN f |-> f[k]],
         \A k \in DOMAIN log[e] : f[k] \in LogRecord
  PROVE  /\ LogTyped' /\ DOMAIN log'[e] = DOMAIN log[e]
         /\ \A x \in End : DOMAIN log[x] \subseteq DOMAIN log'[x]
<1>1. log \in [End -> Seq(LogRecord)]
  BY DEF LogTyped
<1>2. Len(log[e]) \in Nat /\ DOMAIN log[e] = 1..Len(log[e])
  BY <1>1
<1>3. f \in [1..Len(log[e]) -> LogRecord]
  BY <1>2
<1>4. f \in Seq(LogRecord)
  BY <1>2, <1>3, SeqDef
<1> QED BY <1>1, <1>4 DEF LogTyped

\* A packet that arrives leaves the network, or stays to come again.
LEMMA ArrivedTyped ==
  ASSUME NetTyped, NEW e \in End, NEW p \in net[e], Arrived(e, p)
  PROVE  NetTyped'
<1>1. PICK n : n \subseteq net[e] /\ net' = [net EXCEPT ![e] = n]
  BY DEF Arrived
<1> HIDE DEF IsPacket
<1> QED BY <1>1 DEF NetTyped

LEMMA UnchangedTyped ==
  /\ UNCHANGED net /\ NetTyped => NetTyped'
  /\ UNCHANGED clock /\ ClockTyped => ClockTyped'
  /\ UNCHANGED log /\ LogTyped => LogTyped'
BY DEF NetTyped, ClockTyped, LogTyped

\* The steps that receive keep the types.
LEMMA ReceivePacketTyped ==
  ASSUME Typed, NEW e \in End, NEW p \in net[e], ReceivePacket(e, p)
  PROVE  Typed'
<1> DEFINE target == First({i \in DOMAIN conn[e] : BeforeErrored(conn[e][i])})
           f == [i \in DOMAIN conn[e] |-> IF i \in target THEN Processed(conn[e][i], p) ELSE conn[e][i]]
<1>1. conn' = [conn EXCEPT ![e] = f] /\ UNCHANGED <<log, clock>> /\ Arrived(e, p)
  BY DEF ReceivePacket
<1>2. IsPacket(p)
  BY DEF Typed, NetTyped
<1>3. \A i \in DOMAIN f : IsConn(f[i]) /\ i \in DOMAIN log'[e]
  BY <1>1, <1>2, ProcessedIsConn DEF Typed, ConnTyped
<1> HIDE DEF f
<1>4. ConnTyped'
  BY <1>1, <1>3, TypedList DEF Typed
<1> QED BY <1>1, <1>4, ArrivedTyped, UnchangedTyped DEF Typed

LEMMA ReceiveConnectTyped ==
  ASSUME Typed, NEW e \in End, NEW p \in net[e], ReceiveConnect(e, p)
  PROVE  Typed'
<1> DEFINE Takes(c) == BeforeErrored(c) /\ (Handshaking(c) \/ Obsolete(c, p))
           taker == First({i \in DOMAIN conn[e] : Takes(conn[e][i])})
           Offer(i) == CASE i \in taker -> IF Obsolete(conn[e][i], p) THEN conn[e][i]
                                           ELSE AdoptConnect(conn[e][i], p)
                         [] BeforeErrored(conn[e][i]) /\ \A t \in taker : i > t -> CloseInput(conn[e][i])
                         [] OTHER -> conn[e][i]
           offered == [i \in DOMAIN conn[e] |-> Offer(i)]
           made == taker = {} /\ ~closed[e] /\ Len(log[e]) < MaxConns[e]
           new == AdoptConnect(NewConnection("Pending"), p)
           f == IF made THEN With(offered, NextId(e), new) ELSE offered
<1>1. /\ conn' = [conn EXCEPT ![e] = f]
      /\ log' = [log EXCEPT ![e] = IF made THEN Append(@, NewLog) ELSE @]
      /\ p.kind = "Connect" /\ UNCHANGED clock /\ Arrived(e, p)
  BY Zenon DEF ReceiveConnect
<1>2. p.time \in Nat
  <2>1. IsPacket(p)
    BY DEF Typed, NetTyped
  <2> QED BY <1>1, <2>1 DEF IsPacket, IsData, IsAck, IsHandshake, GoodbyePacket
<1>3. ASSUME NEW c, IsConn(c), BeforeErrored(c) PROVE IsConn(AdoptConnect(c, p))
  <2> DEFINE s == IF c.state = "Connecting" THEN "Answering" ELSE c.state
  <2>1. s \in {"Pending", "Connecting", "Answering", "Establishing", "TimedOut"}
    BY <1>3 DEF IsConn, Shaped, BeforeErrored
  <2> HIDE DEF s
  <2>2. IsConn([c EXCEPT !.hs = p.time, !.state = s])
    BY <1>2, <1>3, <2>1 DEF IsConn, Shaped, ConnFields, BeforeErrored
  <2> QED BY <2>2, AdoptIsConn DEF AdoptConnect, s
<1>4. \A i \in DOMAIN conn[e] : IsConn(conn[e][i]) /\ i \in DOMAIN log[e]
  BY DEF Typed, ConnTyped
<1>5. \A i \in taker : i \in DOMAIN conn[e] /\ BeforeErrored(conn[e][i])
  BY DEF First
<1>6. \A i \in DOMAIN conn[e] : IsConn(Offer(i))
  <2> TAKE i \in DOMAIN conn[e]
  <2>1. IsConn(conn[e][i]) /\ IsConn(CloseInput(conn[e][i]))
        /\ (i \in taker => IsConn(AdoptConnect(conn[e][i], p)))
    BY <1>3, <1>4, <1>5, CloseIsConn
  <2> QED BY <2>1, Zenon
<1>7. IsConn(new)
  <2>1. BeforeErrored(NewConnection("Pending")) /\ IsConn(NewConnection("Pending"))
    BY NewIsConn DEF NewConnection, BeforeErrored
  <2> QED BY <1>3, <2>1
<1> HIDE DEF new, taker, Offer
<1>8. LogTyped /\ Len(log[e]) \in Nat /\ DOMAIN log[e] = 1..Len(log[e])
  BY LogOf DEF Typed
<1>9. CASE made
  <2>1. log' = [log EXCEPT ![e] = Append(@, NewLog)] /\ f = With(offered, NextId(e), new)
    BY <1>1, <1>9
  <2>2. /\ LogTyped' /\ DOMAIN log'[e] = 1..(Len(log[e]) + 1)
        /\ \A x \in End : DOMAIN log[x] \subseteq DOMAIN log'[x]
    BY <1>8, <2>1, AppendLog
  <2>3. \A i \in DOMAIN f : IsConn(f[i]) /\ i \in DOMAIN log'[e]
    BY <1>4, <1>6, <1>7, <1>8, <2>1, <2>2 DEF With, NextId
  <2> HIDE DEF f
  <2>4. ConnTyped'
    BY <1>1, <2>2, <2>3, TypedList DEF Typed
  <2> QED BY <1>1, <2>2, <2>4, ArrivedTyped, UnchangedTyped DEF Typed
<1>10. CASE ~made
  <2>1. log' = log /\ f = offered
    <3>1. log' = [log EXCEPT ![e] = log[e]]
      BY <1>1, <1>10
    <3> QED BY <1>8, <1>10, <3>1 DEF LogTyped
  <2>2. \A i \in DOMAIN f : IsConn(f[i]) /\ i \in DOMAIN log'[e]
    BY <1>4, <1>6, <2>1
  <2>3. ConnTyped'
    <3>1. \A x \in End : DOMAIN log[x] \subseteq DOMAIN log'[x]
      BY <2>1
    <3>2. conn' = [conn EXCEPT ![e] = f] /\ ConnTyped
      BY <1>1 DEF Typed
    <3> HIDE DEF f
    <3> QED BY <2>2, <3>1, <3>2, TypedList
  <2> QED BY <1>1, <2>1, <2>3, ArrivedTyped, UnchangedTyped DEF Typed
<1> QED BY <1>9, <1>10

\* And so do the steps of the game, of the lobby and of the network.
LEMMA ConnectTyped ==
  ASSUME Typed, NEW e \in End, Connect(e)
  PROVE  Typed'
<1> DEFINE accepted == First({i \in DOMAIN conn[e] : Acceptable(conn[e][i])})
           Scan(i) == CASE i \in accepted -> [conn[e][i] EXCEPT !.state = "Answering"]
                        [] i \notin accepted /\ \A k \in accepted : i > k -> Replaced(conn[e][i])
                        [] OTHER -> conn[e][i]
           scanned == [i \in DOMAIN conn[e] |-> Scan(i)]
           made == accepted = {}
           f == IF made THEN With(scanned, NextId(e), NewConnection("Connecting")) ELSE scanned
<1>1. /\ conn' = [conn EXCEPT ![e] = f]
      /\ log' = [log EXCEPT ![e] = IF made THEN Append(@, NewLog) ELSE @]
      /\ UNCHANGED <<net, clock>>
  BY Zenon DEF Connect
<1>2. \A i \in accepted : i \in DOMAIN conn[e] /\ BeforeErrored(conn[e][i])
  BY DEF First, Acceptable, BeforeErrored
<1>3. \A i \in DOMAIN conn[e] : IsConn(conn[e][i]) /\ i \in DOMAIN log[e]
  BY DEF Typed, ConnTyped
<1>4. ASSUME NEW c, IsConn(c)
      PROVE  /\ BeforeErrored(c) => IsConn([c EXCEPT !.state = "Answering"])
             /\ IsConn(Replaced(c))
  BY <1>4 DEF Replaced, IsConn, Shaped, ConnFields, BeforeErrored
<1>5. \A i \in DOMAIN conn[e] : IsConn(Scan(i))
  <2> TAKE i \in DOMAIN conn[e]
  <2>1. /\ IsConn(conn[e][i]) /\ IsConn(Replaced(conn[e][i]))
        /\ i \in accepted => IsConn([conn[e][i] EXCEPT !.state = "Answering"])
    BY <1>2, <1>3, <1>4
  <2> QED BY <2>1, Zenon
<1>6. IsConn(NewConnection("Connecting"))
  BY NewIsConn
<1> HIDE DEF accepted, Scan
<1>7. LogTyped /\ Len(log[e]) \in Nat /\ DOMAIN log[e] = 1..Len(log[e])
  BY LogOf DEF Typed
<1>8. CASE made
  <2>1. log' = [log EXCEPT ![e] = Append(@, NewLog)] /\ f = With(scanned, NextId(e), NewConnection("Connecting"))
    BY <1>1, <1>8
  <2>2. /\ LogTyped' /\ DOMAIN log'[e] = 1..(Len(log[e]) + 1)
        /\ \A x \in End : DOMAIN log[x] \subseteq DOMAIN log'[x]
    BY <1>7, <2>1, AppendLog
  <2>3. \A i \in DOMAIN f : IsConn(f[i]) /\ i \in DOMAIN log'[e]
    BY <1>3, <1>5, <1>6, <1>7, <2>1, <2>2 DEF With, NextId
  <2> HIDE DEF f
  <2>4. ConnTyped'
    BY <1>1, <2>2, <2>3, TypedList DEF Typed
  <2> QED BY <1>1, <2>2, <2>4, UnchangedTyped DEF Typed
<1>9. CASE ~made
  <2>1. log' = log /\ f = scanned
    <3>1. log' = [log EXCEPT ![e] = log[e]]
      BY <1>1, <1>9
    <3> QED BY <1>7, <1>9, <3>1 DEF LogTyped
  <2>2. \A i \in DOMAIN f : IsConn(f[i]) /\ i \in DOMAIN log'[e]
    BY <1>3, <1>5, <2>1
  <2>3. ConnTyped'
    <3>1. \A x \in End : DOMAIN log[x] \subseteq DOMAIN log'[x]
      BY <2>1
    <3>2. conn' = [conn EXCEPT ![e] = f] /\ ConnTyped
      BY <1>1 DEF Typed
    <3> HIDE DEF f
    <3> QED BY <2>2, <3>1, <3>2, TypedList
  <2> QED BY <1>1, <2>1, <2>3, UnchangedTyped DEF Typed
<1> QED BY <1>8, <1>9

LEMMA ShutIsConn ==
  ASSUME NEW c, IsConn(c)
  PROVE  IsConn(ShutOutput(c))
BY DEF ShutOutput, IsConn, Shaped, ConnFields, BeforeErrored

LEMMA ScheduleTyped ==
  ASSUME Typed, NEW e \in End, NEW which, Schedule(e, which), UNCHANGED <<net, clock>>
  PROVE  Typed'
<1> DEFINE f == [i \in DOMAIN conn[e] |-> IF i \in which THEN ShutOutput(conn[e][i]) ELSE conn[e][i]]
           g == [i \in DOMAIN log[e] |-> IF i \in which THEN [log[e][i] EXCEPT !.shut = TRUE] ELSE log[e][i]]
<1>1. conn' = [conn EXCEPT ![e] = f] /\ log' = [log EXCEPT ![e] = g]
  BY DEF Schedule
<1>2. LogTyped /\ \A k \in DOMAIN log[e] : log[e][k] \in LogRecord
  BY LogOf DEF Typed
<1>3. ASSUME NEW r \in LogRecord PROVE [r EXCEPT !.shut = TRUE] \in LogRecord
  BY DEF LogRecord
<1>4. /\ DOMAIN g = DOMAIN log[e] /\ g = [k \in DOMAIN g |-> g[k]]
      /\ \A k \in DOMAIN log[e] : g[k] \in LogRecord
  BY <1>2, <1>3
<1>5. \A i \in DOMAIN f : IsConn(f[i]) /\ i \in DOMAIN log[e]
  BY ShutIsConn DEF Typed, ConnTyped
<1> HIDE DEF f, g
<1>6. /\ LogTyped' /\ DOMAIN log'[e] = DOMAIN log[e]
      /\ \A x \in End : DOMAIN log[x] \subseteq DOMAIN log'[x]
  BY <1>1, <1>2, <1>4, MapLog
<1>7. ConnTyped'
  BY <1>1, <1>5, <1>6, TypedList DEF Typed
<1> QED BY <1>6, <1>7, UnchangedTyped DEF Typed

LEMMA WriteTyped ==
  ASSUME Typed, NEW e \in End, NEW i \in Nat, Write(e, i)
  PROVE  Typed'
<1> DEFINE m == <<i, Len(log[e][i].wrote) + 1>>
           c == [conn[e][i] EXCEPT !.out = Append(@, m)]
           r == [log[e][i] EXCEPT !.wrote = Append(log[e][i].wrote, m)]
           g == [log[e] EXCEPT ![i] = r]
<1>1. /\ i \in DOMAIN conn[e] /\ Set(e, i, c) /\ log' = [log EXCEPT ![e] = g]
      /\ UNCHANGED <<net, clock>>
  <2>1. Set(e, i, c) /\ i \in DOMAIN conn[e] /\ UNCHANGED <<net, clock>>
    BY DEF Write
  <2>2. log' = [log EXCEPT ![e][i].wrote = Append(@, m)]
    BY DEF Write
  <2>3. log' = [log EXCEPT ![e] = g]
    BY <2>2
  <2> QED BY <2>1, <2>3
<1>2. /\ LogTyped /\ log[e] \in Seq(LogRecord) /\ i \in DOMAIN log[e]
      /\ IsConn(conn[e][i]) /\ \A k \in DOMAIN log[e] : log[e][k] \in LogRecord
  BY <1>1, LogOf DEF Typed
<1>3. m \in Message
  BY <1>2 DEF Message, LogRecord
<1> HIDE DEF m
<1>4. IsConn(c)
  BY <1>2, <1>3 DEF IsConn, Shaped, ConnFields, BeforeErrored
<1>5. r \in LogRecord
  <2>1. Append(log[e][i].wrote, m) \in Seq(Message) /\ log[e][i] \in LogRecord
    BY <1>2, <1>3 DEF LogRecord
  <2> QED BY <2>1 DEF LogRecord
<1>6. /\ DOMAIN g = DOMAIN log[e] /\ g = [k \in DOMAIN g |-> g[k]]
      /\ \A k \in DOMAIN log[e] : g[k] \in LogRecord
  <2> HIDE DEF r
  <2>1. log[e] = [k \in DOMAIN log[e] |-> log[e][k]]
    BY <1>2
  <2>2. DOMAIN g = DOMAIN log[e] /\ g = [k \in DOMAIN g |-> g[k]]
    BY <2>1
  <2>3. \A k \in DOMAIN log[e] : g[k] \in LogRecord
    BY <1>2, <1>5
  <2> QED BY <2>2, <2>3
<1> HIDE DEF c, g
<1>7. /\ LogTyped' /\ DOMAIN log'[e] = DOMAIN log[e]
      /\ \A x \in End : DOMAIN log[x] \subseteq DOMAIN log'[x]
  BY <1>1, <1>2, <1>6, MapLog
<1>8. ConnTyped'
  BY <1>1, <1>4, <1>7, TypedSet DEF Typed
<1> QED BY <1>1, <1>7, <1>8, UnchangedTyped DEF Typed

LEMMA PullTyped ==
  ASSUME Typed, NEW e \in End, Pull(e)
  PROVE  Typed'
<1> DEFINE kept == {i \in DOMAIN conn[e] : ~conn[e][i].destroyed}
           f == [i \in kept |-> IF Dispatches(conn[e][i]) THEN Dispatched(conn[e][i]) ELSE conn[e][i]]
           g == [k \in DOMAIN log[e] |->
                   IF k \in kept /\ Dispatches(conn[e][k])
                   THEN [log[e][k] EXCEPT !.handed = @ \o conn[e][k].input, !.notice = Notice(conn[e][k])]
                   ELSE log[e][k]]
<1>1. conn' = [conn EXCEPT ![e] = f] /\ log' = [log EXCEPT ![e] = g] /\ UNCHANGED <<net, clock>>
  <2>1. conn' = [conn EXCEPT ![e] = f]
    BY DEF Pull
  <2>2. log' = [log EXCEPT ![e] = g]
    BY DEF Pull
  <2> QED BY <2>1, <2>2 DEF Pull
<1>2. LogTyped /\ \A k \in DOMAIN log[e] : log[e][k] \in LogRecord
  BY LogOf DEF Typed
<1>3. ASSUME NEW c, IsConn(c) PROVE IsConn(Dispatched(c))
  BY <1>3, BoundAssumption DEF Dispatched, IsConn, Shaped, ConnFields, BeforeErrored
<1>4. ASSUME NEW r \in LogRecord, NEW c, IsConn(c)
      PROVE  [r EXCEPT !.handed = @ \o c.input, !.notice = Notice(c)] \in LogRecord
  <2>1. r.handed \o c.input \in Seq(Content)
    BY <1>4 DEF LogRecord, IsConn, Shaped
  <2>2. Notice(c) \in {"None", "Eof", "Errored"}
    BY DEF Notice
  <2> QED BY <2>1, <2>2 DEF LogRecord
<1>5. /\ DOMAIN g = DOMAIN log[e] /\ g = [k \in DOMAIN g |-> g[k]]
      /\ \A k \in DOMAIN log[e] : g[k] \in LogRecord
  BY <1>2, <1>4 DEF Typed, ConnTyped
<1>6. \A i \in DOMAIN f : IsConn(f[i]) /\ i \in DOMAIN log[e]
  BY <1>3 DEF Typed, ConnTyped
<1> HIDE DEF f, g
<1>7. /\ LogTyped' /\ DOMAIN log'[e] = DOMAIN log[e]
      /\ \A x \in End : DOMAIN log[x] \subseteq DOMAIN log'[x]
  BY <1>1, <1>2, <1>5, MapLog
<1>8. ConnTyped'
  BY <1>1, <1>6, <1>7, TypedList DEF Typed
<1> QED BY <1>1, <1>7, <1>8, UnchangedTyped DEF Typed

LEMMA ReapTyped ==
  ASSUME Typed, NEW e \in End, Reap(e)
  PROVE  Typed'
<1> DEFINE f == [i \in {k \in DOMAIN conn[e] : ~conn[e][k].destroyed} |-> conn[e][i]]
<1>1. conn' = [conn EXCEPT ![e] = f] /\ UNCHANGED <<net, clock, log>>
  BY DEF Reap
<1>2. \A i \in DOMAIN f : IsConn(f[i]) /\ i \in DOMAIN log'[e]
  BY <1>1 DEF Typed, ConnTyped
<1> HIDE DEF f
<1>3. \A x \in End : DOMAIN log[x] \subseteq DOMAIN log'[x]
  BY <1>1
<1>4. ConnTyped'
  BY <1>1, <1>2, <1>3, TypedList DEF Typed
<1> QED BY <1>1, <1>4, UnchangedTyped DEF Typed

LEMMA LoseTyped ==
  ASSUME Typed, NEW e \in End, Lose(e)
  PROVE  Typed'
<1>1. PICK p \in net[e] : net' = [net EXCEPT ![e] = @ \ {p}]
  BY DEF Lose
<1>2. UNCHANGED <<conn, clock, log>>
  BY DEF Lose
<1> HIDE DEF IsPacket
<1>3. NetTyped'
  BY <1>1 DEF Typed, NetTyped
<1> QED BY <1>2, <1>3, UnchangedTyped DEF Typed, ConnTyped

\* The typing invariant is inductive.
LEMMA TypedNext == Typed /\ [Next]_vars => Typed'
<1> SUFFICES ASSUME Typed, [Next]_vars PROVE Typed'
  OBVIOUS
<1>1. CASE UNCHANGED vars
  BY <1>1, UnchangedTyped DEF vars, Typed, ConnTyped
<1>2. ASSUME NEW e \in End, NEW i \in Slot, Network(e, i) PROVE Typed'
  BY <1>2, NetworkTyped
<1>3. ASSUME NEW e \in End, NEW p \in net[e], ReceivePacket(e, p) \/ ReceiveConnect(e, p) PROVE Typed'
  BY <1>3, ReceivePacketTyped, ReceiveConnectTyped
<1>4. ASSUME NEW e \in End, Game(e) PROVE Typed'
  <2>1. CASE Reject(e)
    BY <2>1, ScheduleTyped DEF Reject
  <2>2. CASE Destroy(e)
    BY <2>2, ScheduleTyped DEF Destroy
  <2>3. ASSUME NEW i \in Slot, ScheduleDestroy(e, i) PROVE Typed'
    BY <2>3, ScheduleTyped DEF ScheduleDestroy
  <2>4. ASSUME NEW i \in Slot, Write(e, i) PROVE Typed'
    <3>1. i \in Nat
      BY DEF Slot
    <3> QED BY <2>4, <3>1, WriteTyped
  <2> QED BY <1>4, <2>1, <2>2, <2>3, <2>4, ConnectTyped, PullTyped DEF Game
<1> QED BY <1>1, <1>2, <1>3, <1>4, ReapTyped, LoseTyped DEF Next

LEMMA InitTyped == Init => Typed
<1> SUFFICES ASSUME Init PROVE Typed
  OBVIOUS
<1>1. ConnTyped /\ NetTyped /\ LogTyped
  BY DEF Init, ConnTyped, NetTyped, LogTyped
<1>2. ClockTyped
  BY BoundAssumption DEF Init, ClockTyped
<1> QED BY <1>1, <1>2 DEF Typed

LEMMA InitEstablishedTyped == InitEstablished => Typed
<1> SUFFICES ASSUME InitEstablished PROVE Typed
  OBVIOUS
<1> DEFINE c == [NewConnection("Establishing") EXCEPT !.hs = 1,
                   !.next = FirstSeq, !.remote = FirstSeq, !.expected = FirstSeq]
<1>1. IsConn(c)
  <2>1. FirstSeq \in SeqNum
    BY SeqAssumption DEF SeqNum
  <2> QED BY <2>1, NewIsConn DEF NewConnection, IsConn, Shaped, ConnFields, BeforeErrored
<1>2. DOMAIN conn = End /\ \A e \in End : conn[e] = <<c>>
  BY DEF InitEstablished
<1>3. DOMAIN <<c>> = {1} /\ <<c>>[1] = c
  OBVIOUS
<1>4. NewLog \in LogRecord
  BY DEF NewLog, LogRecord
<1>5. log = [e \in End |-> <<NewLog>>] /\ net = [e \in End |-> {}] /\ clock = [e \in End |-> MaxTime[e]]
  BY DEF InitEstablished
<1> HIDE DEF c
<1>6. LogTyped /\ \A e \in End : 1 \in DOMAIN log[e]
  BY <1>4, <1>5 DEF LogTyped
<1>7. ConnTyped
  BY <1>1, <1>2, <1>3, <1>6 DEF ConnTyped
<1>8. NetTyped
  BY <1>5 DEF NetTyped
<1>9. ClockTyped
  BY <1>5, BoundAssumption DEF ClockTyped
<1> QED BY <1>6, <1>7, <1>8, <1>9 DEF Typed

----------------------------------------------------------------------------
(* One direction of a link *)

\* One direction of a link: from the connections C with the log l (one or none)
\* to the connections D with the log m, over the packets toD, and acknowledged by
\* the packets toC.  A connection talks while what it receives counts.
Talking(d) == ~d.destroyed /\ d.state \in {"Establishing", "TimedOut"}

\* q is the packet of number q.nth of the stream: the message written then, or the end.
DataOf(l, q) ==
  /\ q.nth \in Nat /\ q.seq = Num(q.nth)
  /\ \/ q.nth < Len(l.wrote) /\ q.item = l.wrote[q.nth + 1]
     \/ q.nth = Len(l.wrote) /\ q.item = Eof /\ l.shut

\* The receiver has the packet of number n, in order or early.
Has(d, m, n) == n < Got(d, m) \/ \E q \in d.early : q.nth = n

\* A packet of data under way was made, and is not past the window of the receiver.
DataFor(C, l, D, m, p) ==
  /\ DataOf(l, p)
  /\ \A c \in C : p.nth < Sent(c, l)
  /\ \A d \in D : Talking(d) => p.nth <= Got(d, m) + Window

\* The header of a packet acknowledges what the receiver has, and no more.
AckOf(C, l, D, m, p) ==
  /\ p.had \in Nat /\ p.expected = Num(p.had) /\ p.mask \subseteq Nat
  /\ \A c \in C : p.had <= Sent(c, l)
  /\ \A d \in D : Talking(d) => /\ p.had <= Got(d, m)
                                /\ \A x \in p.mask : Has(d, m, p.had + x)

\* The sender: what waits is the last of what was written, and the next number,
\* and the unacked packets, stand for what was sent.
SenderOK(c, l) ==
  /\ l.shut = c.shut /\ (c.destroy => c.shut) /\ (c.destroyed => c.destroy)
  /\ Len(c.out) <= Len(l.wrote)
  /\ \A k \in 1..Len(c.out) : c.out[k] = l.wrote[Len(l.wrote) - Len(c.out) + k]
  /\ c.sentShutdown => Len(c.out) = 0 /\ c.shut
  /\ c.next = Num(Sent(c, l))
  /\ \A q \in c.unacked : DataOf(l, q) /\ q.nth < Sent(c, l)

\* The peer is known to have the packets before r, the window is counted from it,
\* and nothing before it is unacked.
AckedTo(c, l, r) ==
  /\ c.remote = Num(r) /\ r <= Sent(c, l) /\ Sent(c, l) <= r + Window + 1
  /\ \A q \in c.unacked : r <= q.nth

WindowOK(C, l, D, m) ==
  \A c \in C : \E r \in Nat : AckedTo(c, l, r) /\ \A d \in D : Talking(d) => r <= Got(d, m)

\* The receiver: what waits for the game is what was written next, and what is
\* early is in the window and each packet once.
ReceiverOK(d, m, l) ==
  /\ d.dispatchedEof => d.eof
  /\ ~d.dispatchedEof => m.notice = "None"
  /\ ~d.destroyed => /\ Len(m.handed) + Len(d.input) <= Len(l.wrote)
                     /\ \A k \in 1..Len(d.input) : d.input[k] = l.wrote[Len(m.handed) + k]
  /\ Talking(d) =>
       /\ d.expected = Num(Got(d, m))
       /\ d.eof => l.shut /\ Len(m.handed) + Len(d.input) = Len(l.wrote)
       /\ \A q \in d.early : DataOf(l, q) /\ Got(d, m) < q.nth /\ q.nth <= Got(d, m) + Window
       /\ \A q, r \in d.early : q.nth = r.nth => q = r

\* What was handed out is the first part of what was written.
LogOK(l, m) ==
  /\ Len(m.handed) <= Len(l.wrote)
  /\ \A k \in 1..Len(m.handed) : m.handed[k] = l.wrote[k]

\* The receiver has only what was sent, and what it does not have is unacked.
PairOK(c, l, d, m) ==
  Talking(d) =>
    /\ Got(d, m) <= Sent(c, l)
    /\ \A q \in d.early : q.nth < Sent(c, l)
    /\ \A n \in Nat : n < Sent(c, l) => Has(d, m, n) \/ \E q \in c.unacked : q.nth = n

\* The packets under way, and what the goodbye tells.
NetOK(C, l, D, m, toD, toC) ==
  /\ \A p \in toD : p.kind = "Data" => DataFor(C, l, D, m, p)
  /\ \A p \in toC : p.kind # "Goodbye" => AckOf(C, l, D, m, p)
  /\ GoodbyePacket \in toD => /\ \A c \in C : c.destroyed
                              /\ \A d \in D : Talking(d) => d.eof
  /\ GoodbyePacket \in toC => \A d \in D : ~Talking(d)

\* The connections and logs are well-typed.
Shapes(C, l, D, m) ==
  /\ l \in LogRecord /\ m \in LogRecord
  /\ \A c \in C : IsConn(c)
  /\ \A d \in D : IsConn(d)

Direction(C, l, D, m, toD, toC) ==
  /\ LogOK(l, m)
  /\ \A c \in C : SenderOK(c, l)
  /\ WindowOK(C, l, D, m)
  /\ \A d \in D : ReceiverOK(d, m, l)
  /\ \A c \in C, d \in D : PairOK(c, l, d, m)
  /\ \A d \in D : \A p \in d.unacked : AckOf(C, l, D, m, p)
  /\ NetOK(C, l, D, m, toD, toC)

\* The sender's part is as it was, though it may be gone.
SameSender(c, c2) ==
  /\ c2.out = c.out /\ c2.shut = c.shut /\ c2.destroy = c.destroy /\ c2.sentShutdown = c.sentShutdown
  /\ c2.next = c.next /\ c2.unacked = c.unacked /\ c2.remote = c.remote
  /\ c.destroyed => c2.destroyed
  /\ c2.destroyed => c2.destroy

\* A step that leaves the sender as it was, for a direction, keeps it.
LEMMA SenderStays ==
  ASSUME NEW C, NEW l, NEW D, NEW m, NEW toD, NEW toC, Direction(C, l, D, m, toD, toC),
         NEW C2, \A c2 \in C2 : \E c \in C : SameSender(c, c2),
         NEW toD2, toD2 \subseteq toD, NEW toC2, toC2 \subseteq toC
  PROVE  Direction(C2, l, D, m, toD2, toC2)
<1>1. \A c2 \in C2 : \E c \in C : SameSender(c, c2) /\ Sent(c2, l) = Sent(c, l)
  BY DEF SameSender, Sent
<1>2. \A c2 \in C2 : SenderOK(c2, l)
  <2> TAKE c2 \in C2
  <2>1. PICK c \in C : SameSender(c, c2) /\ Sent(c2, l) = Sent(c, l)
    BY <1>1
  <2>2. SenderOK(c, l)
    BY DEF Direction
  <2> QED BY <2>1, <2>2 DEF SenderOK, SameSender
<1>3. WindowOK(C2, l, D, m)
  <2> SUFFICES ASSUME NEW c2 \in C2
               PROVE  \E r \in Nat : AckedTo(c2, l, r) /\ \A d \in D : Talking(d) => r <= Got(d, m)
    BY DEF WindowOK
  <2>1. PICK c \in C : SameSender(c, c2) /\ Sent(c2, l) = Sent(c, l)
    BY <1>1
  <2>2. PICK r \in Nat : AckedTo(c, l, r) /\ \A d \in D : Talking(d) => r <= Got(d, m)
    BY DEF Direction, WindowOK
  <2> QED BY <2>1, <2>2 DEF AckedTo, SameSender
<1>4. \A c2 \in C2, d \in D : PairOK(c2, l, d, m)
  <2> TAKE c2 \in C2, d \in D
  <2>1. PICK c \in C : SameSender(c, c2) /\ Sent(c2, l) = Sent(c, l)
    BY <1>1
  <2>2. PairOK(c, l, d, m)
    BY DEF Direction
  <2> QED BY <2>1, <2>2 DEF PairOK, SameSender
<1>5. ASSUME NEW p, AckOf(C, l, D, m, p) PROVE AckOf(C2, l, D, m, p)
  BY <1>1, <1>5 DEF AckOf
<1>6. ASSUME NEW p, DataFor(C, l, D, m, p) PROVE DataFor(C2, l, D, m, p)
  BY <1>1, <1>6 DEF DataFor
<1>7. NetOK(C2, l, D, m, toD2, toC2)
  <2>1. NetOK(C, l, D, m, toD, toC)
    BY DEF Direction
  <2>2. (\A c \in C : c.destroyed) => (\A c2 \in C2 : c2.destroyed)
    BY DEF SameSender
  <2> QED BY <1>5, <1>6, <2>1, <2>2 DEF NetOK
<1> QED BY <1>2, <1>3, <1>4, <1>5, <1>7 DEF Direction

\* The network may bring what it may bring.
LEMMA NetGrows ==
  ASSUME NEW C, NEW l, NEW D, NEW m, NEW toD, NEW toC, Direction(C, l, D, m, toD, toC),
         NEW toD2, NEW toC2, GoodbyePacket \in toD2 => GoodbyePacket \in toD,
         GoodbyePacket \in toC2 => GoodbyePacket \in toC,
         \A p \in toD2 : p \in toD \/ (p.kind = "Data" => DataFor(C, l, D, m, p)),
         \A p \in toC2 : p \in toC \/ AckOf(C, l, D, m, p)
  PROVE  Direction(C, l, D, m, toD2, toC2)
<1>1. NetOK(C, l, D, m, toD, toC)
  BY DEF Direction
<1>2. NetOK(C, l, D, m, toD2, toC2)
  BY <1>1 DEF NetOK
<1> QED BY <1>2 DEF Direction

\* The receiver has what it had, and perhaps more.
Advances(d, m, d2, m2) ==
  Talking(d2) => /\ Talking(d) /\ Got(d, m) <= Got(d2, m2)
                 /\ d.eof => d2.eof
                 /\ \A n \in Int : Has(d, m, n) => Has(d2, m2, n)

\* A step of the receiver alone.
LEMMA ReceiverMoves ==
  ASSUME NEW C, NEW l, NEW D, NEW m, NEW toD, NEW toC, Direction(C, l, D, m, toD, toC),
         Shapes(C, l, D, m), NEW D2, NEW m2, Shapes(C, l, D2, m2),
         LogOK(l, m2), \A d2 \in D2 : ReceiverOK(d2, m2, l),
         \A d2 \in D2 : \E d \in D : /\ Advances(d, m, d2, m2)
                                     /\ \A p \in d2.unacked : p \in d.unacked \/ AckOf(C, l, D, m, p),
         \A c \in C, d2 \in D2 : Talking(d2) => /\ Got(d2, m2) <= Sent(c, l)
                                                /\ \A q \in d2.early : q.nth < Sent(c, l),
         NEW toD2, toD2 \subseteq toD, NEW toC2, toC2 \subseteq toC
  PROVE  Direction(C, l, D2, m2, toD2, toC2)
<1>1. /\ \A c \in C : Sent(c, l) \in Int
      /\ \A d \in D : Got(d, m) \in Nat
      /\ \A d2 \in D2 : Got(d2, m2) \in Nat
  BY CountsAreInts DEF Shapes
<1>2. WindowOK(C, l, D2, m2)
  <2> SUFFICES ASSUME NEW c \in C
               PROVE  \E r \in Nat : AckedTo(c, l, r) /\ \A d2 \in D2 : Talking(d2) => r <= Got(d2, m2)
    BY DEF WindowOK
  <2>1. PICK r \in Nat : AckedTo(c, l, r) /\ \A d \in D : Talking(d) => r <= Got(d, m)
    BY DEF Direction, WindowOK
  <2>2. ASSUME NEW d2 \in D2, Talking(d2) PROVE r <= Got(d2, m2)
    <3>1. PICK d \in D : Advances(d, m, d2, m2)
      OBVIOUS
    <3>2. r <= Got(d, m) /\ Got(d, m) <= Got(d2, m2)
      BY <2>1, <2>2, <3>1 DEF Advances
    <3> QED BY <1>1, <3>2
  <2> QED BY <2>1, <2>2
<1>3. \A c \in C, d2 \in D2 : PairOK(c, l, d2, m2)
  <2> SUFFICES ASSUME NEW c \in C, NEW d2 \in D2, Talking(d2) PROVE PairOK(c, l, d2, m2)
    BY DEF PairOK
  <2>1. PICK d \in D : Advances(d, m, d2, m2)
    OBVIOUS
  <2>2. PairOK(c, l, d, m) /\ Talking(d)
    BY <2>1 DEF Direction, Advances
  <2>3. \A n \in Nat : n < Sent(c, l) => Has(d2, m2, n) \/ \E q \in c.unacked : q.nth = n
    BY <2>1, <2>2 DEF PairOK, Advances
  <2> QED BY <2>3 DEF PairOK
<1>4. ASSUME NEW p, AckOf(C, l, D, m, p) PROVE AckOf(C, l, D2, m2, p)
  <2>1. p.had \in Nat /\ p.expected = Num(p.had) /\ p.mask \subseteq Nat /\ \A c \in C : p.had <= Sent(c, l)
    BY <1>4 DEF AckOf
  <2>2. ASSUME NEW d2 \in D2, Talking(d2)
        PROVE  p.had <= Got(d2, m2) /\ \A x \in p.mask : Has(d2, m2, p.had + x)
    <3>1. PICK d \in D : Advances(d, m, d2, m2)
      OBVIOUS
    <3>2. p.had <= Got(d, m) /\ Got(d, m) <= Got(d2, m2) /\ \A x \in p.mask : Has(d, m, p.had + x)
      BY <1>4, <2>2, <3>1 DEF AckOf, Advances
    <3>3. p.had <= Got(d2, m2)
      BY <1>1, <2>1, <3>2
    <3>4. ASSUME NEW x \in p.mask PROVE Has(d2, m2, p.had + x)
      <4>1. p.had + x \in Int
        BY <2>1
      <4> QED BY <2>2, <3>1, <3>2, <4>1 DEF Advances
    <3> QED BY <3>3, <3>4
  <2> QED BY <2>1, <2>2 DEF AckOf
<1>5. ASSUME NEW p, DataFor(C, l, D, m, p) PROVE DataFor(C, l, D2, m2, p)
  <2>1. p.nth \in Nat /\ Window \in Nat
    BY <1>5, Space DEF DataFor, DataOf
  <2>2. ASSUME NEW d2 \in D2, Talking(d2) PROVE p.nth <= Got(d2, m2) + Window
    <3>1. PICK d \in D : Advances(d, m, d2, m2)
      OBVIOUS
    <3>2. p.nth <= Got(d, m) + Window /\ Got(d, m) <= Got(d2, m2)
      BY <1>5, <2>2, <3>1 DEF DataFor, Advances
    <3> QED BY <1>1, <2>1, <3>2
  <2> QED BY <1>5, <2>2 DEF DataFor
<1>6. \A d2 \in D2 : \A p \in d2.unacked : AckOf(C, l, D2, m2, p)
  BY <1>4 DEF Direction
<1>7. NetOK(C, l, D2, m2, toD2, toC2)
  <2>1. NetOK(C, l, D, m, toD, toC)
    BY DEF Direction
  <2>2. \A p \in toD2 : p.kind = "Data" => DataFor(C, l, D2, m2, p)
    BY <1>5, <2>1 DEF NetOK
  <2>3. \A p \in toC2 : p.kind # "Goodbye" => AckOf(C, l, D2, m2, p)
    BY <1>4, <2>1 DEF NetOK
  <2>4. GoodbyePacket \in toD2 => \A d2 \in D2 : Talking(d2) => d2.eof
    BY <2>1 DEF NetOK, Advances
  <2>5. GoodbyePacket \in toC2 => \A d2 \in D2 : ~Talking(d2)
    BY <2>1 DEF NetOK, Advances
  <2> QED BY <2>1, <2>2, <2>3, <2>4, <2>5 DEF NetOK
<1> QED BY <1>2, <1>3, <1>6, <1>7 DEF Direction

\* The receiver's part is as it was, though it may be gone.
SameReceiver(d, d2) ==
  /\ Talking(d2) => Talking(d)
  /\ d.destroyed => d2.destroyed
  /\ d2.input = d.input /\ d2.eof = d.eof /\ d2.dispatchedEof = d.dispatchedEof
  /\ d2.expected = d.expected /\ d2.early = d.early

\* A step that leaves the receiver as it was.
LEMMA ReceiverStays ==
  ASSUME NEW C, NEW l, NEW D, NEW m, NEW toD, NEW toC, Direction(C, l, D, m, toD, toC),
         Shapes(C, l, D, m), NEW D2, Shapes(C, l, D2, m),
         \A d2 \in D2 : \E d \in D : /\ SameReceiver(d, d2)
                                     /\ \A p \in d2.unacked : p \in d.unacked \/ AckOf(C, l, D, m, p),
         NEW toD2, toD2 \subseteq toD, NEW toC2, toC2 \subseteq toC
  PROVE  Direction(C, l, D2, m, toD2, toC2)
<1>1. \A d, d2 : SameReceiver(d, d2) => Got(d2, m) = Got(d, m) /\ \A n : Has(d, m, n) = Has(d2, m, n)
  BY DEF SameReceiver, Got, Has
<1>2. \A d2 \in D2 : ReceiverOK(d2, m, l)
  <2> TAKE d2 \in D2
  <2>1. PICK d \in D : SameReceiver(d, d2)
    OBVIOUS
  <2>2. ReceiverOK(d, m, l) /\ Got(d2, m) = Got(d, m)
    BY <1>1, <2>1 DEF Direction
  <2>3. (d2.dispatchedEof => d2.eof) /\ (~d2.dispatchedEof => m.notice = "None")
    BY <2>1, <2>2 DEF ReceiverOK, SameReceiver
  <2>4. ASSUME ~d2.destroyed
        PROVE  /\ Len(m.handed) + Len(d2.input) <= Len(l.wrote)
               /\ \A k \in 1..Len(d2.input) : d2.input[k] = l.wrote[Len(m.handed) + k]
    <3>1. ~d.destroyed /\ d2.input = d.input
      BY <2>1, <2>4 DEF SameReceiver
    <3>2. /\ Len(m.handed) + Len(d.input) <= Len(l.wrote)
          /\ \A k \in 1..Len(d.input) : d.input[k] = l.wrote[Len(m.handed) + k]
      BY <2>2, <3>1 DEF ReceiverOK
    <3> QED BY <3>1, <3>2, Zenon
  <2>5. ASSUME Talking(d2)
        PROVE  /\ d2.expected = Num(Got(d2, m))
               /\ d2.eof => l.shut /\ Len(m.handed) + Len(d2.input) = Len(l.wrote)
               /\ \A q \in d2.early : DataOf(l, q) /\ Got(d2, m) < q.nth /\ q.nth <= Got(d2, m) + Window
               /\ \A q, r \in d2.early : q.nth = r.nth => q = r
    <3>1. Talking(d)
      BY <2>1, <2>5 DEF SameReceiver
    <3> QED BY <2>1, <2>2, <3>1 DEF ReceiverOK, SameReceiver
  <2> QED BY <2>3, <2>4, <2>5 DEF ReceiverOK
<1>3. \A d2 \in D2 : \E d \in D : /\ Advances(d, m, d2, m)
                                  /\ \A p \in d2.unacked : p \in d.unacked \/ AckOf(C, l, D, m, p)
  <2> TAKE d2 \in D2
  <2>1. PICK d \in D : SameReceiver(d, d2) /\ \A p \in d2.unacked : p \in d.unacked \/ AckOf(C, l, D, m, p)
    OBVIOUS
  <2>2. Got(d, m) \in Nat /\ Got(d2, m) = Got(d, m)
    BY <1>1, <2>1, CountsAreInts DEF Shapes
  <2>3. Advances(d, m, d2, m)
    BY <1>1, <2>1, <2>2 DEF Advances, SameReceiver
  <2> QED BY <2>1, <2>3
<1>4. \A c \in C, d2 \in D2 : Talking(d2) => /\ Got(d2, m) <= Sent(c, l)
                                             /\ \A q \in d2.early : q.nth < Sent(c, l)
  <2> TAKE c \in C, d2 \in D2
  <2>1. PICK d \in D : SameReceiver(d, d2)
    OBVIOUS
  <2>2. PairOK(c, l, d, m) /\ Got(d2, m) = Got(d, m)
    BY <1>1, <2>1 DEF Direction
  <2> QED BY <2>1, <2>2 DEF PairOK, SameReceiver
<1>5. LogOK(l, m)
  BY DEF Direction
<1> QED BY <1>2, <1>3, <1>4, <1>5, ReceiverMoves

\* A step of the sender alone.
LEMMA SenderMoves ==
  ASSUME NEW c, NEW l, NEW D, NEW m, NEW toD, NEW toC, Direction({c}, l, D, m, toD, toC),
         Shapes({c}, l, D, m), NEW c2, NEW l2, Shapes({c2}, l2, D, m),
         SenderOK(c2, l2), WindowOK({c2}, l2, D, m), \A d \in D : PairOK(c2, l2, d, m),
         Sent(c, l) <= Sent(c2, l2), c.destroyed => c2.destroyed,
         \A q : DataOf(l, q) => DataOf(l2, q),
         LogOK(l2, m), \A d \in D : ReceiverOK(d, m, l2),
         NEW toD2, toD2 \subseteq toD, NEW toC2, toC2 \subseteq toC
  PROVE  Direction({c2}, l2, D, m, toD2, toC2)
<1>1. Sent(c, l) \in Int /\ Sent(c2, l2) \in Int
  BY CountsAreInts DEF Shapes
<1>2. ASSUME NEW p, AckOf({c}, l, D, m, p) PROVE AckOf({c2}, l2, D, m, p)
  <2>1. p.had \in Nat /\ p.had <= Sent(c, l)
    BY <1>2 DEF AckOf
  <2>2. p.had <= Sent(c2, l2)
    BY <1>1, <2>1
  <2> QED BY <1>2, <2>2 DEF AckOf
<1>3. ASSUME NEW p, DataFor({c}, l, D, m, p) PROVE DataFor({c2}, l2, D, m, p)
  <2>1. p.nth \in Nat /\ p.nth < Sent(c, l) /\ DataOf(l2, p)
    BY <1>3 DEF DataFor, DataOf
  <2>2. p.nth < Sent(c2, l2)
    BY <1>1, <2>1
  <2> QED BY <1>3, <2>1, <2>2 DEF DataFor
<1>4. NetOK({c2}, l2, D, m, toD2, toC2)
  <2>1. NetOK({c}, l, D, m, toD, toC)
    BY DEF Direction
  <2> QED BY <1>2, <1>3, <2>1 DEF NetOK
<1>5. \A d \in D : \A p \in d.unacked : AckOf({c2}, l2, D, m, p)
  BY <1>2 DEF Direction
<1> QED BY <1>4, <1>5 DEF Direction

\* An acknowledgement up to M, with what the mask adds, is taken.
LEMMA AckTaken ==
  ASSUME NEW c, NEW l, NEW D, NEW m, NEW toD, NEW toC, Direction({c}, l, D, m, toD, toC),
         Shapes({c}, l, D, m), NEW c2, Shapes({c2}, l, D, m),
         NEW p, NEW M \in Int, p.expected = Num(M), M <= Sent(c, l), Sent(c, l) - M < Half,
         \A d \in D : Talking(d) => M <= Got(d, m) /\ \A x \in p.mask : Has(d, m, M + x),
         c2.out = c.out, c2.shut = c.shut, c2.destroy = c.destroy, c2.sentShutdown = c.sentShutdown,
         c2.next = c.next, c2.destroyed = c.destroyed,
         c2.unacked = {q \in c.unacked : ~Acked(p, q)},
         c2.remote = IF Delta(p.expected, c.remote) > 0 THEN p.expected ELSE c.remote,
         NEW toD2, toD2 \subseteq toD, NEW toC2, toC2 \subseteq toC
  PROVE  Direction({c2}, l, D, m, toD2, toC2)
<1>1. /\ Sent(c, l) \in Int /\ Sent(c2, l) = Sent(c, l)
      /\ Half \in Nat /\ Window \in Nat /\ Window + 1 < Half
  BY CountsAreInts, Space DEF Shapes, Sent
<1>2. SenderOK(c, l) /\ WindowOK({c}, l, D, m) /\ \A d \in D : PairOK(c, l, d, m)
  BY DEF Direction
<1>3. PICK r \in Nat : AckedTo(c, l, r) /\ \A d \in D : Talking(d) => r <= Got(d, m)
  BY <1>2 DEF WindowOK
<1>4. c.remote = Num(r) /\ r <= Sent(c, l) /\ Sent(c, l) <= r + Window + 1
  BY <1>3 DEF AckedTo
<1>5. Delta(p.expected, c.remote) = M - r
  BY <1>1, <1>4, DeltaNum
<1>6. ASSUME NEW q \in c.unacked
      PROVE  q.nth \in Nat /\ q.nth < Sent(c, l) /\ r <= q.nth /\ Delta(q.seq, p.expected) = q.nth - M
  <2>1. q.nth \in Nat /\ q.seq = Num(q.nth) /\ q.nth < Sent(c, l) /\ r <= q.nth
    BY <1>2, <1>3 DEF SenderOK, DataOf, AckedTo
  <2>2. q.nth - M < Half /\ q.nth - M >= -Half
    BY <1>1, <1>4, <2>1
  <2> QED BY <2>1, <2>2, DeltaNum
<1>7. SenderOK(c2, l)
  <2>1. \A q \in c2.unacked : DataOf(l, q) /\ q.nth < Sent(c2, l)
    BY <1>1, <1>2 DEF SenderOK
  <2> QED BY <1>1, <1>2, <2>1 DEF SenderOK
<1>8. WindowOK({c2}, l, D, m)
  <2>1. CASE M - r > 0
    <3>1. M \in Nat /\ c2.remote = Num(M)
      BY <1>5, <2>1
    <3>2. Sent(c, l) <= M + Window + 1
      BY <1>1, <1>4, <2>1
    <3>3. ASSUME NEW q \in c2.unacked PROVE M <= q.nth
      <4>1. q \in c.unacked /\ ~(Delta(q.seq, p.expected) < 0)
        BY DEF Acked
      <4> QED BY <1>6, <4>1
    <3>4. AckedTo(c2, l, M)
      BY <1>1, <3>1, <3>2, <3>3 DEF AckedTo
    <3> QED BY <3>1, <3>4 DEF WindowOK
  <2>2. CASE ~(M - r > 0)
    <3>1. c2.remote = c.remote
      BY <1>5, <2>2
    <3>2. AckedTo(c2, l, r)
      BY <1>1, <1>3, <3>1 DEF AckedTo
    <3> QED BY <1>3, <3>2 DEF WindowOK
  <2> QED BY <2>1, <2>2
<1>9. \A d \in D : PairOK(c2, l, d, m)
  <2> SUFFICES ASSUME NEW d \in D, Talking(d) PROVE PairOK(c2, l, d, m)
    BY DEF PairOK
  <2>1. /\ Got(d, m) <= Sent(c, l) /\ \A q \in d.early : q.nth < Sent(c, l)
        /\ \A n \in Nat : n < Sent(c, l) => Has(d, m, n) \/ \E q \in c.unacked : q.nth = n
    BY <1>2 DEF PairOK
  <2>2. Got(d, m) \in Nat /\ M <= Got(d, m) /\ \A x \in p.mask : Has(d, m, M + x)
    BY CountsAreInts DEF Shapes
  <2>3. ASSUME NEW n \in Nat, n < Sent(c, l), ~Has(d, m, n) PROVE \E q \in c2.unacked : q.nth = n
    <3>1. PICK q \in c.unacked : q.nth = n
      BY <2>1, <2>3
    <3>2. Delta(q.seq, p.expected) = n - M
      BY <1>6, <3>1
    <3>3. ~(n - M < 0)
      BY <2>2, <2>3 DEF Has
    <3>4. n - M \notin p.mask
      <4> SUFFICES ASSUME n - M \in p.mask PROVE FALSE
        OBVIOUS
      <4>1. Has(d, m, M + (n - M)) /\ M + (n - M) = n
        BY <2>2
      <4> QED BY <2>3, <4>1
    <3> QED BY <3>1, <3>2, <3>3, <3>4 DEF Acked
  <2>4. \A n \in Nat : n < Sent(c2, l) => Has(d, m, n) \/ \E q \in c2.unacked : q.nth = n
    BY <1>1, <2>3
  <2> QED BY <1>1, <2>1, <2>4 DEF PairOK
<1>10. LogOK(l, m) /\ \A d \in D : ReceiverOK(d, m, l)
  BY DEF Direction
<1>11. Sent(c, l) <= Sent(c2, l) /\ (c.destroyed => c2.destroyed)
  BY <1>1
<1>12. \A q : DataOf(l, q) => DataOf(l, q)
  OBVIOUS
<1> QED BY <1>7, <1>8, <1>9, <1>10, <1>11, <1>12, SenderMoves


\* SendData takes the next message, or the end, and makes a packet of it.
MakesData(c, l, c2, p) ==
  /\ p = DataPacket(c, l, IF c.out = <<>> THEN Eof ELSE Head(c.out))
  /\ c2.out = (IF c.out = <<>> THEN c.out ELSE Tail(c.out))
  /\ c2.sentShutdown = (c.sentShutdown \/ c.out = <<>>)
  /\ c2.shut = c.shut /\ c2.destroy = c.destroy /\ c2.destroyed = c.destroyed
  /\ c2.next = Following(c.next) /\ c2.unacked = c.unacked \union {p} /\ c2.remote = c.remote

\* SendData makes the next packet, that the receiver has room for.
LEMMA DataMade ==
  ASSUME NEW c, NEW l, NEW D, NEW m, NEW toD, NEW toC, Direction({c}, l, D, m, toD, toC),
         Shapes({c}, l, D, m), NEW c2, Shapes({c2}, l, D, m), HasPacketWaiting(c),
         NEW p, MakesData(c, l, c2, p),
         NEW toD2, toD2 \subseteq toD \union {p}, NEW toC2, toC2 \subseteq toC
  PROVE  Direction({c2}, l, D, m, toD2, toC2)
<1> USE DEF MakesData
<1> DEFINE s == Sent(c, l)
<1>1. /\ s \in Int /\ Len(l.wrote) \in Nat /\ Len(c.out) \in Nat /\ c.out \in Seq(Message)
      /\ Half \in Nat /\ Window \in Nat /\ Window + 1 < Half
  BY CountsAreInts, Space DEF Shapes, IsConn, Shaped
<1>2. SenderOK(c, l) /\ WindowOK({c}, l, D, m) /\ \A d \in D : PairOK(c, l, d, m)
  BY DEF Direction
<1>3. PICK r \in Nat : AckedTo(c, l, r) /\ \A d \in D : Talking(d) => r <= Got(d, m)
  BY <1>2 DEF WindowOK
<1>4. c.remote = Num(r) /\ c.next = Num(s) /\ r <= s /\ s <= r + Window + 1
  BY <1>2, <1>3 DEF AckedTo, SenderOK
<1>5. s - r <= Window
  <2>1. Delta(c.next, c.remote) = s - r
    <3> HIDE DEF s, MakesData
    <3>1. s \in Int /\ r \in Int /\ s - r >= -Half /\ s - r < Half
      BY <1>1, <1>4
    <3>2. Delta(Num(s), Num(r)) = s - r
      BY <3>1, DeltaNum
    <3> QED BY <1>4, <3>2
  <2> QED BY <2>1 DEF HasPacketWaiting, WindowOpen
<1>6. p.nth = s /\ p.seq = c.next /\ p.kind = "Data"
      /\ p.item = IF c.out = <<>> THEN Eof ELSE Head(c.out)
  BY DEF DataPacket
<1>7. ~c.sentShutdown /\ s = Len(l.wrote) - Len(c.out)
  <2>1. ~c.sentShutdown
    BY <1>1, <1>2 DEF SenderOK, HasPacketWaiting
  <2> QED BY <1>1, <2>1 DEF Sent
<1>8. DataOf(l, p)
  <2>1. s \in Nat /\ p.seq = Num(p.nth)
    BY <1>1, <1>4, <1>6
  <2>2. CASE c.out = <<>>
    <3>1. c.shut /\ l.shut
      BY <1>2, <2>2 DEF HasPacketWaiting, SenderOK
    <3> QED BY <1>1, <1>6, <1>7, <2>1, <2>2, <3>1 DEF DataOf
  <2>3. CASE c.out # <<>>
    <3>1. Len(c.out) > 0 /\ Head(c.out) = c.out[1]
      BY <1>1, <2>3
    <3>2. 1 \in 1..Len(c.out)
      BY <1>1, <3>1
    <3>3. c.out[1] = l.wrote[Len(l.wrote) - Len(c.out) + 1]
      BY <1>2, <3>2 DEF SenderOK
    <3>4. p.nth = Len(l.wrote) - Len(c.out)
      BY <1>6, <1>7
    <3>5. p.item = l.wrote[p.nth + 1]
      BY <1>6, <2>3, <3>1, <3>3, <3>4
    <3>6. p.nth < Len(l.wrote)
      <4> DEFINE x == Len(l.wrote)
                 y == Len(c.out)
      <4>1. x \in Nat /\ y \in Nat /\ y > 0 /\ p.nth = x - y
        BY <1>1, <3>1, <3>4
      <4> HIDE DEF x, y
      <4>2. p.nth < x
        BY <4>1
      <4> QED BY <4>2 DEF x
    <3> QED BY <1>6, <2>1, <3>5, <3>6 DEF DataOf
  <2> QED BY <2>2, <2>3
<1>9. Len(c2.out) = (IF c.out = <<>> THEN 0 ELSE Len(c.out) - 1)
      /\ \A k \in 1..Len(c2.out) : c2.out[k] = c.out[k + 1]
  BY <1>1
<1>10. Sent(c2, l) = s + 1
  <2>1. CASE c.out = <<>>
    BY <1>1, <1>7, <1>9, <2>1 DEF Sent
  <2>2. CASE c.out # <<>>
    <3>1. ~c2.sentShutdown /\ Len(c2.out) = Len(c.out) - 1
      BY <1>7, <1>9, <2>2
    <3>2. Sent(c2, l) = Len(l.wrote) - (Len(c.out) - 1) + 0
      BY <3>1 DEF Sent
    <3> QED BY <1>1, <1>7, <3>2
  <2> QED BY <2>1, <2>2
<1> HIDE DEF s
<1>11. SenderOK(c2, l)
  <2>1. c2.next = Num(Sent(c2, l))
    BY <1>1, <1>4, <1>10, FollowingNum
  <2>2. \A q \in c2.unacked : DataOf(l, q) /\ q.nth < Sent(c2, l)
    <3> TAKE q \in c2.unacked
    <3>1. CASE q = p
      BY <1>1, <1>6, <1>8, <1>10, <3>1
    <3>2. CASE q \in c.unacked
      <4>1. DataOf(l, q) /\ q.nth < s /\ q.nth \in Nat
        BY <1>2, <3>2 DEF SenderOK, DataOf, s
      <4> QED BY <1>1, <1>10, <4>1
    <3> QED BY <3>1, <3>2
  <2>3. Len(c2.out) <= Len(l.wrote)
    BY <1>1, <1>2, <1>9 DEF SenderOK
  <2>4. \A k \in 1..Len(c2.out) : c2.out[k] = l.wrote[Len(l.wrote) - Len(c2.out) + k]
    <3> TAKE k \in 1..Len(c2.out)
    <3>1. c.out # <<>> /\ Len(c2.out) = Len(c.out) - 1
      BY <1>9
    <3>2. k + 1 \in 1..Len(c.out) /\ c2.out[k] = c.out[k + 1]
      <4>1. c2.out[k] = c.out[k + 1]
        BY <1>9
      <4>2. k \in 1..(Len(c.out) - 1)
        BY <3>1
      <4> QED BY <1>1, <4>1, <4>2
    <3>3. c.out[k + 1] = l.wrote[Len(l.wrote) - Len(c.out) + (k + 1)]
      BY <1>2, <3>2 DEF SenderOK
    <3>4. Len(l.wrote) - Len(c.out) + (k + 1) = Len(l.wrote) - Len(c2.out) + k
      <4> DEFINE x == Len(l.wrote)
                 y == Len(c.out)
                 z == Len(c2.out)
      <4>1. x \in Nat /\ y \in Nat /\ z = y - 1 /\ k \in Int
        BY <1>1, <3>1
      <4> HIDE DEF x, y, z
      <4>2. x - y + (k + 1) = x - z + k
        BY <4>1
      <4> QED BY <4>2 DEF x, y, z
    <3> QED BY <3>2, <3>3, <3>4
  <2>5. c2.sentShutdown => Len(c2.out) = 0 /\ c2.shut
    BY <1>1, <1>7, <1>9 DEF HasPacketWaiting
  <2> QED BY <1>2, <2>1, <2>2, <2>3, <2>4, <2>5 DEF SenderOK
<1>12. WindowOK({c2}, l, D, m)
  <2>1. AckedTo(c2, l, r)
    <3>1. \A q \in c2.unacked : r <= q.nth
      BY <1>3, <1>4, <1>6 DEF AckedTo
    <3> QED BY <1>1, <1>4, <1>5, <1>10, <3>1 DEF AckedTo
  <2> QED BY <1>3, <2>1 DEF WindowOK
<1>13. \A d \in D : PairOK(c2, l, d, m)
  <2> SUFFICES ASSUME NEW d \in D, Talking(d) PROVE PairOK(c2, l, d, m)
    BY DEF PairOK
  <2>1. /\ Got(d, m) <= s /\ \A q \in d.early : q.nth < s
        /\ \A n \in Nat : n < s => Has(d, m, n) \/ \E q \in c.unacked : q.nth = n
    BY <1>2 DEF PairOK, s
  <2>2. Got(d, m) \in Nat /\ \A q \in d.early : q.nth \in Int
    BY CountsAreInts DEF Shapes, IsConn, Shaped, IsData
  <2>3. \A n \in Nat : n < s + 1 => Has(d, m, n) \/ \E q \in c2.unacked : q.nth = n
    <3> SUFFICES ASSUME NEW n \in Nat, n < s + 1 PROVE Has(d, m, n) \/ \E q \in c2.unacked : q.nth = n
      OBVIOUS
    <3>1. CASE n < s
      BY <2>1, <3>1
    <3>2. CASE n = s
      BY <1>6, <3>2
    <3> QED BY <1>1, <3>1, <3>2
  <2> QED BY <1>1, <1>10, <2>1, <2>2, <2>3 DEF PairOK
<1>14. LogOK(l, m) /\ \A d \in D : ReceiverOK(d, m, l)
  BY DEF Direction
<1>15. Direction({c2}, l, D, m, toD, toC2)
  <2>1. Sent(c, l) <= Sent(c2, l)
    BY <1>1, <1>10 DEF s
  <2> QED BY <1>11, <1>12, <1>13, <1>14, <2>1, SenderMoves
<1>16. DataFor({c2}, l, D, m, p)
  <2>1. ASSUME NEW d \in D, Talking(d) PROVE p.nth <= Got(d, m) + Window
    <3>1. r <= Got(d, m) /\ Got(d, m) \in Nat
      BY <1>3, <2>1, CountsAreInts DEF Shapes
    <3> QED BY <1>1, <1>5, <1>6, <3>1
  <2> QED BY <1>1, <1>6, <1>8, <1>10, <2>1 DEF DataFor
<1>17. p # GoodbyePacket
  BY <1>6 DEF GoodbyePacket
<1> QED BY <1>15, <1>16, <1>17, NetGrows

\* What the log may gain: a message more, or the end.
LEMMA Wrote ==
  ASSUME NEW c, NEW l, NEW D, NEW m, NEW toD, NEW toC, Direction({c}, l, D, m, toD, toC),
         Shapes({c}, l, D, m), NEW c2, NEW l2, Shapes({c2}, l2, D, m), NEW x \in Message,
         ~c.shut, l2.wrote = Append(l.wrote, x), l2.shut = l.shut,
         c2.out = Append(c.out, x),
         c2.shut = c.shut, c2.destroy = c.destroy, c2.destroyed = c.destroyed, c2.sentShutdown = c.sentShutdown,
         c2.next = c.next, c2.unacked = c.unacked, c2.remote = c.remote
  PROVE  Direction({c2}, l2, D, m, toD, toC)
<1> DEFINE w == Len(l.wrote)
           o == Len(c.out)
<1>1. /\ w \in Nat /\ o \in Nat /\ c.out \in Seq(Message) /\ l.wrote \in Seq(Message)
  BY CountsAreInts DEF Shapes, IsConn, Shaped, LogRecord
<1>2. SenderOK(c, l) /\ WindowOK({c}, l, D, m) /\ \A d \in D : PairOK(c, l, d, m)
  BY DEF Direction
<1>3. ~c.sentShutdown /\ ~l.shut /\ o <= w
  BY <1>2 DEF SenderOK
<1>4. /\ Len(l2.wrote) = w + 1 /\ l2.wrote[w + 1] = x
      /\ \A k \in 1..w : l2.wrote[k] = l.wrote[k]
      /\ Len(c2.out) = o + 1 /\ c2.out[o + 1] = x
      /\ \A k \in 1..o : c2.out[k] = c.out[k]
  BY <1>1
<1>5. Sent(c, l) = w - o /\ Sent(c2, l2) = w - o
  <2>1. Sent(c, l) = w - o + 0 /\ Sent(c2, l2) = (w + 1) - (o + 1) + 0
    BY <1>3, <1>4 DEF Sent
  <2> HIDE DEF w, o
  <2> QED BY <1>1, <2>1
<1>6. \A q : DataOf(l, q) => DataOf(l2, q)
  <2> SUFFICES ASSUME NEW q, DataOf(l, q) PROVE DataOf(l2, q)
    OBVIOUS
  <2>1. q.nth \in Nat /\ q.seq = Num(q.nth) /\ q.nth < w /\ q.item = l.wrote[q.nth + 1]
    BY <1>3 DEF DataOf
  <2> HIDE DEF w
  <2>2. q.nth + 1 \in 1..w /\ q.nth < w + 1
    BY <1>1, <2>1
  <2> QED BY <1>4, <2>1, <2>2 DEF DataOf
<1>7. SenderOK(c2, l2)
  <2>1. \A q \in c2.unacked : DataOf(l2, q) /\ q.nth < Sent(c2, l2)
    BY <1>2, <1>5, <1>6 DEF SenderOK
  <2>2. ASSUME NEW k \in 1..Len(c2.out)
        PROVE  c2.out[k] = l2.wrote[Len(l2.wrote) - Len(c2.out) + k]
    <3>1. \A j \in 1..o : c.out[j] = l.wrote[w - o + j]
      BY <1>2 DEF SenderOK
    <3> HIDE DEF w, o
    <3>2. Len(l2.wrote) - Len(c2.out) + k = w - o + k
      BY <1>1, <1>4
    <3>3. CASE k \in 1..o
      <4>1. w - o + k \in 1..w
        BY <1>1, <1>3, <3>3
      <4> QED BY <1>4, <3>1, <3>2, <3>3, <4>1
    <3>4. CASE k = o + 1
      <4>1. w - o + k = w + 1
        BY <1>1, <3>4
      <4> QED BY <1>4, <3>2, <3>4, <4>1
    <3>5. k \in 1..(o + 1)
      BY <1>4
    <3>6. k \in 1..o \/ k = o + 1
      BY <1>1, <3>5
    <3> QED BY <3>3, <3>4, <3>6
  <2>3. Len(c2.out) <= Len(l2.wrote)
    <3> HIDE DEF w, o
    <3> QED BY <1>1, <1>3, <1>4
  <2>4. c2.next = Num(Sent(c2, l2)) /\ l2.shut = c2.shut
    BY <1>2, <1>5 DEF SenderOK
  <2> QED BY <1>2, <1>3, <2>1, <2>2, <2>3, <2>4 DEF SenderOK
<1>8. WindowOK({c2}, l2, D, m) /\ \A d \in D : PairOK(c2, l2, d, m)
  BY <1>2, <1>5 DEF WindowOK, AckedTo, PairOK
<1>9. LogOK(l2, m)
  <2>1. Len(m.handed) \in Nat /\ Len(m.handed) <= w /\ \A k \in 1..Len(m.handed) : m.handed[k] = l.wrote[k]
    BY CountsAreInts DEF Direction, LogOK, Shapes, LogRecord
  <2> HIDE DEF w
  <2>2. Len(m.handed) <= w + 1 /\ \A k \in 1..Len(m.handed) : k \in 1..w
    BY <1>1, <2>1
  <2> QED BY <1>4, <2>1, <2>2 DEF LogOK
<1>10. \A d \in D : ReceiverOK(d, m, l2)
  <2> TAKE d \in D
  <2>1. ReceiverOK(d, m, l)
    BY DEF Direction
  <2>2. Len(m.handed) \in Nat /\ Len(d.input) \in Nat
    BY CountsAreInts DEF Shapes
  <2>3. ASSUME ~d.destroyed
        PROVE  /\ Len(m.handed) + Len(d.input) <= Len(l2.wrote)
               /\ \A k \in 1..Len(d.input) : d.input[k] = l2.wrote[Len(m.handed) + k]
    <3> DEFINE h == Len(m.handed)
               i == Len(d.input)
    <3>1. h + i <= w /\ (\A k \in 1..i : d.input[k] = l.wrote[h + k]) /\ h \in Nat /\ i \in Nat
      BY <2>1, <2>2, <2>3 DEF ReceiverOK
    <3> HIDE DEF w, h, i
    <3>2. h + i <= w + 1 /\ \A k \in 1..i : h + k \in 1..w
      BY <1>1, <3>1
    <3>3. h + i <= Len(l2.wrote) /\ \A k \in 1..i : d.input[k] = l2.wrote[h + k]
      BY <1>4, <3>1, <3>2
    <3> QED BY <3>3 DEF h, i
  <2>4. Talking(d) => ~d.eof
    BY <1>3, <2>1 DEF ReceiverOK
  <2> QED BY <1>6, <2>1, <2>3, <2>4 DEF ReceiverOK
<1>11. Sent(c, l) <= Sent(c2, l2)
  <2>1. Sent(c, l) \in Int
    BY CountsAreInts DEF Shapes
  <2> QED BY <1>5, <2>1
<1> QED BY <1>6, <1>7, <1>8, <1>9, <1>10, <1>11, SenderMoves

\* Shutdown ends what is written.
LEMMA Shut ==
  ASSUME NEW c, NEW l, NEW D, NEW m, NEW toD, NEW toC, Direction({c}, l, D, m, toD, toC),
         Shapes({c}, l, D, m), NEW c2, NEW l2, Shapes({c2}, l2, D, m),
         l2.wrote = l.wrote, l2.shut = TRUE, c2.shut = TRUE, c2.destroy = TRUE,
         c2.out = c.out, c2.destroyed = c.destroyed, c2.sentShutdown = c.sentShutdown,
         c2.next = c.next, c2.unacked = c.unacked, c2.remote = c.remote
  PROVE  Direction({c2}, l2, D, m, toD, toC)
<1>1. Sent(c, l) \in Int /\ Sent(c2, l2) = Sent(c, l)
  BY CountsAreInts DEF Shapes, Sent
<1>2. SenderOK(c, l) /\ WindowOK({c}, l, D, m) /\ \A d \in D : PairOK(c, l, d, m)
  BY DEF Direction
<1>3. \A q : DataOf(l, q) => DataOf(l2, q)
  BY DEF DataOf
<1>4. SenderOK(c2, l2)
  <2>1. \A q \in c2.unacked : DataOf(l2, q) /\ q.nth < Sent(c2, l2)
    BY <1>1, <1>2, <1>3 DEF SenderOK
  <2> QED BY <1>1, <1>2, <2>1 DEF SenderOK
<1>5. WindowOK({c2}, l2, D, m) /\ \A d \in D : PairOK(c2, l2, d, m)
  BY <1>1, <1>2 DEF WindowOK, AckedTo, PairOK
<1>6. LogOK(l2, m)
  BY DEF Direction, LogOK
<1>7. \A d \in D : ReceiverOK(d, m, l2)
  <2> TAKE d \in D
  <2>1. ReceiverOK(d, m, l)
    BY DEF Direction
  <2> QED BY <1>3, <2>1 DEF ReceiverOK
<1>8. Sent(c, l) <= Sent(c2, l2)
  BY <1>1
<1> QED BY <1>3, <1>4, <1>5, <1>6, <1>7, <1>8, SenderMoves

\* No message is the empty packet.
LEMMA MessageIsNotEof == \A x \in Message : x # Eof
BY DEF Message, Eof

\* A packet in the window takes its place, and all that is in order is consumed.
LEMMA DataTaken ==
  ASSUME NEW C, NEW l, NEW d, NEW m, NEW toD, NEW toC, Direction(C, l, {d}, m, toD, toC),
         Shapes(C, l, {d}, m), Talking(d), NEW p \in toD, IsData(p), Got(d, m) - p.nth <= Half,
         ~OutOfWindow(d, p), ~Early(d, p)
  PROVE  Direction(C, l, {Drain([d EXCEPT !.early = @ \union {p}])}, m, toD, toC)
<1> DEFINE b0 == [d EXCEPT !.early = @ \union {p}]
           d2 == Drain(b0)
           g == Got(d, m)
           h == Len(m.handed)
           i == Len(d.input)
           w == Len(l.wrote)
           n == Consumed(b0)
           t == Taken(b0, n)
<1>1. IsConn(d) /\ l \in LogRecord /\ m \in LogRecord /\ DOMAIN d = ConnFields
  BY DEF Shapes, IsConn, Shaped
<1>2. /\ h \in Nat /\ i \in Nat /\ w \in Nat /\ g \in Nat
      /\ Half \in Nat /\ Window \in Nat /\ Window + 1 < Half
      /\ \A c \in C : Sent(c, l) \in Int
  BY <1>1, CountsAreInts, Space DEF Shapes
<1>3. ReceiverOK(d, m, l) /\ NetOK(C, l, {d}, m, toD, toC) /\ \A c \in C : PairOK(c, l, d, m)
  BY DEF Direction
<1>4. /\ d.expected = Num(g)
      /\ d.eof => l.shut /\ h + i = w
      /\ \A q \in d.early : DataOf(l, q) /\ g < q.nth /\ q.nth <= g + Window
      /\ \A q, r \in d.early : q.nth = r.nth => q = r
      /\ h + i <= w /\ \A k \in 1..i : d.input[k] = l.wrote[h + k]
      /\ d.dispatchedEof => d.eof
      /\ ~d.dispatchedEof => m.notice = "None"
  BY <1>3 DEF ReceiverOK, Talking
<1>5. DataOf(l, p) /\ p.nth <= g + Window /\ \A c \in C : p.nth < Sent(c, l)
  BY <1>3 DEF NetOK, DataFor, IsData
<1>6. Shaped(b0) /\ b0.early = d.early \union {p} /\ b0.expected = d.expected /\ b0.eof = d.eof
      /\ b0.input = d.input
      /\ \A f \in ConnFields \ {"early"} : b0[f] = d[f]
  <2>1. Shaped(b0)
    BY <1>1 DEF IsConn, Shaped, ConnFields
  <2> QED BY <1>1, <2>1 DEF ConnFields
<1>7. p.nth \in Nat /\ g <= p.nth
  <2>1. p.nth \in Nat /\ p.seq = Num(p.nth)
    BY <1>5 DEF DataOf
  <2>2. p.nth - g >= -Half /\ p.nth - g < Half
    <3>1. g - p.nth <= Half
      OBVIOUS
    <3> HIDE DEF g
    <3> QED BY <1>2, <1>5, <2>1, <3>1
  <2>3. Delta(p.seq, d.expected) = p.nth - g
    BY <1>2, <1>4, <2>1, <2>2, DeltaNum
  <2>4. p.nth - g >= 0
    BY <2>3, <2>2, <1>2, <2>1 DEF OutOfWindow
  <2> HIDE DEF g
  <2> QED BY <1>2, <2>1, <2>4
<1>8. \A q \in b0.early : /\ DataOf(l, q) /\ q.nth \in Nat /\ q.seq = Num(q.nth)
                          /\ g <= q.nth /\ q.nth <= g + Window
  <2> TAKE q \in b0.early
  <2>1. CASE q = p
    BY <1>5, <1>7, <2>1 DEF DataOf
  <2>2. CASE q \in d.early
    <3>1. DataOf(l, q) /\ q.nth \in Nat /\ q.seq = Num(q.nth) /\ g < q.nth /\ q.nth <= g + Window
      BY <1>4, <2>2 DEF DataOf
    <3> HIDE DEF g, b0
    <3> QED BY <1>2, <3>1
  <2> HIDE DEF b0
  <2> QED BY <1>6, <2>1, <2>2
<1>9. \A q \in b0.early : Delta(q.seq, b0.expected) = q.nth - g
  <2> TAKE q \in b0.early
  <2>1. q.nth \in Nat /\ q.seq = Num(q.nth) /\ g <= q.nth /\ q.nth <= g + Window
    BY <1>8
  <2>2. q.nth - g >= -Half /\ q.nth - g < Half
    <3> HIDE DEF g, b0
    <3> QED BY <1>2, <2>1
  <2> QED BY <1>2, <1>4, <1>6, <2>1, <2>2, DeltaNum
<1>10. \A q, r \in b0.early : q.nth = r.nth => q = r
  <2> SUFFICES ASSUME NEW q \in b0.early, NEW r \in b0.early, q.nth = r.nth PROVE q = r
    OBVIOUS
  <2>1. q.seq = r.seq
    BY <1>8
  <2> HIDE DEF b0
  <2>2. CASE q = p /\ r \in d.early
    BY <2>1, <2>2 DEF Early
  <2>3. CASE r = p /\ q \in d.early
    BY <2>1, <2>3 DEF Early
  <2>4. CASE q \in d.early /\ r \in d.early
    BY <1>4, <2>4
  <2> QED BY <1>6, <2>2, <2>3, <2>4
<1>11. n \in Nat /\ Consumable(b0, n) /\ ~Consumable(b0, n + 1)
  BY <1>6, ConsumedIs
<1>12. ASSUME NEW k \in 0..(n - 1)
       PROVE  /\ \E q \in b0.early : q.nth = g + k /\ Item(b0, k) = q.item
              /\ Item(b0, k) # Eof => g + k < w /\ Item(b0, k) = l.wrote[g + k + 1]
              /\ Item(b0, k) = Eof => g + k = w /\ l.shut
  <2>1. PICK q \in InPlace(b0, k) : Item(b0, k) = q.item
    BY <1>11, ItemIs
  <2>2. q \in b0.early /\ q.nth - g = k
    BY <1>9, <2>1 DEF InPlace
  <2>3. q.nth = g + k /\ DataOf(l, q)
    <3>1. q.nth \in Nat /\ DataOf(l, q)
      BY <1>8, <2>2
    <3> HIDE DEF g, n, b0
    <3> QED BY <1>2, <2>2, <3>1
  <2>4. l.wrote \in Seq(Message) /\ q.nth \in Nat
    BY <1>1, <2>3 DEF LogRecord, DataOf
  <2>5. q.nth < w => l.wrote[q.nth + 1] # Eof
    <3> SUFFICES ASSUME q.nth < w PROVE l.wrote[q.nth + 1] \in Message
      BY MessageIsNotEof
    <3>1. q.nth + 1 \in 1..w
      <4> HIDE DEF w
      <4> QED BY <1>2, <2>4
    <3> QED BY <2>4, <3>1
  <2> HIDE DEF g, n, b0, w
  <2>6. Item(b0, k) = q.item /\ ((q.nth < w /\ q.item = l.wrote[q.nth + 1]) \/ (q.nth = w /\ q.item = Eof /\ l.shut))
    BY <2>1, <2>3 DEF DataOf, w
  <2>7. g + k + 1 = q.nth + 1
    BY <2>3
  <2> QED BY <2>2, <2>3, <2>5, <2>6, <2>7
<1>13. n > 0 => ~d.eof
  <2> SUFFICES ASSUME n > 0 PROVE ~b0.eof
    BY <1>6
  <2>1. n - 1 \in 0..(n - 1)
    BY <1>11
  <2> QED BY <1>11, <2>1, ItemIs
<1>14. t \in Nat /\ t = (IF Ends(b0, n) THEN n - 1 ELSE n)
  BY <1>11 DEF Taken, Ends
<1>15. ASSUME NEW k \in 0..(t - 1) PROVE k \in 0..(n - 1) /\ Item(b0, k) # Eof
  <2>1. k \in 0..(n - 1)
    <3> HIDE DEF n, t, b0
    <3> QED BY <1>11, <1>14, <1>15
  <2>2. CASE k = n - 1
    <3>1. ~Ends(b0, n)
      <4> HIDE DEF n, t, b0
      <4> QED BY <1>11, <1>14, <1>15, <2>2
    <3>2. n > 0
      <4> HIDE DEF n, t, b0
      <4> QED BY <1>11, <2>1
    <3> QED BY <2>1, <2>2, <3>1, <3>2 DEF Ends
  <2>3. CASE k # n - 1
    <3>1. k + 1 \in 0..(n - 1) /\ k + 1 > 0 /\ (k + 1) - 1 = k
      <4> HIDE DEF n, t, b0
      <4> QED BY <1>11, <2>1, <2>3
    <3>2. Item(b0, (k + 1) - 1) # Eof
      BY <1>11, <3>1, ItemIs
    <3> QED BY <2>1, <3>1, <3>2
  <2> QED BY <2>2, <2>3
<1>16. ~d.eof => g = h + i
  <2> SUFFICES ASSUME ~d.eof PROVE g = h + i
    OBVIOUS
  <2>1. g = h + i + 0
    BY DEF Got
  <2> HIDE DEF g, h, i
  <2> QED BY <1>2, <2>1
<1>17. h + i + t <= w
  <2>1. CASE t = 0
    <3>1. h + i <= w
      BY <1>4
    <3> HIDE DEF h, i, t, w
    <3> QED BY <1>2, <2>1, <3>1
  <2>2. CASE t > 0
    <3>1. t - 1 \in 0..(t - 1) /\ n > 0
      <4> HIDE DEF n, t, b0
      <4> QED BY <1>11, <1>14, <2>2
    <3>2. g + (t - 1) < w /\ g = h + i
      BY <1>12, <1>13, <1>15, <1>16, <3>1
    <3> HIDE DEF g, h, i, t, w
    <3> QED BY <1>2, <1>14, <3>2
  <2>3. t \in Nat
    BY <1>14
  <2> HIDE DEF h, i, t, w
  <2>4. t = 0 \/ t > 0
    BY <2>3
  <2> QED BY <2>1, <2>2, <2>4
<1>18. /\ Drain(b0).input = d.input \o More(b0, n) /\ DOMAIN d2 = ConnFields
       /\ d2.expected = (d.expected + n) % SeqSpace
       /\ d2.eof = (d.eof \/ Ends(b0, n) \/ Overflows(b0, n))
       /\ d2.state = (IF Overflows(b0, n) THEN "Errored" ELSE d.state)
       /\ d2.early = Rest(b0, n)
       /\ d2.dispatchedEof = d.dispatchedEof /\ d2.destroyed = d.destroyed /\ d2.unacked = d.unacked
  <2>1. b0.state = d.state /\ b0.dispatchedEof = d.dispatchedEof /\ b0.destroyed = d.destroyed /\ b0.unacked = d.unacked
    BY <1>6 DEF ConnFields
  <2>2. DOMAIN d2 = ConnFields /\ d2.dispatchedEof = b0.dispatchedEof /\ d2.destroyed = b0.destroyed
        /\ d2.unacked = b0.unacked
    <3>1. DOMAIN d2 = ConnFields
          /\ \A f \in ConnFields \ {"expected", "input", "eof", "state", "early"} : d2[f] = b0[f]
      BY <1>6, DrainIs
    <3> HIDE DEF d2, b0
    <3> QED BY <3>1 DEF ConnFields
  <2>3. /\ d2.input = b0.input \o More(b0, n)
        /\ d2.expected = (b0.expected + n) % SeqSpace
        /\ d2.eof = (b0.eof \/ Ends(b0, n) \/ Overflows(b0, n))
        /\ d2.state = (IF Overflows(b0, n) THEN "Errored" ELSE b0.state)
        /\ d2.early = Rest(b0, n)
    BY <1>6, DrainIs
  <2> HIDE DEF b0, n, d2
  <2> QED BY <1>6, <2>1, <2>2, <2>3 DEF d2
<1>19. IsConn(d2)
  BY <1>6, DrainIsConn
<1>20. /\ Len(d2.input) = i + t
       /\ \A k \in 1..i : d2.input[k] = d.input[k]
       /\ \A k \in 1..t : d2.input[i + k] = Item(b0, k - 1)
  <2>1. d.input \in Seq(Content)
    BY <1>1 DEF IsConn, Shaped
  <2> DEFINE more == [x \in 1..t |-> Item(b0, x - 1)]
  <2>2. More(b0, n) = more /\ d2.input = d.input \o More(b0, n)
    BY <1>18 DEF More
  <2>3. \A k \in 1..t : k - 1 \in 0..(t - 1)
    <3> HIDE DEF t
    <3> QED BY <1>14
  <2>4. \A k \in 1..t : Item(b0, k - 1) \in Content
    <3> TAKE k \in 1..t
    <3>1. k - 1 \in 0..(n - 1)
      BY <1>15, <2>3
    <3>2. PICK q \in b0.early : Item(b0, k - 1) = q.item
      BY <1>12, <3>1
    <3> QED BY <1>6, <3>2 DEF Shaped, IsData
  <2>5. more \in Seq(Content) /\ Len(more) = t
    <3>1. t \in Nat
      BY <1>14
    <3> HIDE DEF t, n, b0
    <3> QED BY <2>4, <3>1
  <2> HIDE DEF t, n, b0, d2, more
  <2>6. \A k \in 1..t : more[k] = Item(b0, k - 1)
    BY DEF more
  <2>7. t \in Nat /\ d2.input = d.input \o more /\ Len(d.input) = i /\ i \in Nat
    BY <1>2, <1>14, <2>2
  <2> DEFINE s == d.input
             u == d2.input
  <2> HIDE DEF i
  <2>8. s \in Seq(Content) /\ u = s \o more /\ Len(s) = i
    BY <2>1, <2>7 DEF d2
  <2> HIDE DEF s, u
  <2>9. /\ Len(s \o more) = Len(s) + Len(more)
        /\ \A k \in 1..Len(s) : (s \o more)[k] = s[k]
        /\ \A k \in 1..Len(more) : (s \o more)[Len(s) + k] = more[k]
    <3>1. s \in Seq(Content) /\ more \in Seq(Content)
      BY <2>5, <2>8
    <3>2. Len(s \o more) = Len(s) + Len(more)
      BY <3>1
    <3>3. \A k \in 1..Len(s) : (s \o more)[k] = s[k]
      BY <3>1
    <3>4. ASSUME NEW k \in 1..Len(more) PROVE (s \o more)[Len(s) + k] = more[k]
      BY <3>1
    <3> QED BY <3>2, <3>3, <3>4
  <2>10. Len(u) = i + t /\ (\A k \in 1..i : u[k] = s[k]) /\ \A k \in 1..t : u[i + k] = Item(b0, k - 1)
    BY <2>5, <2>6, <2>8, <2>9
  <2> QED BY <2>10 DEF s, u
<1>21. \A k \in 1..Len(d2.input) : d2.input[k] = l.wrote[h + k]
  <2> TAKE k \in 1..Len(d2.input)
  <2>1. CASE k \in 1..i
    BY <1>4, <1>20, <2>1
  <2>2. CASE k \notin 1..i
    <3>1. k - i \in 1..t /\ (k - i) - 1 \in 0..(t - 1) /\ i + (k - i) = k /\ t > 0
      <4>1. k \in 1..(i + t)
        BY <1>20
      <4>2. t \in Nat /\ i \in Nat
        BY <1>2, <1>14
      <4> HIDE DEF i, t
      <4> QED BY <2>2, <4>1, <4>2
    <3>2. Item(b0, (k - i) - 1) # Eof /\ (k - i) - 1 \in 0..(n - 1)
      BY <1>15, <3>1
    <3>3. d2.input[k] = Item(b0, (k - i) - 1)
      <4>1. d2.input[i + (k - i)] = Item(b0, (k - i) - 1)
        BY <1>20, <3>1
      <4> QED BY <3>1, <4>1
    <3>4. Item(b0, (k - i) - 1) = l.wrote[g + ((k - i) - 1) + 1]
      BY <1>12, <3>2
    <3>5. g = h + i
      <4>1. n > 0
        <5> HIDE DEF n, i, b0, t
        <5> QED BY <1>11, <3>2
      <4> QED BY <1>13, <1>16, <4>1
    <3>6. g + ((k - i) - 1) + 1 = h + k
      <4> HIDE DEF g, h, i
      <4> QED BY <1>2, <3>5
    <3> QED BY <3>3, <3>4, <3>6
  <2> QED BY <2>1, <2>2
<1>22. Num(g + n) = d2.expected
  <2>1. (Num(g) + n) % SeqSpace = Num(g + n)
    BY <1>2, <1>11, NumPlus
  <2> QED BY <1>4, <1>18, <2>1
<1>23. ASSUME Ends(b0, n) PROVE /\ n > 0 /\ ~d.eof /\ t = n - 1 /\ l.shut /\ g + t = w
  <2>1. n > 0 /\ Item(b0, n - 1) = Eof /\ n - 1 \in 0..(n - 1)
    BY <1>11, <1>23 DEF Ends
  <2>2. g + (n - 1) = w /\ l.shut
    BY <1>12, <2>1
  <2> QED BY <1>13, <1>14, <1>23, <2>1, <2>2
<1>24. ASSUME ~Overflows(b0, n) PROVE Got(d2, m) = g + n
  <2>1. Got(d2, m) = h + (i + t) + (IF d2.eof THEN 1 ELSE 0)
    BY <1>20 DEF Got
  <2>2. CASE Ends(b0, n)
    <3>1. d2.eof /\ g = h + i /\ t = n - 1
      BY <1>16, <1>18, <1>23, <2>2
    <3>2. Got(d2, m) = h + (i + t) + 1
      BY <2>1, <3>1
    <3> HIDE DEF g, h, i, t, n, d2
    <3> QED BY <1>2, <1>11, <3>1, <3>2
  <2>3. CASE ~Ends(b0, n) /\ ~d.eof
    <3>1. ~d2.eof /\ g = h + i /\ t = n
      BY <1>14, <1>16, <1>18, <1>24, <2>3
    <3>2. Got(d2, m) = h + (i + t) + 0
      BY <2>1, <3>1
    <3> HIDE DEF g, h, i, t, n, d2
    <3> QED BY <1>2, <1>11, <3>1, <3>2
  <2>4. CASE ~Ends(b0, n) /\ d.eof
    <3>1. d2.eof /\ n = 0 /\ t = n
      <4>1. d2.eof /\ ~(n > 0) /\ t = n
        BY <1>13, <1>14, <1>18, <2>4
      <4> HIDE DEF n
      <4> QED BY <1>11, <4>1
    <3>2. Got(d2, m) = h + (i + t) + 1 /\ g = h + i + 1
      BY <2>1, <2>4, <3>1 DEF Got
    <3> HIDE DEF g, h, i, t, n, d2
    <3> QED BY <1>2, <1>11, <3>1, <3>2
  <2> QED BY <2>2, <2>3, <2>4
<1>25. ASSUME ~Overflows(b0, n), ~Ends(b0, n), ~d.eof PROVE \A q \in b0.early : q.nth # g + n
  <2> SUFFICES ASSUME NEW q \in b0.early, q.nth = g + n PROVE FALSE
    OBVIOUS
  <2>1. q \in InPlace(b0, n)
    <3>1. q.nth - g = n
      <4> HIDE DEF g, n
      <4> QED BY <1>2, <1>11
    <3> QED BY <1>9, <3>1 DEF InPlace
  <2>2. ~EndsBy(b0, n)
    BY <1>6, <1>25 DEF EndsBy, Overflows, Ends
  <2>3. Consumable(b0, n + 1)
    <3>1. \A x \in 0..((n + 1) - 1) : x \in 0..(n - 1) \/ x = n
      <4> HIDE DEF n
      <4> QED BY <1>11
    <3> HIDE DEF n, b0
    <3> QED BY <1>11, <2>1, <2>2, <3>1 DEF Consumable
  <2> QED BY <1>11, <2>3
<1> HIDE DEF g, h, i, w, n, t, b0, d2
<1>26. \A q \in d2.early : /\ q \in b0.early /\ ~d.eof /\ ~Ends(b0, n) /\ ~Overflows(b0, n)
                           /\ q.nth \in Nat /\ g + n < q.nth /\ q.nth <= g + n + Window
  <2> TAKE q \in d2.early
  <2>1. q \in b0.early /\ ~d.eof /\ ~Ends(b0, n) /\ ~Overflows(b0, n) /\ Delta(q.seq, b0.expected) >= n
    BY <1>6, <1>18 DEF Rest
  <2>2. q.nth - g >= n /\ q.nth # g + n /\ q.nth \in Nat /\ q.nth <= g + Window
    BY <1>8, <1>9, <1>25, <2>1
  <2> QED BY <1>2, <1>11, <2>1, <2>2
<1>27. ReceiverOK(d2, m, l)
  <2>1. d2.dispatchedEof => d2.eof
    BY <1>4, <1>18 DEF d2
  <2>2. ~d2.dispatchedEof => m.notice = "None"
    BY <1>4, <1>18
  <2>3. h + Len(d2.input) <= w
    BY <1>2, <1>14, <1>17, <1>20
  <2>4. ASSUME Talking(d2)
        PROVE  /\ d2.expected = Num(Got(d2, m))
               /\ d2.eof => l.shut /\ h + Len(d2.input) = w
               /\ \A q \in d2.early : DataOf(l, q) /\ Got(d2, m) < q.nth /\ q.nth <= Got(d2, m) + Window
               /\ \A q, r \in d2.early : q.nth = r.nth => q = r
    <3>1. ~Overflows(b0, n) /\ Got(d2, m) = g + n
      BY <1>18, <1>24, <2>4 DEF Talking
    <3>2. ASSUME d2.eof PROVE l.shut /\ h + Len(d2.input) = w
      <4>1. CASE Ends(b0, n)
        <5>1. l.shut /\ g + t = w /\ g = h + i
          BY <1>16, <1>23, <4>1
        <5> QED BY <1>2, <1>14, <1>20, <5>1
      <4>2. CASE ~Ends(b0, n)
        <5>1. d.eof
          BY <1>18, <3>1, <3>2, <4>2
        <5>2. t = 0 /\ l.shut /\ h + i = w
          BY <1>4, <1>11, <1>13, <1>14, <4>2, <5>1
        <5> QED BY <1>2, <1>20, <5>2
      <4> QED BY <4>1, <4>2
    <3> QED BY <1>8, <1>10, <1>22, <1>26, <3>1, <3>2
  <2> QED BY <1>21, <2>1, <2>2, <2>3, <2>4 DEF ReceiverOK, h, w
<1>28. Advances(d, m, d2, m)
  <2> SUFFICES ASSUME Talking(d2) PROVE Advances(d, m, d2, m)
    BY DEF Advances
  <2>1. ~Overflows(b0, n) /\ Got(d2, m) = g + n /\ g = Got(d, m)
    BY <1>18, <1>24 DEF Talking, g
  <2>2. g <= g + n
    BY <1>2, <1>11
  <2>3. ASSUME NEW x \in Int, Has(d, m, x) PROVE Has(d2, m, x)
    <3>1. CASE x < g + n
      BY <2>1, <3>1 DEF Has
    <3>2. CASE ~(x < g + n)
      <4>1. ~(x < g)
        BY <1>2, <1>11, <3>2
      <4>2. PICK q \in d.early : q.nth = x
        BY <2>1, <2>3, <4>1 DEF Has
      <4>3. q \in b0.early /\ q.nth \in Nat /\ DataOf(l, q) /\ Delta(q.seq, b0.expected) = q.nth - g
        BY <1>6, <1>8, <1>9, <4>2
      <4>4. ~d.eof
        <5>1. BeforeErrored(d)
          BY DEF Talking, BeforeErrored
        <5> QED BY <1>1, <4>2, <5>1 DEF IsConn
      <4>5. ~Ends(b0, n)
        <5> SUFFICES ASSUME Ends(b0, n) PROVE FALSE
          OBVIOUS
        <5>1. g + (n - 1) = w /\ q.nth <= w
          BY <1>2, <1>23, <4>3 DEF DataOf, w
        <5> QED BY <1>2, <1>11, <3>2, <4>2, <5>1
      <4>6. q.nth - g >= n
        BY <1>2, <1>11, <3>2, <4>2
      <4>7. q \in d2.early
        BY <1>6, <1>18, <2>1, <4>3, <4>4, <4>5, <4>6 DEF Rest
      <4> QED BY <4>2, <4>7 DEF Has
    <3> QED BY <3>1, <3>2
  <2> QED BY <1>18, <2>1, <2>2, <2>3 DEF Advances
<1>29. ASSUME NEW c \in C, Talking(d2)
       PROVE  Got(d2, m) <= Sent(c, l) /\ \A q \in d2.early : q.nth < Sent(c, l)
  <2>1. PairOK(c, l, d, m) /\ p.nth < Sent(c, l) /\ Sent(c, l) \in Int
    BY <1>2, <1>3, <1>5
  <2>2. g <= Sent(c, l) /\ \A q \in b0.early : q.nth < Sent(c, l)
    BY <1>6, <2>1 DEF PairOK, g
  <2>3. Got(d2, m) = g + n
    BY <1>18, <1>24, <1>29 DEF Talking
  <2>4. g + n <= Sent(c, l)
    <3>1. CASE n = 0
      BY <1>2, <2>2, <3>1
    <3>2. CASE n > 0
      <4>1. n - 1 \in 0..(n - 1)
        BY <1>11, <3>2
      <4>2. PICK q \in b0.early : q.nth = g + (n - 1)
        BY <1>12, <4>1
      <4>3. q.nth < Sent(c, l)
        BY <2>2
      <4> QED BY <1>2, <1>11, <2>1, <4>2, <4>3
    <3> QED BY <1>11, <3>1, <3>2
  <2> QED BY <1>26, <2>2, <2>3, <2>4
<1>30. Shapes(C, l, {d2}, m)
  BY <1>19 DEF Shapes
<1>31. LogOK(l, m)
  BY DEF Direction
<1>32. \A x \in d2.unacked : x \in d.unacked
  BY <1>18
<1>33. Direction(C, l, {d2}, m, toD, toC)
  BY <1>27, <1>28, <1>29, <1>30, <1>31, <1>32, ReceiverMoves
<1> QED BY <1>33 DEF d2, b0

\* The header of a packet tells what its maker has.
LEMMA AckMade ==
  ASSUME NEW C, NEW l, NEW d, NEW m, NEW toD, NEW toC, Direction(C, l, {d}, m, toD, toC),
         Shapes(C, l, {d}, m), Talking(d),
         NEW p, p.had = Got(d, m), p.expected = d.expected, p.mask = EarlyMask(d)
  PROVE  AckOf(C, l, {d}, m, p)
<1> DEFINE g == Got(d, m)
<1>1. g \in Nat /\ Half \in Nat /\ Window \in Nat /\ Window + 1 < Half /\ MaskBits \in Nat
  BY CountsAreInts, Space DEF Shapes
<1>2. ReceiverOK(d, m, l) /\ \A c \in C : PairOK(c, l, d, m)
  BY DEF Direction
<1>3. d.expected = Num(g) /\ \A q \in d.early : DataOf(l, q) /\ g < q.nth /\ q.nth <= g + Window
  BY <1>2 DEF ReceiverOK
<1>4. EarlyMask(d) \subseteq Nat
  BY <1>1 DEF EarlyMask
<1>5. ASSUME NEW x \in EarlyMask(d) PROVE Has(d, m, g + x)
  <2>1. PICK q \in d.early : Delta(q.seq, d.expected) = x
    BY DEF EarlyMask
  <2>2. q.nth \in Nat /\ q.seq = Num(q.nth) /\ g < q.nth /\ q.nth <= g + Window
    BY <1>3 DEF DataOf
  <2> HIDE DEF g
  <2>3. q.nth - g >= -Half /\ q.nth - g < Half
    BY <1>1, <2>2
  <2>4. q.nth - g = x
    BY <1>1, <1>3, <2>1, <2>2, <2>3, DeltaNum
  <2>5. q.nth = g + x
    BY <1>1, <2>2, <2>4
  <2> QED BY <2>5 DEF Has
<1>6. \A c \in C : g <= Sent(c, l)
  BY <1>2 DEF PairOK
<1>7. g <= Got(d, m)
  BY <1>1
<1> QED BY <1>1, <1>3, <1>4, <1>5, <1>6, <1>7 DEF AckOf

\* A sender that has nothing unacked and sent its end has a peer that has all.
LEMMA AllArrived ==
  ASSUME NEW c, NEW l, NEW D, NEW m, NEW toD, NEW toC, Direction({c}, l, D, m, toD, toC),
         Shapes({c}, l, D, m), c.sentShutdown, c.unacked = {},
         NEW d \in D, Talking(d)
  PROVE  d.eof
<1> DEFINE g == Got(d, m)
           w == Len(l.wrote)
<1> SUFFICES ASSUME ~d.eof PROVE FALSE
  OBVIOUS
<1>1. g \in Nat /\ w \in Nat /\ Len(m.handed) \in Nat /\ Len(d.input) \in Nat
  BY CountsAreInts DEF Shapes
<1>2. ReceiverOK(d, m, l) /\ PairOK(c, l, d, m) /\ SenderOK(c, l)
  BY DEF Direction
<1>3. g = Len(m.handed) + Len(d.input) + 0
  BY DEF Got
<1>4. Sent(c, l) = w - 0 + 1
  BY <1>2 DEF Sent, SenderOK
<1>5. Len(m.handed) + Len(d.input) <= w
  BY <1>2 DEF ReceiverOK, Talking
<1>6. g < Sent(c, l)
  <2> DEFINE h == Len(m.handed)
             i == Len(d.input)
  <2>1. h \in Nat /\ i \in Nat /\ h + i <= w /\ g = h + i + 0
    BY <1>1, <1>3, <1>5
  <2> HIDE DEF g, w, h, i
  <2> QED BY <1>1, <1>4, <2>1
<1>7. Has(d, m, g)
  BY <1>1, <1>2, <1>6 DEF PairOK
<1>8. ~(g < g)
  BY <1>1
<1>9. PICK q \in d.early : q.nth = g
  BY <1>7, <1>8 DEF Has
<1>10. g < q.nth
  BY <1>2, <1>9 DEF ReceiverOK
<1> QED BY <1>8, <1>9, <1>10

\* So a goodbye is sent only when the peer has all,
LEMMA GoodbyeMade ==
  ASSUME NEW c, NEW l, NEW D, NEW m, NEW toD, NEW toC, Direction({c}, l, D, m, toD, toC),
         Shapes({c}, l, D, m), c.sentShutdown, c.unacked = {}, c.destroyed,
         NEW toD2, toD2 \subseteq toD \union {GoodbyePacket}
  PROVE  Direction({c}, l, D, m, toD2, toC)
<1>1. NetOK({c}, l, D, m, toD, toC)
  BY DEF Direction
<1>2. \A d \in D : Talking(d) => d.eof
  BY AllArrived
<1>3. GoodbyePacket.kind # "Data"
  BY DEF GoodbyePacket
<1>4. NetOK({c}, l, D, m, toD2, toC)
  BY <1>1, <1>2, <1>3 DEF NetOK
<1> QED BY <1>4 DEF Direction

\* and the peer of one that talks no more may send one too.
LEMMA GoodbyeLeaves ==
  ASSUME NEW C, NEW l, NEW D, NEW m, NEW toD, NEW toC, Direction(C, l, D, m, toD, toC),
         \A d \in D : ~Talking(d), NEW toC2, toC2 \subseteq toC \union {GoodbyePacket}
  PROVE  Direction(C, l, D, m, toD, toC2)
<1>1. NetOK(C, l, D, m, toD, toC)
  BY DEF Direction
<1>2. GoodbyePacket.kind = "Goodbye"
  BY DEF GoodbyePacket
<1>3. NetOK(C, l, D, m, toD, toC2)
  BY <1>1, <1>2 DEF NetOK
<1> QED BY <1>3 DEF Direction

\* What is dispatched is what was written next.
LEMMA HandedOut ==
  ASSUME NEW C, NEW l, NEW d, NEW m, NEW toD, NEW toC, Direction(C, l, {d}, m, toD, toC),
         Shapes(C, l, {d}, m), ~d.destroyed, Dispatches(d),
         NEW m2, m2.handed = m.handed \o d.input, m2.notice = Notice(d),
         NEW d2, d2 = Dispatched(d), Shapes(C, l, {d2}, m2)
  PROVE  Direction(C, l, {d2}, m2, toD, toC)
<1> DEFINE h == Len(m.handed)
           i == Len(d.input)
           w == Len(l.wrote)
<1>1. /\ h \in Nat /\ i \in Nat /\ w \in Nat /\ m.handed \in Seq(Content) /\ d.input \in Seq(Content)
      /\ DOMAIN d = ConnFields
  BY CountsAreInts DEF Shapes, LogRecord, IsConn, Shaped
<1>2. ReceiverOK(d, m, l) /\ LogOK(l, m) /\ \A c \in C : PairOK(c, l, d, m)
  BY DEF Direction
<1>3. /\ d2.input = <<>> /\ d2.dispatchedEof = d.eof /\ d2.eof = d.eof /\ d2.expected = d.expected
      /\ d2.early = d.early /\ d2.state = d.state /\ d2.destroyed = d.destroyed /\ d2.unacked = d.unacked
  BY <1>1 DEF Dispatched, ConnFields
<1>4. Len(m2.handed) = h + i
  BY <1>1
<1>5. h + i <= w /\ \A k \in 1..i : d.input[k] = l.wrote[h + k]
  BY <1>2 DEF ReceiverOK
<1>6. \A k \in 1..(h + i) : m2.handed[k] = l.wrote[k]
  <2> TAKE k \in 1..(h + i)
  <2>1. CASE k \in 1..h
    <3>1. m2.handed[k] = m.handed[k]
      BY <1>1, <2>1
    <3> QED BY <1>2, <2>1, <3>1 DEF LogOK
  <2>2. CASE k \notin 1..h
    <3>1. k - h \in 1..i /\ h + (k - h) = k
      <4> HIDE DEF h, i
      <4> QED BY <1>1, <2>2
    <3>2. (m.handed \o d.input)[h + (k - h)] = d.input[k - h]
      BY <1>1, <3>1
    <3> QED BY <1>5, <3>1, <3>2
  <2> QED BY <2>1, <2>2
<1>7. LogOK(l, m2)
  BY <1>4, <1>5, <1>6 DEF LogOK
<1>8. Got(d2, m2) = Got(d, m)
  <2> DEFINE x == IF d.eof THEN 1 ELSE 0
  <2>1. Got(d, m) = h + i + x /\ Got(d2, m2) = (h + i) + 0 + x /\ x \in Nat
    BY <1>3, <1>4 DEF Got
  <2> HIDE DEF h, i, x
  <2> QED BY <1>1, <2>1
<1>9. Talking(d2) <=> Talking(d)
  BY <1>3 DEF Talking
<1>10. \A x \in Int : Has(d, m, x) => Has(d2, m2, x)
  BY <1>3, <1>8 DEF Has
<1>11. ReceiverOK(d2, m2, l)
  <2>1. Len(m2.handed) + Len(d2.input) = h + i /\ Len(d2.input) = 0
    BY <1>1, <1>3, <1>4
  <2>2. ~d2.dispatchedEof => m2.notice = "None"
    BY <1>3 DEF Notice
  <2>3. ASSUME Talking(d2)
        PROVE  /\ d2.expected = Num(Got(d2, m2))
               /\ d2.eof => l.shut /\ Len(m2.handed) + Len(d2.input) = w
               /\ \A q \in d2.early : DataOf(l, q) /\ Got(d2, m2) < q.nth /\ q.nth <= Got(d2, m2) + Window
               /\ \A q, r \in d2.early : q.nth = r.nth => q = r
    BY <1>2, <1>3, <1>8, <1>9, <2>1, <2>3 DEF ReceiverOK
  <2>4. \A k \in 1..Len(d2.input) : FALSE
    BY <2>1
  <2> QED BY <1>3, <1>5, <2>1, <2>2, <2>3, <2>4 DEF ReceiverOK
<1>12. Advances(d, m, d2, m2)
  <2>1. Got(d, m) \in Nat
    BY CountsAreInts DEF Shapes
  <2>2. Got(d, m) <= Got(d2, m2)
    BY <1>8, <2>1
  <2> QED BY <1>3, <1>9, <1>10, <2>2 DEF Advances
<1>13. \A c \in C : Talking(d2) => Got(d2, m2) <= Sent(c, l) /\ \A q \in d2.early : q.nth < Sent(c, l)
  BY <1>2, <1>3, <1>8, <1>9 DEF PairOK
<1> QED BY <1>3, <1>7, <1>11, <1>12, <1>13, ReceiverMoves

----------------------------------------------------------------------------
(* A link, of both directions *)

\* Both directions of a link, as the end with the connections C sees it.
Link(C, l, D, m, toD, toC) ==
  /\ Shapes(C, l, D, m)
  /\ Direction(C, l, D, m, toD, toC)
  /\ Direction(D, m, C, l, toC, toD)

\* For both directions nothing changed.
Same(c, c2) == SameSender(c, c2) /\ SameReceiver(c, c2)

\* Connections that are the same, or gone, and packets that are lost.
LEMMA LinkFades ==
  ASSUME NEW C, NEW l, NEW D, NEW m, NEW toD, NEW toC, Link(C, l, D, m, toD, toC),
         NEW C2, \A c2 \in C2 : IsConn(c2) /\ \E c \in C : Same(c, c2),
         NEW toD2, toD2 \subseteq toD, NEW toC2, toC2 \subseteq toC
  PROVE  Link(C2, l, D, m, toD2, toC2)
<1>1. Shapes(C, l, D, m) /\ Shapes(D, m, C, l) /\ Shapes(C2, l, D, m) /\ Shapes(D, m, C2, l)
  BY DEF Link, Shapes
<1>2. Direction(C, l, D, m, toD, toC) /\ Direction(D, m, C, l, toC, toD)
  BY DEF Link
<1>3. Direction(C2, l, D, m, toD2, toC2)
  <2>1. \A c2 \in C2 : \E c \in C : SameSender(c, c2)
    BY DEF Same
  <2> QED BY <1>2, <2>1, SenderStays
<1>4. Direction(D, m, C2, l, toC2, toD2)
  <2>1. \A c2 \in C2 : \E c \in C : /\ SameReceiver(c, c2)
                                    /\ \A p \in c2.unacked : p \in c.unacked \/ AckOf(D, m, C, l, p)
    BY DEF Same, SameSender
  <2> QED BY <1>1, <1>2, <2>1, ReceiverStays
<1> QED BY <1>1, <1>3, <1>4 DEF Link

\* A packet that is sent may be received.
LEMMA LinkSends ==
  ASSUME NEW C, NEW l, NEW D, NEW m, NEW toD, NEW toC, Link(C, l, D, m, toD, toC),
         NEW p, p.kind # "Goodbye", p.kind = "Data" => DataFor(C, l, D, m, p),
         AckOf(D, m, C, l, p),
         NEW toD2, toD2 \subseteq toD \union {p}
  PROVE  Link(C, l, D, m, toD2, toC)
<1>1. Direction(C, l, D, m, toD, toC) /\ Direction(D, m, C, l, toC, toD) /\ Shapes(C, l, D, m)
  BY DEF Link
<1>2. GoodbyePacket \in toD2 => GoodbyePacket \in toD
  BY DEF GoodbyePacket
<1>3. Direction(C, l, D, m, toD2, toC)
  <2>1. \A q \in toD2 : q \in toD \/ (q.kind = "Data" => DataFor(C, l, D, m, q))
    OBVIOUS
  <2>2. \A q \in toC : q \in toC \/ AckOf(C, l, D, m, q)
    OBVIOUS
  <2>3. GoodbyePacket \in toC => GoodbyePacket \in toC
    OBVIOUS
  <2> QED BY <1>1, <1>2, <2>1, <2>2, <2>3, NetGrows
<1>4. Direction(D, m, C, l, toC, toD2)
  <2>1. \A q \in toD2 : q \in toD \/ AckOf(D, m, C, l, q)
    OBVIOUS
  <2>2. \A q \in toC : q \in toC \/ (q.kind = "Data" => DataFor(D, m, C, l, q))
    OBVIOUS
  <2>3. GoodbyePacket \in toC => GoodbyePacket \in toC
    OBVIOUS
  <2> QED BY <1>1, <1>2, <2>1, <2>2, <2>3, NetGrows
<1> QED BY <1>1, <1>3, <1>4 DEF Link

\* What is sent again was made in the window that is open still.
LEMMA UnackedIsFor ==
  ASSUME NEW c, NEW l, NEW D, NEW m, NEW toD, NEW toC, Direction({c}, l, D, m, toD, toC),
         Shapes({c}, l, D, m), NEW p \in c.unacked
  PROVE  DataFor({c}, l, D, m, p)
<1>1. SenderOK(c, l) /\ WindowOK({c}, l, D, m)
  BY DEF Direction
<1>2. DataOf(l, p) /\ p.nth < Sent(c, l) /\ p.nth \in Nat
  BY <1>1 DEF SenderOK, DataOf
<1>3. PICK r \in Nat : AckedTo(c, l, r) /\ \A d \in D : Talking(d) => r <= Got(d, m)
  BY <1>1 DEF WindowOK
<1>4. Sent(c, l) <= r + Window + 1
  BY <1>3 DEF AckedTo
<1>5. ASSUME NEW d \in D, Talking(d) PROVE p.nth <= Got(d, m) + Window
  <2> DEFINE s == Sent(c, l)
             g == Got(d, m)
             k == p.nth
  <2>1. s \in Int /\ g \in Int /\ Window \in Nat
    BY CountsAreInts, Space DEF Shapes
  <2>2. k \in Nat /\ k < s /\ s <= r + Window + 1 /\ r <= g
    BY <1>2, <1>3, <1>4, <1>5
  <2> HIDE DEF s, g, k
  <2>3. k <= g + Window
    BY <2>1, <2>2
  <2> QED BY <2>3 DEF g, k
<1> QED BY <1>2, <1>5 DEF DataFor

\* A packet that is unacked is sent again.
LEMMA LinkResends ==
  ASSUME NEW c, NEW l, NEW D, NEW m, NEW toD, NEW toC, Link({c}, l, D, m, toD, toC),
         NEW p \in c.unacked, NEW toD2, toD2 \subseteq toD \union {p}
  PROVE  Link({c}, l, D, m, toD2, toC)
<1>1. Direction({c}, l, D, m, toD, toC) /\ Direction(D, m, {c}, l, toC, toD) /\ Shapes({c}, l, D, m)
  BY DEF Link
<1>2. DataFor({c}, l, D, m, p)
  BY <1>1, UnackedIsFor
<1>3. AckOf(D, m, {c}, l, p)
  BY <1>1 DEF Direction
<1>4. p.kind # "Goodbye"
  BY <1>1 DEF Shapes, IsConn, Shaped, IsData
<1> QED BY <1>2, <1>3, <1>4, LinkSends

\* An acknowledgement is sent.
LEMMA LinkAcks ==
  ASSUME NEW c, NEW l, NEW D, NEW m, NEW toD, NEW toC, Link({c}, l, D, m, toD, toC),
         Talking(c), NEW kind \in {"Ack", "KeepAlive"},
         NEW toD2, toD2 \subseteq toD \union {AckPacket(c, l, kind)}
  PROVE  Link({c}, l, D, m, toD2, toC)
<1> DEFINE p == AckPacket(c, l, kind)
<1>1. Direction({c}, l, D, m, toD, toC) /\ Direction(D, m, {c}, l, toC, toD) /\ Shapes(D, m, {c}, l)
  BY DEF Link, Shapes
<1>2. p.had = Got(c, l) /\ p.expected = c.expected /\ p.mask = EarlyMask(c) /\ p.kind = kind
  BY DEF AckPacket
<1> HIDE DEF p
<1>3. AckOf(D, m, {c}, l, p)
  BY <1>1, <1>2, AckMade
<1>4. p.kind # "Goodbye" /\ p.kind # "Data"
  BY <1>2
<1>5. toD2 \subseteq toD \union {p}
  BY DEF p
<1> QED BY <1>3, <1>4, <1>5, LinkSends

\* The next packet is made and sent.
LEMMA LinkSendsData ==
  ASSUME NEW c, NEW l, NEW D, NEW m, NEW toD, NEW toC, Link({c}, l, D, m, toD, toC),
         Talking(c), HasPacketWaiting(c),
         NEW p, p = Packet(c, l), NEW c2, c2 = Made(c, p), IsConn(c2),
         NEW toD2, toD2 \subseteq toD \union {p}
  PROVE  Link({c2}, l, D, m, toD2, toC)
<1>1. /\ Direction({c}, l, D, m, toD, toC) /\ Direction(D, m, {c}, l, toC, toD)
      /\ Shapes({c}, l, D, m) /\ Shapes(D, m, {c}, l) /\ DOMAIN c = ConnFields
  BY DEF Link, Shapes, IsConn, Shaped
<1>2. Shapes({c2}, l, D, m) /\ Shapes(D, m, {c2}, l)
  BY <1>1 DEF Shapes
<1>3. /\ c2.out = (IF c.out = <<>> THEN c.out ELSE Tail(c.out))
      /\ c2.sentShutdown = (c.sentShutdown \/ c.out = <<>>)
      /\ c2.shut = c.shut /\ c2.destroy = c.destroy /\ c2.destroyed = c.destroyed
      /\ c2.next = Following(c.next) /\ c2.unacked = c.unacked \union {p} /\ c2.remote = c.remote
  BY <1>1 DEF ConnFields, Made
<1>4. /\ c2.input = c.input /\ c2.eof = c.eof /\ c2.dispatchedEof = c.dispatchedEof
      /\ c2.expected = c.expected /\ c2.early = c.early /\ c2.state = c.state /\ c2.destroyed = c.destroyed
  BY <1>1 DEF ConnFields, Made
<1>5. Direction({c2}, l, D, m, toD2, toC)
  <2>1. toC \subseteq toC
    OBVIOUS
  <2>2. MakesData(c, l, c2, p)
    BY <1>3 DEF MakesData, Packet
  <2> QED BY <1>1, <1>2, <2>1, <2>2, DataMade
<1>6. p.had = Got(c, l) /\ p.expected = c.expected /\ p.mask = EarlyMask(c) /\ p.kind = "Data"
  BY DEF DataPacket, Packet
<1>7. AckOf(D, m, {c}, l, p)
  BY <1>1, <1>6, AckMade
<1>8. SameReceiver(c, c2) /\ SameReceiver(c2, c2)
  BY <1>4 DEF SameReceiver, Talking
<1>9. Direction(D, m, {c2}, l, toC, toD)
  <2>1. \A d2 \in {c2} : \E d \in {c} : /\ SameReceiver(d, d2)
                                       /\ \A q \in d2.unacked : q \in d.unacked \/ AckOf(D, m, {c}, l, q)
    BY <1>3, <1>7, <1>8
  <2> QED BY <1>1, <1>2, <2>1, ReceiverStays
<1>10. AckOf(D, m, {c2}, l, p)
  BY <1>3, <1>9 DEF Direction
<1>11. Direction(D, m, {c2}, l, toC, toD2)
  <2>1. GoodbyePacket \in toD2 => GoodbyePacket \in toD
    BY <1>6 DEF GoodbyePacket
  <2>2. \A q \in toD2 : q \in toD \/ AckOf(D, m, {c2}, l, q)
    BY <1>10
  <2>3. \A q \in toC : q \in toC \/ (q.kind = "Data" => DataFor(D, m, {c2}, l, q))
    OBVIOUS
  <2>4. GoodbyePacket \in toC => GoodbyePacket \in toC
    OBVIOUS
  <2> QED BY <1>9, <2>1, <2>2, <2>3, <2>4, NetGrows
<1> QED BY <1>2, <1>5, <1>11 DEF Link

\* The last packet of a connection is sent.
LEMMA LinkSaysGoodbye ==
  ASSUME NEW c, NEW l, NEW D, NEW m, NEW toD, NEW toC, Link({c}, l, D, m, toD, toC),
         c.sentShutdown, c.unacked = {}, c.destroyed,
         NEW toD2, toD2 \subseteq toD \union {GoodbyePacket}
  PROVE  Link({c}, l, D, m, toD2, toC)
<1>1. /\ Direction({c}, l, D, m, toD, toC) /\ Direction(D, m, {c}, l, toC, toD)
      /\ Shapes({c}, l, D, m)
  BY DEF Link
<1>2. Direction({c}, l, D, m, toD2, toC)
  BY <1>1, GoodbyeMade
<1>3. Direction(D, m, {c}, l, toC, toD2)
  BY <1>1, GoodbyeLeaves DEF Talking
<1> QED BY <1>1, <1>2, <1>3 DEF Link

\* What the small steps of receiving leave of a connection.
LEMMA OpenedIs ==
  ASSUME NEW c, IsConn(c), c.destroyed => c.destroy, c.state # "Answering"
  PROVE  Same(c, Opened(c)) /\ IsConn(Opened(c)) /\ \A f \in ConnFields \ {"state"} : Opened(c)[f] = c[f]
<1>1. DOMAIN c = ConnFields
  BY DEF IsConn, Shaped
<1> QED BY <1>1, OpenedIsConn DEF Opened, Hears, Same, SameSender, SameReceiver, Talking, ConnFields

LEMMA AdoptIs ==
  ASSUME NEW c, IsConn(c), c.destroyed => c.destroy
  PROVE  Same(c, Adopt(c)) /\ IsConn(Adopt(c)) /\ \A f \in ConnFields \ {"owes"} : Adopt(c)[f] = c[f]
<1>1. DOMAIN c = ConnFields
  BY DEF IsConn, Shaped
<1> QED BY <1>1, AdoptIsConn DEF Adopt, Same, SameSender, SameReceiver, Talking, ConnFields

LEMMA TakeAckIs ==
  ASSUME NEW c, IsConn(c), c.state # "Answering", NEW p
  PROVE  /\ TakeAck(c, p).unacked = {q \in c.unacked : ~Acked(p, q)}
         /\ TakeAck(c, p).remote = (IF Delta(p.expected, c.remote) > 0 THEN p.expected ELSE c.remote)
         /\ \A f \in ConnFields \ {"state", "unacked", "remote"} : TakeAck(c, p)[f] = c[f]
         /\ Talking(TakeAck(c, p)) => Talking(c)
         /\ Hears(c) => TakeAck(c, p).state = "Establishing"
<1>1. DOMAIN c = ConnFields
  BY DEF IsConn, Shaped
<1> DEFINE o == Opened(c)
           u == {q \in o.unacked : ~Acked(p, q)}
           r == IF Delta(p.expected, o.remote) > 0 THEN p.expected ELSE o.remote
<1>2. TakeAck(c, p) = [o EXCEPT !.unacked = u, !.remote = r]
  BY DEF TakeAck
<1>3. DOMAIN o = ConnFields /\ \A f \in ConnFields \ {"state"} : o[f] = c[f]
  BY <1>1 DEF Opened
<1>4. o.unacked = c.unacked /\ o.remote = c.remote
  BY <1>3 DEF ConnFields
<1>5. Hears(c) => o.state = "Establishing"
  BY <1>1 DEF Opened, ConnFields
<1>6. (o.state = "Establishing" \/ o.state = "TimedOut") => (c.state \in {"Establishing", "TimedOut"})
  BY <1>1 DEF Opened, Hears, ConnFields
<1>7. u = {q \in c.unacked : ~Acked(p, q)} /\ r = (IF Delta(p.expected, c.remote) > 0 THEN p.expected ELSE c.remote)
  BY <1>4
<1> HIDE DEF o, u, r
<1>8. /\ TakeAck(c, p).unacked = u /\ TakeAck(c, p).remote = r /\ TakeAck(c, p).state = o.state
      /\ \A f \in ConnFields \ {"state", "unacked", "remote"} : TakeAck(c, p)[f] = c[f]
  BY <1>2, <1>3 DEF ConnFields
<1>9. TakeAck(c, p).destroyed = c.destroyed
  BY <1>8 DEF ConnFields
<1>10. Talking(TakeAck(c, p)) => Talking(c)
  BY <1>6, <1>8, <1>9 DEF Talking
<1> QED BY <1>5, <1>7, <1>8, <1>10

\* An acknowledgement is taken, whatever it acknowledges.
LEMMA LinkTakesAck ==
  ASSUME NEW c, NEW l, NEW D, NEW m, NEW toD, NEW toC, Link({c}, l, D, m, toD, toC),
         c.state # "Answering", NEW p \in toC, ~Refused(c, p), IsAck(p) \/ IsData(p) \/ p = GoodbyePacket,
         p.kind # "Goodbye" => Sent(c, l) - p.had < Half
  PROVE  Link({TakeAck(c, p)}, l, D, m, toD, toC)
<1> DEFINE c2 == TakeAck(c, p)
           s == Sent(c, l)
<1>1. /\ Direction({c}, l, D, m, toD, toC) /\ Direction(D, m, {c}, l, toC, toD)
      /\ Shapes({c}, l, D, m) /\ Shapes(D, m, {c}, l)
  BY DEF Link, Shapes
<1>2. IsConn(c) /\ SenderOK(c, l) /\ NetOK({c}, l, D, m, toD, toC) /\ s \in Int
  BY <1>1, CountsAreInts DEF Shapes, Direction
<1>3. p.expected \in SeqNum
  BY Zero DEF IsAck, IsData, GoodbyePacket
<1>4. /\ c2.unacked = {q \in c.unacked : ~Acked(p, q)}
      /\ c2.remote = (IF Delta(p.expected, c.remote) > 0 THEN p.expected ELSE c.remote)
      /\ \A f \in ConnFields \ {"state", "unacked", "remote"} : c2[f] = c[f]
      /\ Talking(c2) => Talking(c)
  BY <1>2, TakeAckIs
<1>5. IsConn(c2)
  BY <1>2, <1>3, TakeAckIsConn
<1> HIDE DEF c2
<1>6. Shapes({c2}, l, D, m) /\ Shapes(D, m, {c2}, l)
  BY <1>1, <1>5 DEF Shapes
<1>7. \E M \in Int : /\ p.expected = Num(M) /\ M <= s /\ s - M < Half
                     /\ \A d \in D : Talking(d) => M <= Got(d, m) /\ \A x \in p.mask : Has(d, m, M + x)
  <2>1. CASE p.kind # "Goodbye"
    <3>1. AckOf({c}, l, D, m, p)
      BY <1>2, <2>1 DEF NetOK
    <3> QED BY <2>1, <3>1 DEF AckOf
  <2>2. CASE p.kind = "Goodbye"
    <3>1. p = GoodbyePacket
      BY <2>2 DEF IsAck, IsData
    <3>2. \A d \in D : ~Talking(d)
      BY <1>2, <3>1 DEF NetOK
    <3>3. c.next = Num(s) /\ ~(Delta(c.next, p.expected) < 0) /\ Delta(c.next, p.expected) \in Int
      BY <1>2, <1>3, DeltaRange DEF SenderOK, Refused, IsConn, Shaped
    <3>4. Delta(Num(s), p.expected) >= 0
      <4> HIDE DEF s
      <4> QED BY <3>3
    <3>5. p.expected \in 0..(SeqSpace - 1)
      BY <1>3 DEF SeqNum
    <3>6. \E M \in Int : p.expected = Num(M) /\ M <= s /\ s - M < Half
      BY <1>2, <3>4, <3>5, NumBefore
    <3> QED BY <3>2, <3>6
  <2> QED BY <2>1, <2>2
<1>8. PICK M \in Int : /\ p.expected = Num(M) /\ M <= Sent(c, l) /\ Sent(c, l) - M < Half
                       /\ \A d \in D : Talking(d) => M <= Got(d, m) /\ \A x \in p.mask : Has(d, m, M + x)
  BY <1>7
<1>9. /\ c2.out = c.out /\ c2.shut = c.shut /\ c2.destroy = c.destroy /\ c2.sentShutdown = c.sentShutdown
      /\ c2.next = c.next /\ c2.destroyed = c.destroyed
  BY <1>4 DEF ConnFields
<1>10. /\ c2.input = c.input /\ c2.eof = c.eof /\ c2.dispatchedEof = c.dispatchedEof
       /\ c2.expected = c.expected /\ c2.early = c.early /\ c2.destroyed = c.destroyed
  BY <1>4 DEF ConnFields
<1>11. Direction({c2}, l, D, m, toD, toC)
  <2>1. toD \subseteq toD /\ toC \subseteq toC
    OBVIOUS
  <2> QED BY <1>1, <1>4, <1>6, <1>8, <1>9, <2>1, AckTaken
<1>12. Direction(D, m, {c2}, l, toC, toD)
  <2>1. SameReceiver(c, c2)
    BY <1>4, <1>10 DEF SameReceiver
  <2>2. \A d2 \in {c2} : \E d \in {c} : /\ SameReceiver(d, d2)
                                        /\ \A q \in d2.unacked : q \in d.unacked \/ AckOf(D, m, {c}, l, q)
    BY <1>4, <2>1
  <2> QED BY <1>1, <1>6, <2>2, ReceiverStays
<1> QED BY <1>6, <1>11, <1>12 DEF Link, c2

\* The receiving of a connection that is going, or of one that fails.
LEMMA LinkDeaf ==
  ASSUME NEW c, NEW l, NEW D, NEW m, NEW toD, NEW toC, Link({c}, l, D, m, toD, toC),
         NEW c2, IsConn(c2), SameSender(c, c2), ~Talking(c2), c2.destroyed \/ c2.input = c.input,
         c2.destroyed = c.destroyed,
         c2.dispatchedEof = c.dispatchedEof, c.eof => c2.eof
  PROVE  Link({c2}, l, D, m, toD, toC)
<1>1. /\ Direction({c}, l, D, m, toD, toC) /\ Direction(D, m, {c}, l, toC, toD)
      /\ Shapes({c}, l, D, m) /\ Shapes(D, m, {c}, l)
  BY DEF Link, Shapes
<1>2. Shapes({c2}, l, D, m) /\ Shapes(D, m, {c2}, l)
  BY <1>1 DEF Shapes
<1>3. Direction({c2}, l, D, m, toD, toC)
  BY <1>1, SenderStays
<1>4. LogOK(m, l) /\ ReceiverOK(c, l, m)
  BY <1>1 DEF Direction
<1>5. ReceiverOK(c2, l, m)
  BY <1>4 DEF ReceiverOK
<1>6. \A d2 \in {c2} : \E d \in {c} : /\ Advances(d, l, d2, l)
                                      /\ \A q \in d2.unacked : q \in d.unacked \/ AckOf(D, m, {c}, l, q)
  BY DEF Advances, SameSender
<1>7. \A d \in D, c3 \in {c2} : Talking(c3) => /\ Got(c3, l) <= Sent(d, m)
                                               /\ \A q \in c3.early : q.nth < Sent(d, m)
  OBVIOUS
<1>8. \A c3 \in {c2} : ReceiverOK(c3, l, m)
  BY <1>5
<1>9. Direction(D, m, {c2}, l, toC, toD)
  <2>1. toD \subseteq toD /\ toC \subseteq toC
    OBVIOUS
  <2> QED BY <1>1, <1>2, <1>4, <1>6, <1>7, <1>8, <2>1, ReceiverMoves
<1> QED BY <1>2, <1>3, <1>9 DEF Link

\* A packet of data is taken.
LEMMA LinkTakesData ==
  ASSUME NEW c, NEW l, NEW D, NEW m, NEW toD, NEW toC, Link({c}, l, D, m, toD, toC),
         c.state \in {"Establishing", "TimedOut"},
         NEW p \in toC, IsData(p), Talking(c) => Got(c, l) - p.nth <= Half,
         ~OutOfWindow(c, p), ~Early(c, p)
  PROVE  Link({Drain([c EXCEPT !.early = @ \union {p}])}, l, D, m, toD, toC)
<1> DEFINE i == [c EXCEPT !.early = @ \union {p}]
           c2 == Drain(i)
<1>1. /\ Direction({c}, l, D, m, toD, toC) /\ Direction(D, m, {c}, l, toC, toD)
      /\ Shapes({c}, l, D, m) /\ Shapes(D, m, {c}, l) /\ IsConn(c)
  BY DEF Link, Shapes
<1>2. Shaped(i) /\ DOMAIN c = ConnFields
  BY <1>1 DEF IsConn, Shaped, ConnFields
<1>3. /\ \A f \in ConnFields \ {"early"} : i[f] = c[f]
  BY <1>2
<1>4. IsConn(c2)
  BY <1>2, DrainIsConn
<1> HIDE DEF i
<1>5. /\ c2.eof = (i.eof \/ Ends(i, Consumed(i)) \/ Overflows(i, Consumed(i)))
      /\ c2.state = (IF Overflows(i, Consumed(i)) THEN "Errored" ELSE i.state)
      /\ \A f \in ConnFields \ {"expected", "input", "eof", "state", "early"} : c2[f] = i[f]
  BY <1>2, DrainIs
<1> HIDE DEF c2
<1>6. \A f \in ConnFields \ {"expected", "input", "eof", "state", "early"} : c2[f] = c[f]
  BY <1>3, <1>5 DEF ConnFields
<1>7. /\ c2.out = c.out /\ c2.shut = c.shut /\ c2.destroy = c.destroy /\ c2.sentShutdown = c.sentShutdown
      /\ c2.next = c.next /\ c2.unacked = c.unacked /\ c2.remote = c.remote /\ c2.destroyed = c.destroyed
      /\ c2.dispatchedEof = c.dispatchedEof
  BY <1>6 DEF ConnFields
<1>8. i.eof = c.eof /\ i.state = c.state
  BY <1>3 DEF ConnFields
<1>9. (c.eof => c2.eof) /\ (Talking(c2) => Talking(c))
  BY <1>5, <1>7, <1>8 DEF Talking
<1>10. c.destroyed => c.destroy
  BY <1>1 DEF Direction, SenderOK
<1>11. SameSender(c, c2)
  BY <1>7, <1>10 DEF SameSender
<1>12. CASE Talking(c)
  <2>1. Direction({c2}, l, D, m, toD, toC)
    BY <1>1, <1>11, SenderStays
  <2>2. Direction(D, m, {c2}, l, toC, toD)
    BY <1>1, <1>12, DataTaken DEF c2, i
  <2>3. Shapes({c2}, l, D, m)
    BY <1>1, <1>4 DEF Shapes
  <2> QED BY <2>1, <2>2, <2>3 DEF Link, c2, i
<1>13. CASE ~Talking(c)
  <2>1. ~Talking(c2)
    BY <1>9, <1>13
  <2>2. c2.destroyed \/ c2.input = c.input
    BY <1>7, <1>13 DEF Talking
  <2> QED BY <1>4, <1>7, <1>9, <1>11, <2>1, <2>2, LinkDeaf DEF c2, i
<1> QED BY <1>12, <1>13

\* GOODBYE comes to a connection that has the end, or that is going itself.
LEMMA LinkHearsGoodbye ==
  ASSUME NEW c, NEW l, NEW D, NEW m, NEW toD, NEW toC, Link({c}, l, D, m, toD, toC),
         c.state \in {"Establishing", "TimedOut"}, GoodbyePacket \in toC, ~c.eof
  PROVE  Link({CloseInput(c)}, l, D, m, toD, toC)
<1> DEFINE c2 == CloseInput(c)
<1>1. Direction(D, m, {c}, l, toC, toD) /\ SenderOK(c, l) /\ IsConn(c)
  BY DEF Link, Shapes, Direction
<1>2. c.destroyed
  BY <1>1 DEF Direction, NetOK, Talking
<1>3. DOMAIN c = ConnFields
  BY <1>1 DEF IsConn, Shaped
<1>4. /\ c2.out = c.out /\ c2.shut = c.shut /\ c2.destroy = c.destroy /\ c2.sentShutdown = c.sentShutdown
      /\ c2.next = c.next /\ c2.unacked = c.unacked /\ c2.remote = c.remote /\ c2.destroyed = c.destroyed
      /\ c2.dispatchedEof = c.dispatchedEof /\ c2.eof = TRUE
  BY <1>3 DEF CloseInput, ConnFields
<1>5. IsConn(c2)
  BY <1>1, CloseIsConn
<1> HIDE DEF c2
<1>6. SameSender(c, c2) /\ ~Talking(c2)
  BY <1>1, <1>2, <1>4 DEF SameSender, SenderOK, Talking
<1>7. Link({c2}, l, D, m, toD, toC)
  BY <1>2, <1>4, <1>5, <1>6, LinkDeaf
<1> QED BY <1>7 DEF c2

\* Any packet of an established link is processed.
LEMMA LinkHears ==
  ASSUME NEW c, NEW l, NEW D, NEW m, NEW toD, NEW toC, Link({c}, l, D, m, toD, toC),
         c.state \in {"Establishing", "TimedOut"},
         NEW p \in toC, IsAck(p) \/ IsData(p) \/ p = GoodbyePacket,
         p.kind = "Data" /\ Talking(c) => Got(c, l) - p.nth <= Half,
         p.kind # "Goodbye" => Sent(c, l) - p.had < Half
  PROVE  Link({Processed(c, p)}, l, D, m, toD, toC)
<1>1. IsConn(c) /\ SenderOK(c, l)
  BY DEF Link, Shapes, Direction
<1>2. c.destroyed => c.destroy
  BY <1>1 DEF SenderOK
<1>3. Link({Opened(c)}, l, D, m, toD, toC)
  <2>1. IsConn(Opened(c)) /\ Same(c, Opened(c))
    BY <1>1, <1>2, OpenedIs
  <2>2. toD \subseteq toD /\ toC \subseteq toC
    OBVIOUS
  <2>3. \A c2 \in {Opened(c)} : IsConn(c2) /\ \E k \in {c} : Same(k, c2)
    BY <2>1
  <2> QED BY <2>2, <2>3, LinkFades
<1> DEFINE t == TakeAck(c, p)
           d == Adopt(t)
<1>4. ASSUME ~Refused(c, p) PROVE Link({t}, l, D, m, toD, toC)
  BY <1>4, LinkTakesAck
<1>5. /\ \A f \in ConnFields \ {"state", "unacked", "remote"} : t[f] = c[f]
      /\ Talking(t) => Talking(c)
      /\ t.state = "Establishing"
  BY <1>1, TakeAckIs DEF Hears
<1>6. t.destroyed = c.destroyed /\ t.destroy = c.destroy /\ t.eof = c.eof
      /\ t.input = c.input
  BY <1>5 DEF ConnFields
<1> HIDE DEF t
<1>7. ASSUME ~Refused(c, p)
      PROVE  /\ Link({d}, l, D, m, toD, toC) /\ d.state = "Establishing" /\ (Talking(d) => Talking(c))
             /\ Got(d, l) = Got(c, l)
  <2>1. Link({t}, l, D, m, toD, toC)
    BY <1>4, <1>7
  <2>2. IsConn(t)
    BY <2>1 DEF Link, Shapes
  <2>3. IsConn(d) /\ Same(t, d) /\ \A f \in ConnFields \ {"owes"} : d[f] = t[f]
    BY <1>2, <1>6, <2>2, AdoptIs
  <2>4. toD \subseteq toD /\ toC \subseteq toC
    OBVIOUS
  <2> HIDE DEF d
  <2>5. \A c2 \in {d} : IsConn(c2) /\ \E k \in {t} : Same(k, c2)
    BY <2>3
  <2>6. Link({d}, l, D, m, toD, toC)
    BY <2>1, <2>4, <2>5, LinkFades
  <2>7. d.state = t.state /\ d.destroyed = t.destroyed /\ d.input = t.input /\ d.eof = t.eof
    BY <2>3 DEF ConnFields
  <2> QED BY <1>5, <1>6, <2>6, <2>7 DEF Talking, Got
<1>8. CASE IsData(p)
  <2>1. Processed(c, p) = ProcessData(c, p)
    BY <1>8 DEF IsData, Processed
  <2>2. CASE Refused(c, p)
    BY <1>3, <2>1, <2>2 DEF ProcessData
  <2>3. CASE ~Refused(c, p) /\ (OutOfWindow(d, p) \/ Early(d, p))
    BY <1>7, <2>1, <2>3 DEF ProcessData, t
  <2>4. CASE ~Refused(c, p) /\ ~OutOfWindow(d, p) /\ ~Early(d, p)
    <3>1. Processed(c, p) = Drain([d EXCEPT !.early = @ \union {p}])
      BY <2>1, <2>4 DEF ProcessData, t
    <3>2. Link({d}, l, D, m, toD, toC) /\ d.state = "Establishing" /\ (Talking(d) => Talking(c))
          /\ Got(d, l) = Got(c, l)
      BY <1>7, <2>4
    <3> HIDE DEF d
    <3>3. Talking(d) => Got(d, l) - p.nth <= Half
      BY <1>8, <3>2 DEF IsData
    <3> QED BY <1>8, <2>4, <3>1, <3>2, <3>3, LinkTakesData
  <2> QED BY <2>2, <2>3, <2>4
<1>9. CASE IsAck(p)
  <2>1. Processed(c, p) = ProcessAck(c, p) \/ Processed(c, p) = ProcessKeepAlive(c, p)
    BY <1>9 DEF IsAck, Processed
  <2> QED BY <1>3, <1>4, <1>7, <2>1 DEF ProcessAck, ProcessKeepAlive, t
<1>10. CASE p = GoodbyePacket
  <2>1. Processed(c, p) = ProcessGoodbye(c, p)
    BY <1>10 DEF GoodbyePacket, Processed
  <2>2. CASE Refused(c, p)
    BY <1>3, <2>1, <2>2 DEF ProcessGoodbye
  <2>3. CASE ~Refused(c, p) /\ c.eof
    BY <1>4, <2>1, <2>3 DEF ProcessGoodbye, t
  <2>4. CASE ~Refused(c, p) /\ ~c.eof
    <3>1. Link({CloseInput(t)}, l, D, m, toD, toC)
      BY <1>4, <1>5, <1>6, <1>10, <2>4, LinkHearsGoodbye
    <3> QED BY <2>1, <2>4, <3>1 DEF ProcessGoodbye, t
  <2> QED BY <2>2, <2>3, <2>4
<1> QED BY <1>8, <1>9, <1>10

\* Of a log, the sender's part and the receiver's.
LEMMA SenderLog ==
  ASSUME NEW C, NEW l, NEW D, NEW m, NEW toD, NEW toC, Direction(C, l, D, m, toD, toC),
         NEW l2, l2.wrote = l.wrote, l2.shut = l.shut
  PROVE  Direction(C, l2, D, m, toD, toC)
<1>1. (\A c : Sent(c, l2) = Sent(c, l)) /\ (\A q : DataOf(l2, q) = DataOf(l, q))
  BY DEF Sent, DataOf
<1>2. LogOK(l2, m) = LogOK(l, m) /\ \A d : ReceiverOK(d, m, l2) = ReceiverOK(d, m, l)
  BY <1>1 DEF LogOK, ReceiverOK
<1>3. \A c : SenderOK(c, l) => SenderOK(c, l2)
  BY <1>1 DEF SenderOK
<1>8. \A c, r : AckedTo(c, l, r) => AckedTo(c, l2, r)
  BY <1>1 DEF AckedTo
<1>4. \A c, d : PairOK(c, l2, d, m) = PairOK(c, l, d, m)
  BY <1>1 DEF PairOK
<1>5. \A p : AckOf(C, l2, D, m, p) = AckOf(C, l, D, m, p) /\ DataFor(C, l2, D, m, p) = DataFor(C, l, D, m, p)
  BY <1>1 DEF AckOf, DataFor
<1>6. WindowOK(C, l, D, m) => WindowOK(C, l2, D, m)
  BY <1>8 DEF WindowOK
<1>7. NetOK(C, l2, D, m, toD, toC) = NetOK(C, l, D, m, toD, toC)
  BY <1>5 DEF NetOK
<1> QED BY <1>2, <1>3, <1>4, <1>5, <1>6, <1>7 DEF Direction

\* The log changes with what the receiver does.
LEMMA ReceiverLog ==
  ASSUME NEW C, NEW l, NEW D, NEW m, NEW toD, NEW toC, Direction(C, l, D, m, toD, toC),
         NEW m2, m2.handed = m.handed, m2.notice = m.notice
  PROVE  Direction(C, l, D, m2, toD, toC)
<1>1. (\A d : Got(d, m2) = Got(d, m)) /\ (\A d, n : Has(d, m2, n) = Has(d, m, n))
  BY DEF Got, Has
<1>2. LogOK(l, m2) = LogOK(l, m)
  BY DEF LogOK
<1>7. ASSUME NEW d, ReceiverOK(d, m, l) PROVE ReceiverOK(d, m2, l)
  BY <1>1, <1>7 DEF ReceiverOK
<1>3. \A c, d : PairOK(c, l, d, m2) = PairOK(c, l, d, m)
  BY <1>1 DEF PairOK
<1>4. \A p : AckOf(C, l, D, m2, p) = AckOf(C, l, D, m, p) /\ DataFor(C, l, D, m2, p) = DataFor(C, l, D, m, p)
  BY <1>1 DEF AckOf, DataFor
<1>5. WindowOK(C, l, D, m2) = WindowOK(C, l, D, m)
  BY <1>1 DEF WindowOK
<1>6. NetOK(C, l, D, m2, toD, toC) = NetOK(C, l, D, m, toD, toC)
  BY <1>4 DEF NetOK
<1> QED BY <1>2, <1>3, <1>4, <1>5, <1>6, <1>7 DEF Direction

\* The receiving part is left alone by what is done with the sending one.
LEMMA OtherDirection ==
  ASSUME NEW c, NEW l, NEW D, NEW m, NEW toD, NEW toC, Link({c}, l, D, m, toD, toC),
         NEW c2, NEW l2, Shapes({c2}, l2, D, m), SameReceiver(c, c2), c2.unacked = c.unacked,
         l2.handed = l.handed, l2.notice = l.notice
  PROVE  Direction(D, m, {c2}, l2, toC, toD)
<1>1. Direction(D, m, {c}, l, toC, toD) /\ Shapes({c}, l, D, m)
  BY DEF Link
<1>2. Direction(D, m, {c}, l2, toC, toD)
  BY <1>1, ReceiverLog
<1>3. Shapes(D, m, {c}, l2) /\ Shapes(D, m, {c2}, l2)
  BY <1>1 DEF Shapes
<1>4. \A d2 \in {c2} : \E d \in {c} : /\ SameReceiver(d, d2)
                                      /\ \A q \in d2.unacked : q \in d.unacked \/ AckOf(D, m, {c}, l2, q)
  OBVIOUS
<1>5. toD \subseteq toD /\ toC \subseteq toC
  OBVIOUS
<1> QED BY <1>2, <1>3, <1>4, <1>5, ReceiverStays

\* The game writes a message.
LEMMA LinkWrites ==
  ASSUME NEW c, NEW l, NEW D, NEW m, NEW toD, NEW toC, Link({c}, l, D, m, toD, toC),
         NEW x \in Message, ~c.shut,
         NEW c2, c2 = [c EXCEPT !.out = Append(@, x)], IsConn(c2),
         NEW l2, l2 = [l EXCEPT !.wrote = Append(@, x)], l2 \in LogRecord
  PROVE  Link({c2}, l2, D, m, toD, toC)
<1>1. /\ Direction({c}, l, D, m, toD, toC) /\ Shapes({c}, l, D, m)
      /\ DOMAIN c = ConnFields /\ l \in LogRecord
  BY DEF Link, Shapes, IsConn, Shaped
<1>2. Shapes({c2}, l2, D, m)
  BY <1>1 DEF Shapes
<1>3. /\ c2.out = Append(c.out, x) /\ c2.shut = c.shut /\ c2.destroy = c.destroy
      /\ c2.destroyed = c.destroyed /\ c2.sentShutdown = c.sentShutdown
      /\ c2.next = c.next /\ c2.unacked = c.unacked /\ c2.remote = c.remote
      /\ c2.input = c.input /\ c2.eof = c.eof /\ c2.dispatchedEof = c.dispatchedEof
      /\ c2.expected = c.expected /\ c2.early = c.early /\ c2.state = c.state
  BY <1>1 DEF ConnFields
<1>4. /\ l2.wrote = Append(l.wrote, x) /\ l2.shut = l.shut
      /\ l2.handed = l.handed /\ l2.notice = l.notice
  BY <1>1 DEF LogRecord
<1>5. SameReceiver(c, c2)
  BY <1>3 DEF SameReceiver, Talking
<1>6. Direction({c2}, l2, D, m, toD, toC)
  BY <1>1, <1>2, <1>3, <1>4, Wrote
<1>7. Direction(D, m, {c2}, l2, toC, toD)
  BY <1>2, <1>3, <1>4, <1>5, OtherDirection
<1> QED BY <1>2, <1>6, <1>7 DEF Link

\* A connection is asked to go.
LEMMA LinkShuts ==
  ASSUME NEW c, NEW l, NEW D, NEW m, NEW toD, NEW toC, Link({c}, l, D, m, toD, toC),
         NEW l2, l2 = [l EXCEPT !.shut = TRUE], l2 \in LogRecord
  PROVE  Link({ShutOutput(c)}, l2, D, m, toD, toC)
<1> DEFINE c2 == ShutOutput(c)
<1>1. /\ Direction({c}, l, D, m, toD, toC) /\ Shapes({c}, l, D, m)
      /\ DOMAIN c = ConnFields /\ l \in LogRecord /\ IsConn(c)
  BY DEF Link, Shapes, IsConn, Shaped
<1>2. Shapes({c2}, l2, D, m)
  BY <1>1, ShutIsConn DEF Shapes
<1>3. /\ c2.out = c.out /\ c2.shut = TRUE /\ c2.destroy = TRUE
      /\ c2.destroyed = c.destroyed /\ c2.sentShutdown = c.sentShutdown
      /\ c2.next = c.next /\ c2.unacked = c.unacked /\ c2.remote = c.remote
      /\ c2.input = c.input /\ c2.eof = c.eof /\ c2.dispatchedEof = c.dispatchedEof
      /\ c2.expected = c.expected /\ c2.early = c.early /\ c2.state = c.state
  BY <1>1 DEF ConnFields, ShutOutput
<1> HIDE DEF c2
<1>4. /\ l2.wrote = l.wrote /\ l2.shut = TRUE
      /\ l2.handed = l.handed /\ l2.notice = l.notice
  BY <1>1 DEF LogRecord
<1>5. SameReceiver(c, c2)
  BY <1>3 DEF SameReceiver, Talking
<1>6. Direction({c2}, l2, D, m, toD, toC)
  BY <1>1, <1>2, <1>3, <1>4, Shut
<1>7. Direction(D, m, {c2}, l2, toC, toD)
  BY <1>2, <1>3, <1>4, <1>5, OtherDirection
<1> QED BY <1>2, <1>6, <1>7 DEF Link, c2

\* The game is handed what waits for it.
LEMMA LinkHands ==
  ASSUME NEW c, NEW l, NEW D, NEW m, NEW toD, NEW toC, Link({c}, l, D, m, toD, toC),
         ~c.destroyed, Dispatches(c), IsConn(Dispatched(c)),
         NEW l2, l2 = [l EXCEPT !.handed = @ \o c.input, !.notice = Notice(c)], l2 \in LogRecord
  PROVE  Link({Dispatched(c)}, l2, D, m, toD, toC)
<1> DEFINE c2 == Dispatched(c)
<1>1. /\ Direction({c}, l, D, m, toD, toC) /\ Shapes({c}, l, D, m) /\ Shapes(D, m, {c}, l)
      /\ Direction(D, m, {c}, l, toC, toD)
      /\ DOMAIN c = ConnFields /\ l \in LogRecord /\ IsConn(c)
  BY DEF Link, Shapes, IsConn, Shaped
<1>2. Shapes({c2}, l2, D, m) /\ Shapes(D, m, {c2}, l2) /\ Shapes({c2}, l, D, m)
  BY <1>1 DEF Shapes
<1>3. l2.wrote = l.wrote /\ l2.shut = l.shut /\ l2.handed = l.handed \o c.input /\ l2.notice = Notice(c)
  BY <1>1 DEF LogRecord
<1>4. /\ c2.out = c.out /\ c2.shut = c.shut /\ c2.destroy = c.destroy
      /\ c2.destroyed = c.destroyed /\ c2.sentShutdown = c.sentShutdown
      /\ c2.next = c.next /\ c2.unacked = c.unacked /\ c2.remote = c.remote
  BY <1>1 DEF ConnFields, Dispatched
<1>5. c2 = Dispatched(c)
  OBVIOUS
<1> HIDE DEF c2
<1>6. SameSender(c, c2)
  <2>1. c.destroyed => c.destroy
    BY <1>1 DEF Direction, SenderOK
  <2> QED BY <1>4, <2>1 DEF SameSender
<1>7. Direction({c2}, l, D, m, toD, toC)
  BY <1>1, <1>6, SenderStays
<1>8. Direction({c2}, l2, D, m, toD, toC)
  BY <1>3, <1>7, SenderLog
<1>9. Direction(D, m, {c2}, l2, toC, toD)
  BY <1>1, <1>2, <1>3, <1>5, HandedOut
<1> QED BY <1>2, <1>5, <1>8, <1>9 DEF Link

----------------------------------------------------------------------------
(* The invariant of an established link *)

\* The connection of a link that was established, while it is there.
One(e) == {conn[e][i] : i \in DOMAIN conn[e] \intersect {1}}
\* A connection other than that of the link: nothing was ever sent on it.
Spare(c, l) == /\ c.state \in {"Connecting", "Errored"}
               /\ Len(c.out) = Len(l.wrote) /\ ~c.sentShutdown
\* What is under way on an established link.
Wire(p) == IsAck(p) \/ IsData(p) \/ p = GoodbyePacket

\* The parts of the invariant: the lists of connections, the packets, the handshake
\* that is over, and the link as each end sees it.
Lists ==
  \A e \in End : \A i \in DOMAIN conn[e] :
    IF i = 1 THEN conn[e][i].state \in {"Establishing", "TimedOut", "Errored"}
    ELSE Spare(conn[e][i], log[e][i])
Wires == \A e \in End : \A p \in net[e] : Wire(p)
Late == \A e \in End : Len(log[e]) >= 1 /\ clock[e] = MaxTime[e]
At(e) == Link(One(e), log[e][1], One(Peer(e)), log[Peer(e)][1], net[Peer(e)], net[e])
TransferInv == Typed /\ Lists /\ Wires /\ Late /\ \A e \in End : At(e)

\* A link is one for both ends.
LEMMA LinkTurns ==
  ASSUME NEW C, NEW l, NEW D, NEW m, NEW toD, NEW toC, Link(C, l, D, m, toD, toC)
  PROVE  Link(D, m, C, l, toC, toD)
BY DEF Link, Shapes

LEMMA LinkShrinks ==
  ASSUME NEW C, NEW l, NEW D, NEW m, NEW toD, NEW toC, Link(C, l, D, m, toD, toC),
         NEW C2, C2 \subseteq C, NEW toD2, toD2 \subseteq toD, NEW toC2, toC2 \subseteq toC
  PROVE  Link(C2, l, D, m, toD2, toC2)
<1>1. \A c \in C2 : IsConn(c) /\ SenderOK(c, l)
  BY DEF Link, Shapes, Direction
<1>2. \A c \in C2 : IsConn(c) /\ \E c0 \in C : Same(c0, c)
  BY <1>1 DEF Same, SameSender, SameReceiver, SenderOK
<1> QED BY <1>2, LinkFades

LEMMA OneIs ==
  ASSUME Typed, NEW e \in End
  PROVE  /\ 1 \in DOMAIN conn[e] => One(e) = {conn[e][1]}
         /\ 1 \notin DOMAIN conn[e] => One(e) = {}
BY DEF One

\* A step of one end: what is left to show of it.
LEMMA EndStep ==
  ASSUME TransferInv, Typed', NEW e \in End, NEW f, conn' = [conn EXCEPT ![e] = f],
         log'[Peer(e)] = log[Peer(e)], Len(log'[e]) >= 1, UNCHANGED clock,
         \A x \in End : \A p \in net'[x] : Wire(p),
         \A i \in DOMAIN f : IF i = 1 THEN f[i].state \in {"Establishing", "TimedOut", "Errored"}
                             ELSE Spare(f[i], log'[e][i]),
         NEW C, C = {f[i] : i \in DOMAIN f \intersect {1}},
         Link(C, log'[e][1], One(Peer(e)), log[Peer(e)][1], net'[Peer(e)], net'[e])
  PROVE  TransferInv'
<1> DEFINE q == Peer(e)
<1>1. q \in End /\ Peer(q) = e /\ q # e /\ \A x \in End : x = e \/ x = q
  BY PeerOf, Peers
<1>2. DOMAIN conn = End
  BY DEF TransferInv, Typed, ConnTyped
<1>3. conn'[e] = f /\ conn'[q] = conn[q]
  BY <1>1, <1>2
<1>4. One(e)' = C /\ One(q)' = One(q)
  BY <1>3 DEF One
<1>5. At(e)'
  <2>1. Link(One(e)', log'[e][1], One(q)', log'[q][1], net'[q], net'[e])
    BY <1>4
  <2> QED BY <2>1 DEF At
<1>6. At(q)'
  <2>1. Link(One(q)', log'[q][1], One(e)', log'[e][1], net'[e], net'[q])
    BY <1>4, LinkTurns
  <2> QED BY <1>1, <2>1 DEF At
<1>7. \A x \in End : At(x)'
  BY <1>1, <1>5, <1>6
<1>8. Lists'
  <2>1. ASSUME NEW i \in DOMAIN conn'[q]
        PROVE  IF i = 1 THEN conn'[q][i].state \in {"Establishing", "TimedOut", "Errored"}
               ELSE Spare(conn'[q][i], log'[q][i])
    BY <1>1, <1>3, <2>1 DEF TransferInv, Lists
  <2>2. ASSUME NEW i \in DOMAIN conn'[e]
        PROVE  IF i = 1 THEN conn'[e][i].state \in {"Establishing", "TimedOut", "Errored"}
               ELSE Spare(conn'[e][i], log'[e][i])
    BY <1>3, <2>2
  <2> QED BY <1>1, <2>1, <2>2 DEF Lists
<1>9. Wires'
  BY DEF Wires
<1>10. Late'
  BY <1>1 DEF TransferInv, Late
<1> QED BY <1>7, <1>8, <1>9, <1>10 DEF TransferInv

\* A step that sends, or goes, at one connection.
LEMMA NetworkStep ==
  ASSUME TransferInv, Typed', NEW e \in End, NEW i \in DOMAIN conn[e], NEW c2, Set(e, i, c2),
         UNCHANGED <<clock, log>>, NEW n, net'[Peer(e)] = n, net'[e] = net[e],
         \A p \in n : p \in net[Peer(e)] \/ Wire(p),
         i = 1 => /\ c2.state \in {"Establishing", "TimedOut", "Errored"}
                  /\ Link({c2}, log[e][1], One(Peer(e)), log[Peer(e)][1], n, net[e]),
         i # 1 => Spare(c2, log[e][i]) /\ n \subseteq net[Peer(e)]
  PROVE  TransferInv'
<1> DEFINE f == [conn[e] EXCEPT ![i] = c2]
           C == {f[k] : k \in DOMAIN f \intersect {1}}
           l == log[e][1]
           D == One(Peer(e))
           m == log[Peer(e)][1]
<1>1. Peer(e) \in End /\ Peer(e) # e /\ DOMAIN net = End /\ Typed /\ \A x \in End : x = e \/ x = Peer(e)
  BY PeerOf, Peers DEF TransferInv, Typed, NetTyped
<1>2. conn' = [conn EXCEPT ![e] = f]
  BY DEF Set
<1>3. DOMAIN f = DOMAIN conn[e] /\ f[i] = c2 /\ \A k \in DOMAIN f : k # i => f[k] = conn[e][k]
  OBVIOUS
<1>4. net'[Peer(e)] = n /\ net'[e] = net[e] /\ \A x \in End : x # Peer(e) => net'[x] = net[x]
  BY <1>1
<1>5. \A x \in End : \A p \in net'[x] : Wire(p)
  BY <1>1, <1>4 DEF TransferInv, Wires
<1> HIDE DEF f
<1>6. \A k \in DOMAIN f : IF k = 1 THEN f[k].state \in {"Establishing", "TimedOut", "Errored"}
                          ELSE Spare(f[k], log'[e][k])
  BY <1>3 DEF TransferInv, Lists
<1>7. Link(C, l, D, m, n, net[e])
  <2>1. CASE i = 1
    <3>1. C = {c2}
      BY <1>3, <2>1
    <3> HIDE DEF C
    <3> QED BY <2>1, <3>1
  <2>2. CASE i # 1
    <3>1. C = One(e)
      BY <1>3, <2>2 DEF One
    <3>2. Link(One(e), l, D, m, net[Peer(e)], net[e])
      BY DEF TransferInv, At
    <3> HIDE DEF C
    <3>3. C \subseteq One(e) /\ n \subseteq net[Peer(e)] /\ net[e] \subseteq net[e]
      BY <2>2, <3>1
    <3> QED BY <3>2, <3>3, LinkShrinks
  <2> QED BY <2>1, <2>2
<1>8. log'[Peer(e)] = log[Peer(e)] /\ Len(log'[e]) >= 1 /\ UNCHANGED clock
  BY DEF TransferInv, Late
<1>9. Link(C, log'[e][1], One(Peer(e)), log[Peer(e)][1], net'[Peer(e)], net'[e])
  BY <1>4, <1>7
<1>10. C = {f[k] : k \in DOMAIN f \intersect {1}}
  OBVIOUS
<1> HIDE DEF C
<1> QED BY <1>2, <1>5, <1>6, <1>8, <1>9, <1>10, EndStep

\* A packet put on the network, and the answer that is owed no more.
LEMMA SendStep ==
  ASSUME TransferInv, Typed', NEW e \in End, 1 \in DOMAIN conn[e], NEW c, NEW p, SendPacket(e, 1, c, p),
         UNCHANGED <<clock, log>>, Wire(p), IsConn(c),
         c.state \in {"Establishing", "TimedOut", "Errored"},
         \A n \in SUBSET (net[Peer(e)] \union {p}) :
           Link({c}, log[e][1], One(Peer(e)), log[Peer(e)][1], n, net[e])
  PROVE  TransferInv'
<1> DEFINE c2 == [c EXCEPT !.owes = FALSE]
<1>1. PICK n \in Carried(Peer(e), p) : net' = [net EXCEPT ![Peer(e)] = n]
  BY DEF SendPacket
<1>2. Peer(e) \in End
  BY PeerOf
<1>3. n \subseteq net[Peer(e)] \union {p}
  BY <1>2, CarriedIs
<1>4. Link({c}, log[e][1], One(Peer(e)), log[Peer(e)][1], n, net[e])
  BY <1>3
<1>5. c.destroyed => c.destroy
  BY <1>4 DEF Link, Direction, SenderOK
<1>6. DOMAIN c = ConnFields
  BY DEF IsConn, Shaped
<1>7. Same(c, c2) /\ c2.state = c.state
  BY <1>5, <1>6 DEF Same, SameSender, SameReceiver, Talking, ConnFields
<1>8. IsConn(c2)
  BY SentIsConn
<1>9. Set(e, 1, c2)
  BY DEF SendPacket
<1> HIDE DEF c2
<1>10. Link({c2}, log[e][1], One(Peer(e)), log[Peer(e)][1], n, net[e])
  <2>1. \A k \in {c2} : IsConn(k) /\ \E k0 \in {c} : Same(k0, k)
    BY <1>7, <1>8
  <2>2. n \subseteq n /\ net[e] \subseteq net[e]
    OBVIOUS
  <2> QED BY <1>4, <2>1, <2>2, LinkFades
<1>11. \A q \in n : q \in net[Peer(e)] \/ Wire(q)
  BY <1>3
<1>12. c2.state \in {"Establishing", "TimedOut", "Errored"}
  BY <1>7
<1>13. UNCHANGED <<clock, log>>
  OBVIOUS
<1>14. net'[Peer(e)] = n /\ net'[e] = net[e]
  BY <1>1, <1>2, PeerOf DEF TransferInv, Typed, NetTyped
<1> QED BY <1>14, <1>9, <1>10, <1>11, <1>12, <1>13, NetworkStep

\* No handshake packet is sent any more.
LEMMA HandshakeIsOver ==
  ASSUME TransferInv, NEW e \in End, NEW i
  PROVE  ~SendConnect(e, i) /\ ~SendAnswer(e, i)
<1>1. clock[e] = MaxTime[e] /\ MaxTime[e] \in Nat
  BY BoundAssumption DEF TransferInv, Late
<1> QED BY <1>1 DEF SendConnect, SendAnswer, SendHandshake

\* What the sending actions find: the connection of the link.
LEMMA TalksAtOne ==
  ASSUME TransferInv, NEW e \in End, NEW i \in DOMAIN conn[e],
         conn[e][i].state \in {"Establishing", "TimedOut"}
  PROVE  i = 1
BY DEF TransferInv, Lists, Spare

LEMMA OneLink ==
  ASSUME TransferInv, NEW e \in End, 1 \in DOMAIN conn[e]
  PROVE  /\ Link({conn[e][1]}, log[e][1], One(Peer(e)), log[Peer(e)][1], net[Peer(e)], net[e])
         /\ IsConn(conn[e][1]) /\ log[e][1] \in LogRecord
         /\ conn[e][1].state \in {"Establishing", "TimedOut", "Errored"}
         /\ conn[e][1].destroyed => conn[e][1].destroy
         /\ \A p \in conn[e][1].unacked : IsData(p)
<1>1. One(e) = {conn[e][1]}
  BY OneIs DEF TransferInv
<1>2. Link({conn[e][1]}, log[e][1], One(Peer(e)), log[Peer(e)][1], net[Peer(e)], net[e])
  BY <1>1 DEF TransferInv, At
<1>3. IsConn(conn[e][1]) /\ log[e][1] \in LogRecord
  BY <1>2 DEF Link, Shapes
<1>4. conn[e][1].state \in {"Establishing", "TimedOut", "Errored"}
  BY DEF TransferInv, Lists
<1>5. conn[e][1].destroyed => conn[e][1].destroy
  BY <1>2 DEF Link, Direction, SenderOK
<1> QED BY <1>2, <1>3, <1>4, <1>5 DEF IsConn, Shaped

\* A change of a connection that leaves its two parts, or takes it away.
LEMMA FadeStep ==
  ASSUME TransferInv, Typed', NEW e \in End, 1 \in DOMAIN conn[e], NEW c2, Set(e, 1, c2), IsConn(c2),
         Same(conn[e][1], c2), c2.state \in {"Establishing", "TimedOut", "Errored"},
         UNCHANGED <<net, clock, log>>
  PROVE  TransferInv'
<1> DEFINE n == net[Peer(e)]
<1>1. net'[Peer(e)] = n /\ net'[e] = net[e]
  OBVIOUS
<1>2. Link({conn[e][1]}, log[e][1], One(Peer(e)), log[Peer(e)][1], n, net[e])
  BY OneLink
<1>3. Link({c2}, log[e][1], One(Peer(e)), log[Peer(e)][1], n, net[e])
  <2>1. \A k \in {c2} : IsConn(k) /\ \E k0 \in {conn[e][1]} : Same(k0, k)
    OBVIOUS
  <2>2. n \subseteq n /\ net[e] \subseteq net[e]
    OBVIOUS
  <2> QED BY <1>2, <2>1, <2>2, LinkFades
<1>4. \A p \in n : p \in net[Peer(e)] \/ Wire(p)
  OBVIOUS
<1>5. UNCHANGED <<clock, log>>
  OBVIOUS
<1> HIDE DEF n
<1> QED BY <1>1, <1>3, <1>4, <1>5, NetworkStep

\* The steps of the connector that sends keep the invariant.
LEMMA DestroyAtOnceKeeps ==
  ASSUME TransferInv, Typed', NEW e \in End, NEW i, DestroyAtOnce(e, i)
  PROVE  TransferInv'
<1> DEFINE c == conn[e][i]
           c2 == [c EXCEPT !.destroyed = TRUE]
<1>1. i \in DOMAIN conn[e] /\ Set(e, i, c2) /\ c.destroy /\ UNCHANGED <<net, clock, log>>
  BY DEF DestroyAtOnce, Sending
<1>2. IsConn(c) /\ DOMAIN c = ConnFields
  BY <1>1 DEF TransferInv, Typed, ConnTyped, IsConn, Shaped
<1>3. c2.destroyed /\ c2.destroy /\ \A x \in ConnFields \ {"destroyed"} : c2[x] = c[x]
  BY <1>1, <1>2 DEF ConnFields
<1>4. /\ c2.out = c.out /\ c2.shut = c.shut /\ c2.destroy = c.destroy /\ c2.sentShutdown = c.sentShutdown
      /\ c2.next = c.next /\ c2.unacked = c.unacked /\ c2.remote = c.remote /\ c2.state = c.state
      /\ c2.input = c.input /\ c2.eof = c.eof /\ c2.dispatchedEof = c.dispatchedEof
      /\ c2.expected = c.expected /\ c2.early = c.early
  BY <1>3 DEF ConnFields
<1>5. IsConn(c2)
  BY <1>2 DEF IsConn, Shaped, ConnFields, BeforeErrored
<1> HIDE DEF c2
<1>6. CASE i = 1
  <2>1. Same(conn[e][1], c2)
    BY <1>1, <1>3, <1>4, <1>6 DEF Same, SameSender, SameReceiver, Talking
  <2>2. c2.state \in {"Establishing", "TimedOut", "Errored"}
    BY <1>1, <1>4, <1>6 DEF TransferInv, Lists
  <2> QED BY <1>1, <1>5, <1>6, <2>1, <2>2, FadeStep
<1>7. CASE i # 1
  <2> DEFINE n == net[Peer(e)]
  <2>1. net'[Peer(e)] = n /\ net'[e] = net[e]
    BY <1>1
  <2>2. Spare(c2, log[e][i])
    BY <1>1, <1>4, <1>7 DEF TransferInv, Lists, Spare
  <2>3. (\A p \in n : p \in net[Peer(e)] \/ Wire(p)) /\ n \subseteq net[Peer(e)]
    OBVIOUS
  <2>4. UNCHANGED <<clock, log>>
    BY <1>1
  <2> HIDE DEF n
  <2> QED BY <1>1, <1>7, <2>1, <2>2, <2>3, <2>4, NetworkStep
<1> QED BY <1>6, <1>7

LEMMA TimeOutKeeps ==
  ASSUME TransferInv, Typed', NEW e \in End, NEW i, TimeOut(e, i)
  PROVE  TransferInv'
<1> DEFINE c == conn[e][i]
           c2 == [c EXCEPT !.state = "TimedOut", !.destroyed = c.destroy]
<1>1. /\ i \in DOMAIN conn[e] /\ Set(e, i, c2) /\ c.state = "Establishing" /\ ~c.destroyed
      /\ UNCHANGED <<net, clock, log>>
  BY DEF TimeOut, Established, Sending
<1>2. i = 1
  BY <1>1, TalksAtOne
<1>3. IsConn(c) /\ DOMAIN c = ConnFields
  BY <1>1 DEF TransferInv, Typed, ConnTyped, IsConn, Shaped
<1>4. /\ c2.out = c.out /\ c2.shut = c.shut /\ c2.destroy = c.destroy /\ c2.sentShutdown = c.sentShutdown
      /\ c2.next = c.next /\ c2.unacked = c.unacked /\ c2.remote = c.remote
      /\ c2.input = c.input /\ c2.eof = c.eof /\ c2.dispatchedEof = c.dispatchedEof
      /\ c2.expected = c.expected /\ c2.early = c.early
      /\ c2.state = "TimedOut" /\ c2.destroyed = c.destroy
  BY <1>3 DEF ConnFields
<1>5. IsConn(c2)
  BY <1>1, <1>3 DEF IsConn, Shaped, ConnFields, BeforeErrored
<1> HIDE DEF c2
<1>6. Same(conn[e][1], c2)
  BY <1>1, <1>2, <1>4 DEF Same, SameSender, SameReceiver, Talking
<1> QED BY <1>1, <1>2, <1>4, <1>5, <1>6, FadeStep

LEMMA ResendKeeps ==
  ASSUME TransferInv, Typed', NEW e \in End, NEW i, Resend(e, i)
  PROVE  TransferInv'
<1> DEFINE c == conn[e][i]
<1>1. i \in DOMAIN conn[e] /\ c.state = "Establishing" /\ UNCHANGED <<clock, log>>
  BY DEF Resend, Established, Sending
<1>2. PICK p \in c.unacked : SendPacket(e, i, c, p)
  BY DEF Resend
<1>3. i = 1
  BY <1>1, TalksAtOne
<1>4. \A n \in SUBSET (net[Peer(e)] \union {p}) :
        Link({conn[e][1]}, log[e][1], One(Peer(e)), log[Peer(e)][1], n, net[e])
  BY <1>1, <1>2, <1>3, OneLink, LinkResends
<1>5. Wire(p) /\ IsConn(c) /\ c.state \in {"Establishing", "TimedOut", "Errored"}
  BY <1>1, <1>2, <1>3, OneLink DEF Wire
<1> QED BY <1>1, <1>2, <1>3, <1>4, <1>5, SendStep

LEMMA SendDataKeeps ==
  ASSUME TransferInv, Typed', NEW e \in End, NEW i, SendData(e, i)
  PROVE  TransferInv'
<1> DEFINE c == conn[e][i]
           l == log[e][i]
           p == Packet(c, l)
           c2 == Made(c, p)
<1>1. /\ i \in DOMAIN conn[e] /\ c.state = "Establishing" /\ ~c.destroyed /\ HasPacketWaiting(c)
      /\ UNCHANGED <<clock, log>>
  BY DEF SendData, Established, Sending
<1>2. SendPacket(e, i, c2, p)
  BY DEF SendData, Made, Packet
<1>3. i = 1
  BY <1>1, TalksAtOne
<1>4. /\ Link({c}, l, One(Peer(e)), log[Peer(e)][1], net[Peer(e)], net[e])
      /\ IsConn(c) /\ l \in LogRecord /\ DOMAIN c = ConnFields
  BY <1>1, <1>3, OneLink DEF IsConn, Shaped
<1>5. IsData(p) /\ IsConn(c2)
  BY <1>4, MadeIsConn
<1>6. c2.state = c.state
  BY <1>4 DEF Made, ConnFields
<1>7. Talking(c)
  BY <1>1 DEF Talking
<1>8. p = Packet(c, l) /\ c2 = Made(c, p)
  OBVIOUS
<1> HIDE DEF p, c2
<1>9. ASSUME NEW n \in SUBSET (net[Peer(e)] \union {p})
      PROVE  Link({c2}, l, One(Peer(e)), log[Peer(e)][1], n, net[e])
  BY <1>1, <1>4, <1>5, <1>7, <1>8, LinkSendsData
<1>10. Wire(p) /\ c2.state \in {"Establishing", "TimedOut", "Errored"}
  BY <1>1, <1>5, <1>6 DEF Wire
<1> QED BY <1>1, <1>2, <1>3, <1>5, <1>9, <1>10, SendStep

LEMMA SendGoodbyeKeeps ==
  ASSUME TransferInv, Typed', NEW e \in End, NEW i, SendGoodbye(e, i)
  PROVE  TransferInv'
<1> DEFINE c == conn[e][i]
           c2 == [c EXCEPT !.destroyed = TRUE]
           p == GoodbyePacket
<1>1. /\ i \in DOMAIN conn[e] /\ c.state = "Establishing" /\ SaidEverything(c)
      /\ UNCHANGED <<clock, log>> /\ SendPacket(e, i, c2, p)
  BY DEF SendGoodbye, Established, Sending
<1>2. i = 1
  BY <1>1, TalksAtOne
<1>3. /\ Link({c}, log[e][1], One(Peer(e)), log[Peer(e)][1], net[Peer(e)], net[e])
      /\ IsConn(c) /\ DOMAIN c = ConnFields
  BY <1>1, <1>2, OneLink DEF IsConn, Shaped
<1>4. /\ c2.out = c.out /\ c2.shut = c.shut /\ c2.destroy = c.destroy /\ c2.sentShutdown = c.sentShutdown
      /\ c2.next = c.next /\ c2.unacked = c.unacked /\ c2.remote = c.remote
      /\ c2.input = c.input /\ c2.eof = c.eof /\ c2.dispatchedEof = c.dispatchedEof
      /\ c2.expected = c.expected /\ c2.early = c.early
      /\ c2.state = c.state /\ c2.destroyed = TRUE
  BY <1>3 DEF ConnFields
<1>5. IsConn(c2)
  BY <1>3 DEF IsConn, Shaped, ConnFields, BeforeErrored
<1> HIDE DEF c2
<1>6. Same(c, c2) /\ c2.sentShutdown /\ c2.unacked = {} /\ c2.destroyed
  BY <1>1, <1>4 DEF Same, SameSender, SameReceiver, Talking, SaidEverything
<1>7. Link({c2}, log[e][1], One(Peer(e)), log[Peer(e)][1], net[Peer(e)], net[e])
  <2>1. \A k \in {c2} : IsConn(k) /\ \E k0 \in {c} : Same(k0, k)
    BY <1>5, <1>6
  <2>2. net[Peer(e)] \subseteq net[Peer(e)] /\ net[e] \subseteq net[e]
    OBVIOUS
  <2> QED BY <1>3, <2>1, <2>2, LinkFades
<1>8. ASSUME NEW n \in SUBSET (net[Peer(e)] \union {p})
      PROVE  Link({c2}, log[e][1], One(Peer(e)), log[Peer(e)][1], n, net[e])
  BY <1>6, <1>7, LinkSaysGoodbye
<1>9. Wire(p) /\ c2.state \in {"Establishing", "TimedOut", "Errored"}
  BY <1>1, <1>4 DEF Wire
<1> QED BY <1>1, <1>2, <1>5, <1>8, <1>9, SendStep

LEMMA SendAckKeeps ==
  ASSUME TransferInv, Typed', NEW e \in End, NEW i, SendKeepAlive(e, i) \/ SendAck(e, i)
  PROVE  TransferInv'
<1> DEFINE c == conn[e][i]
           l == log[e][i]
<1>1. /\ i \in DOMAIN conn[e] /\ ~c.destroyed /\ c.state \in {"Establishing", "TimedOut"}
      /\ UNCHANGED <<clock, log>>
      /\ \E kind \in {"Ack", "KeepAlive"} : SendPacket(e, i, c, AckPacket(c, l, kind))
  BY DEF SendKeepAlive, SendAck, Established, Sending
<1>2. PICK kind \in {"Ack", "KeepAlive"} : SendPacket(e, i, c, AckPacket(c, l, kind))
  BY <1>1
<1>3. i = 1
  BY <1>1, TalksAtOne
<1>4. /\ Link({c}, l, One(Peer(e)), log[Peer(e)][1], net[Peer(e)], net[e])
      /\ IsConn(c) /\ l \in LogRecord
  BY <1>1, <1>3, OneLink
<1> DEFINE p == AckPacket(c, l, kind)
<1>5. IsAck(p)
  BY <1>4, HeaderTyped
<1>6. Talking(c)
  BY <1>1 DEF Talking
<1>7. ASSUME NEW n \in SUBSET (net[Peer(e)] \union {p})
      PROVE  Link({c}, l, One(Peer(e)), log[Peer(e)][1], n, net[e])
  BY <1>4, <1>6, LinkAcks
<1>8. Wire(p) /\ c.state \in {"Establishing", "TimedOut", "Errored"}
  BY <1>1, <1>5 DEF Wire
<1>9. SendPacket(e, i, c, p)
  BY <1>2
<1> HIDE DEF p
<1> QED BY <1>1, <1>3, <1>4, <1>7, <1>8, <1>9, SendStep

LEMMA NetworkKeeps ==
  ASSUME TransferInv, Typed', NEW e \in End, NEW i, Network(e, i)
  PROVE  TransferInv'
BY HandshakeIsOver, DestroyAtOnceKeeps, TimeOutKeeps, ResendKeeps, SendDataKeeps, SendGoodbyeKeeps,
   SendAckKeeps DEF Network

\* The link, and the logs, at an end.
LEMMA EndLink ==
  ASSUME TransferInv, NEW e \in End
  PROVE  /\ Link(One(e), log[e][1], One(Peer(e)), log[Peer(e)][1], net[Peer(e)], net[e])
         /\ Peer(e) \in End /\ Peer(e) # e /\ DOMAIN net = End /\ DOMAIN log = End
         /\ (\A x \in End : x = e \/ x = Peer(e))
         /\ log[e] \in Seq(LogRecord) /\ Len(log[e]) \in Nat /\ 1 <= Len(log[e]) /\ log[e][1] \in LogRecord
<1>1. log \in [End -> Seq(LogRecord)] /\ DOMAIN net = End
  BY DEF TransferInv, Typed, LogTyped, NetTyped
<1>2. log[e] \in Seq(LogRecord) /\ Len(log[e]) \in Nat /\ DOMAIN log = End
  BY <1>1
<1>3. 1 <= Len(log[e])
  BY <1>2 DEF TransferInv, Late
<1>4. Link(One(e), log[e][1], One(Peer(e)), log[Peer(e)][1], net[Peer(e)], net[e])
  BY DEF TransferInv, At
<1>5. log[e][1] \in LogRecord
  BY <1>2, <1>3
<1>6. Peer(e) \in End /\ Peer(e) # e /\ \A x \in End : x = e \/ x = Peer(e)
  BY PeerOf, Peers
<1> QED BY <1>1, <1>2, <1>3, <1>4, <1>5, <1>6

\* A new connection that is connecting, or one that failed, has no ear.
LEMMA SpareIsDeaf ==
  ASSUME NEW c, NEW l, Spare(c, l), NEW p, Wire(p)
  PROVE  Processed(c, p) = c
<1>1. ~Hears(c) /\ Refused(c, p) /\ Opened(c) = c
  BY DEF Spare, Hears, Refused, Opened
<1>2. p.kind \in {"Data", "Ack", "KeepAlive", "Goodbye"}
  BY DEF Wire, IsAck, IsData, GoodbyePacket
<1> QED BY <1>1, <1>2 DEF Processed, ProcessData, ProcessAck, ProcessKeepAlive, ProcessGoodbye

\* Traffic never makes a connection one of an earlier state.
LEMMA OpenedState ==
  ASSUME NEW c, IsConn(c), NEW p, Wire(p), c.state \in {"Establishing", "TimedOut"}
  PROVE  Processed(c, p).state \in {"Establishing", "Errored"}
<1>1. DOMAIN c = ConnFields
  BY DEF IsConn, Shaped
<1>2. Opened(c).state = "Establishing"
  BY <1>1 DEF Opened, Hears, ConnFields
<1> DEFINE t == TakeAck(c, p)
<1>3. t.state = "Establishing" /\ IsConn(t)
  <2>1. t.state = "Establishing"
    BY TakeAckIs DEF Hears
  <2>2. p.expected \in SeqNum
    BY Zero DEF Wire, IsAck, IsData, GoodbyePacket
  <2> QED BY <2>1, <2>2, TakeAckIsConn
<1> HIDE DEF t
<1> DEFINE d == Adopt(t)
<1>4. d.state = "Establishing" /\ IsConn(d)
  <2>1. DOMAIN t = ConnFields
    BY <1>3 DEF IsConn, Shaped
  <2> QED BY <1>3, <2>1, AdoptIsConn DEF Adopt, ConnFields
<1> HIDE DEF d
<1>5. IsData(p) => Drain([d EXCEPT !.early = @ \union {p}]).state \in {"Establishing", "Errored"}
  <2> SUFFICES ASSUME IsData(p)
               PROVE  Drain([d EXCEPT !.early = @ \union {p}]).state \in {"Establishing", "Errored"}
    OBVIOUS
  <2> DEFINE i == [d EXCEPT !.early = @ \union {p}]
  <2>1. Shaped(i) /\ i.state = "Establishing"
    BY <1>4 DEF IsConn, Shaped, ConnFields
  <2> HIDE DEF i
  <2>2. Drain(i).state = (IF Overflows(i, Consumed(i)) THEN "Errored" ELSE i.state)
    BY <2>1, DrainIs
  <2>3. Drain(i).state \in {"Establishing", "Errored"}
    BY <2>1, <2>2
  <2> QED BY <2>3 DEF i
<1>6. CloseInput(t).state = "Errored"
  BY <1>3 DEF CloseInput, IsConn, Shaped, ConnFields
<1>7. CASE IsData(p)
  BY <1>2, <1>4, <1>5, <1>7 DEF IsData, Processed, ProcessData, t, d
<1>8. CASE IsAck(p)
  BY <1>2, <1>3, <1>4, <1>8 DEF IsAck, Processed, ProcessAck, ProcessKeepAlive, t, d
<1>9. CASE p = GoodbyePacket
  BY <1>2, <1>3, <1>6, <1>9 DEF GoodbyePacket, Processed, ProcessGoodbye, t
<1> QED BY <1>7, <1>8, <1>9 DEF Wire

\* Receiving keeps the invariant,
LEMMA ReceivePacketKeepsLink ==
  ASSUME TransferInv, Recent, Typed', NEW e \in End, NEW p \in net[e], ReceivePacket(e, p)
  PROVE  TransferInv'
<1> DEFINE target == First({i \in DOMAIN conn[e] : BeforeErrored(conn[e][i])})
           f == [i \in DOMAIN conn[e] |-> IF i \in target THEN Processed(conn[e][i], p) ELSE conn[e][i]]
           C == {f[i] : i \in DOMAIN f \intersect {1}}
           l == log[e][1]
           D == One(Peer(e))
           m == log[Peer(e)][1]
           toD == net[Peer(e)]
           toC == net[e]
<1>1. conn' = [conn EXCEPT ![e] = f] /\ UNCHANGED <<clock, log>> /\ Arrived(e, p)
  BY DEF ReceivePacket
<1>2. /\ Link(One(e), l, D, m, toD, toC) /\ Peer(e) \in End /\ Peer(e) # e /\ DOMAIN net = End
      /\ Len(log[e]) >= 1 /\ \A x \in End : x = e \/ x = Peer(e)
  BY EndLink
<1>3. net'[Peer(e)] = toD /\ net'[e] \subseteq toC
  BY <1>1, <1>2 DEF Arrived
<1>4. Wire(p) /\ \A x \in End : \A q \in net'[x] : Wire(q)
  BY <1>2, <1>3 DEF TransferInv, Wires
<1>5. DOMAIN f = DOMAIN conn[e] /\ \A i \in DOMAIN f : f[i] = conn[e][i] \/ f[i] = Processed(conn[e][i], p)
  OBVIOUS
<1>6. 1 \in target => 1 \in DOMAIN conn[e] /\ conn[e][1].state # "Errored" /\ f[1] = Processed(conn[e][1], p)
  BY DEF First, BeforeErrored
<1>7. 1 \notin target => \A i \in DOMAIN f \intersect {1} : f[i] = conn[e][i]
  OBVIOUS
<1> HIDE DEF target, f
<1>8. \A i \in DOMAIN f : IF i = 1 THEN f[i].state \in {"Establishing", "TimedOut", "Errored"}
                          ELSE Spare(f[i], log'[e][i])
  <2> TAKE i \in DOMAIN f
  <2>1. CASE i = 1
    <3>1. IsConn(conn[e][1]) /\ conn[e][1].state \in {"Establishing", "TimedOut", "Errored"}
      BY <1>5, <2>1, OneLink
    <3>2. CASE 1 \in target
      BY <1>4, <1>6, <2>1, <3>1, <3>2, OpenedState
    <3>3. CASE 1 \notin target
      BY <1>7, <2>1, <3>1, <3>3
    <3> QED BY <3>2, <3>3
  <2>2. CASE i # 1
    <3>1. Spare(conn[e][i], log[e][i])
      BY <1>5, <2>2 DEF TransferInv, Lists
    <3>2. f[i] = conn[e][i]
      BY <1>4, <1>5, <3>1, SpareIsDeaf
    <3> QED BY <1>1, <2>2, <3>1, <3>2
  <2> QED BY <2>1, <2>2
<1>9. Link(C, l, D, m, toD, toC)
  <2>1. CASE 1 \in target
    <3>1. C = {Processed(conn[e][1], p)}
      BY <1>5, <1>6, <2>1
    <3>2. /\ Link({conn[e][1]}, l, D, m, toD, toC)
          /\ conn[e][1].state \in {"Establishing", "TimedOut"}
      BY <1>6, <2>1, OneLink
    <3>3. p.kind = "Data" /\ Talking(conn[e][1]) => Got(conn[e][1], l) - p.nth <= Half
      BY <1>6, <2>1 DEF Recent, Talking, Talks, Half
    <3>4. p.kind # "Goodbye" => Sent(conn[e][1], l) - p.had < Half
      <4>1. p.kind \in {"Data", "Ack", "KeepAlive", "Goodbye"}
        BY <1>4 DEF Wire, IsAck, IsData, GoodbyePacket
      <4> QED BY <1>6, <2>1, <4>1 DEF Recent, Half
    <3> HIDE DEF C
    <3> QED BY <1>4, <3>1, <3>2, <3>3, <3>4, LinkHears DEF Wire
  <2>2. CASE 1 \notin target
    <3>1. C = One(e)
      BY <1>5, <1>7, <2>2 DEF One
    <3> QED BY <1>2, <3>1
  <2> QED BY <2>1, <2>2
<1>10. Link(C, log'[e][1], D, m, net'[Peer(e)], net'[e])
  <2>1. C \subseteq C /\ toD \subseteq toD
    OBVIOUS
  <2>2. Link(C, l, D, m, toD, net'[e])
    BY <1>3, <1>9, <2>1, LinkShrinks
  <2> QED BY <1>1, <1>3, <2>2
<1>11. log'[Peer(e)] = log[Peer(e)] /\ Len(log'[e]) >= 1 /\ UNCHANGED clock
  BY <1>1, <1>2
<1>12. C = {f[i] : i \in DOMAIN f \intersect {1}}
  OBVIOUS
<1> HIDE DEF C
<1> QED BY <1>1, <1>4, <1>8, <1>10, <1>11, <1>12, EndStep

\* and no CONNECT is under way.
LEMMA NoConnectComes ==
  ASSUME TransferInv, NEW e \in End, NEW p \in net[e]
  PROVE  ~ReceiveConnect(e, p)
<1>1. Wire(p)
  BY DEF TransferInv, Wires
<1> QED BY <1>1 DEF ReceiveConnect, Wire, IsAck, IsData, GoodbyePacket

\* A step of the game's thread: it reaches its own end's list and log.
LEMMA GameStep ==
  ASSUME TransferInv, Typed', NEW e \in End, NEW f, conn' = [conn EXCEPT ![e] = f],
         NEW g, log' = [log EXCEPT ![e] = g], Len(g) >= 1, UNCHANGED <<net, clock>>,
         \A i \in DOMAIN f : i # 1 => Spare(f[i], g[i]),
         1 \in DOMAIN f => f[1].state \in {"Establishing", "TimedOut", "Errored"},
         1 \in DOMAIN f => Link({f[1]}, g[1], One(Peer(e)), log[Peer(e)][1], net[Peer(e)], net[e]),
         1 \notin DOMAIN f => g[1] = log[e][1]
  PROVE  TransferInv'
<1> DEFINE C == {f[i] : i \in DOMAIN f \intersect {1}}
           D == One(Peer(e))
           m == log[Peer(e)][1]
<1>1. /\ Link(One(e), log[e][1], D, m, net[Peer(e)], net[e]) /\ Peer(e) \in End /\ Peer(e) # e
      /\ DOMAIN log = End /\ \A x \in End : x = e \/ x = Peer(e)
  BY EndLink
<1>2. log'[e] = g /\ log'[Peer(e)] = log[Peer(e)]
  BY <1>1
<1>3. Link(C, g[1], D, m, net[Peer(e)], net[e])
  <2>1. CASE 1 \in DOMAIN f
    <3>1. C = {f[1]}
      BY <2>1
    <3> HIDE DEF C
    <3> QED BY <2>1, <3>1
  <2>2. CASE 1 \notin DOMAIN f
    <3>1. C \subseteq One(e)
      BY <2>2
    <3> HIDE DEF C
    <3>2. Link(C, log[e][1], D, m, net[Peer(e)], net[e])
      BY <1>1, <3>1, LinkShrinks
    <3> QED BY <2>2, <3>2
  <2> QED BY <2>1, <2>2
<1>4. Link(C, log'[e][1], D, m, net'[Peer(e)], net'[e])
  BY <1>2, <1>3
<1>5. \A x \in End : \A p \in net'[x] : Wire(p)
  BY DEF TransferInv, Wires
<1>6. \A i \in DOMAIN f : IF i = 1 THEN f[i].state \in {"Establishing", "TimedOut", "Errored"}
                          ELSE Spare(f[i], log'[e][i])
  BY <1>2
<1>7. Len(log'[e]) >= 1 /\ UNCHANGED clock
  BY <1>2
<1>8. C = {f[i] : i \in DOMAIN f \intersect {1}}
  OBVIOUS
<1> HIDE DEF C
<1> QED BY <1>2, <1>4, <1>5, <1>6, <1>7, <1>8, EndStep

\* A connection that is replaced fails.
LEMMA LinkReplaced ==
  ASSUME NEW c, NEW l, NEW D, NEW m, NEW toD, NEW toC, Link({c}, l, D, m, toD, toC)
  PROVE  Link({Replaced(c)}, l, D, m, toD, toC) /\ Replaced(c).state = "Errored"
<1> DEFINE c2 == Replaced(c)
<1>1. IsConn(c) /\ SenderOK(c, l)
  BY DEF Link, Shapes, Direction
<1>2. DOMAIN c = ConnFields
  BY <1>1 DEF IsConn, Shaped
<1>3. /\ c2.out = c.out /\ c2.shut = c.shut /\ c2.destroy = c.destroy /\ c2.sentShutdown = c.sentShutdown
      /\ c2.next = c.next /\ c2.unacked = c.unacked /\ c2.remote = c.remote /\ c2.destroyed = c.destroyed
      /\ c2.dispatchedEof = c.dispatchedEof /\ c2.eof = c.eof /\ c2.input = c.input /\ c2.state = "Errored"
  BY <1>2 DEF Replaced, ConnFields
<1>4. IsConn(c2)
  BY <1>1 DEF Replaced, IsConn, Shaped, ConnFields, BeforeErrored
<1> HIDE DEF c2
<1>5. SameSender(c, c2) /\ ~Talking(c2)
  BY <1>1, <1>3 DEF SameSender, SenderOK, Talking
<1>6. Link({c2}, l, D, m, toD, toC)
  BY <1>3, <1>4, <1>5, LinkDeaf
<1> QED BY <1>3, <1>6 DEF c2

\* The steps of the game and of the lobby keep the invariant.
LEMMA ConnectKeepsLink ==
  ASSUME TransferInv, Typed', NEW e \in End, Connect(e)
  PROVE  TransferInv'
<1> DEFINE accepted == First({i \in DOMAIN conn[e] : Acceptable(conn[e][i])})
           Scan(i) == CASE i \in accepted -> [conn[e][i] EXCEPT !.state = "Answering"]
                        [] i \notin accepted /\ \A k \in accepted : i > k -> Replaced(conn[e][i])
                        [] OTHER -> conn[e][i]
           scanned == [i \in DOMAIN conn[e] |-> Scan(i)]
           made == accepted = {}
           f == IF made THEN With(scanned, NextId(e), NewConnection("Connecting")) ELSE scanned
           new == With([i \in DOMAIN conn[e] |-> Replaced(conn[e][i])], NextId(e), NewConnection("Connecting"))
           g == Append(log[e], NewLog)
<1>1. /\ conn' = [conn EXCEPT ![e] = f]
      /\ log' = [log EXCEPT ![e] = IF made THEN Append(@, NewLog) ELSE @]
      /\ UNCHANGED <<net, clock>>
  BY Zenon DEF Connect
<1>2. \A i \in DOMAIN conn[e] : conn[e][i].state # "Pending"
  BY DEF TransferInv, Lists, Spare
<1>3. made
  BY <1>2 DEF First, Acceptable
<1>4. \A i \in DOMAIN conn[e] : Scan(i) = Replaced(conn[e][i])
  BY <1>3, Zenon
<1>5. f = new /\ log' = [log EXCEPT ![e] = g]
  <2>1. scanned = [i \in DOMAIN conn[e] |-> Replaced(conn[e][i])]
    BY <1>4
  <2> HIDE DEF Scan, accepted
  <2>2. f = With(scanned, NextId(e), NewConnection("Connecting"))
    BY <1>3
  <2>3. log' = [log EXCEPT ![e] = g]
    BY <1>1, <1>3
  <2> HIDE DEF scanned, f
  <2> QED BY <2>1, <2>2, <2>3
<1>6. log[e] \in Seq(LogRecord) /\ Len(log[e]) \in Nat /\ 1 <= Len(log[e]) /\ DOMAIN log[e] = 1..Len(log[e])
  BY EndLink
<1>7. /\ Len(g) >= 1 /\ g[1] = log[e][1] /\ g[NextId(e)] = NewLog /\ NextId(e) # 1
      /\ \A i \in DOMAIN log[e] : g[i] = log[e][i] /\ i # NextId(e)
  BY <1>6 DEF NextId
<1>8. /\ DOMAIN new = DOMAIN conn[e] \union {NextId(e)}
      /\ \A i \in DOMAIN conn[e] : i # NextId(e) => new[i] = Replaced(conn[e][i])
      /\ new[NextId(e)] = NewConnection("Connecting")
  BY DEF With
<1> HIDE DEF f, new, g
<1>9. \A i \in DOMAIN conn[e] : i \in DOMAIN log[e] /\ IsConn(conn[e][i])
  BY LogOf DEF TransferInv
<1>10. \A i \in DOMAIN new : i # 1 => Spare(new[i], g[i])
  <2> SUFFICES ASSUME NEW i \in DOMAIN new, i # 1 PROVE Spare(new[i], g[i])
    OBVIOUS
  <2>1. CASE i = NextId(e)
    <3>1. Spare(NewConnection("Connecting"), NewLog)
      BY DEF Spare, NewConnection, NewLog
    <3> QED BY <1>7, <1>8, <2>1, <3>1
  <2>2. CASE i # NextId(e)
    <3>1. i \in DOMAIN conn[e] /\ Spare(conn[e][i], log[e][i]) /\ DOMAIN conn[e][i] = ConnFields
      BY <1>8, <1>9, <2>2 DEF TransferInv, Lists, IsConn, Shaped
    <3>2. new[i] = Replaced(conn[e][i]) /\ g[i] = log[e][i]
      BY <1>7, <1>8, <1>9, <2>2, <3>1
    <3>3. /\ Replaced(conn[e][i]).state = "Errored" /\ Replaced(conn[e][i]).out = conn[e][i].out
          /\ Replaced(conn[e][i]).sentShutdown = conn[e][i].sentShutdown
      BY <3>1 DEF Replaced, ConnFields
    <3> QED BY <3>1, <3>2, <3>3 DEF Spare
  <2> QED BY <2>1, <2>2
<1>11. ASSUME 1 \in DOMAIN new
       PROVE  /\ new[1].state \in {"Establishing", "TimedOut", "Errored"}
              /\ Link({new[1]}, g[1], One(Peer(e)), log[Peer(e)][1], net[Peer(e)], net[e])
  <2>1. 1 \in DOMAIN conn[e] /\ new[1] = Replaced(conn[e][1])
    BY <1>7, <1>8, <1>11
  <2>2. Link({conn[e][1]}, log[e][1], One(Peer(e)), log[Peer(e)][1], net[Peer(e)], net[e])
    BY <2>1, OneLink
  <2> QED BY <1>7, <2>1, <2>2, LinkReplaced
<1>12. conn' = [conn EXCEPT ![e] = new]
  BY <1>1, <1>5
<1>13. log' = [log EXCEPT ![e] = g] /\ UNCHANGED <<net, clock>>
  BY <1>1, <1>5
<1>14. Len(g) >= 1 /\ g[1] = log[e][1]
  BY <1>7
<1> HIDE DEF scanned
<1> QED BY <1>10, <1>11, <1>12, <1>13, <1>14, GameStep

LEMMA ScheduleKeepsLink ==
  ASSUME TransferInv, Typed', NEW e \in End, NEW which \in SUBSET DOMAIN conn[e], Schedule(e, which),
         UNCHANGED <<net, clock>>
  PROVE  TransferInv'
<1> DEFINE f == [i \in DOMAIN conn[e] |-> IF i \in which THEN ShutOutput(conn[e][i]) ELSE conn[e][i]]
           g == [i \in DOMAIN log[e] |-> IF i \in which THEN [log[e][i] EXCEPT !.shut = TRUE] ELSE log[e][i]]
<1>1. conn' = [conn EXCEPT ![e] = f] /\ log' = [log EXCEPT ![e] = g]
  BY DEF Schedule
<1>2. /\ log[e] \in Seq(LogRecord) /\ Len(log[e]) \in Nat /\ 1 <= Len(log[e]) /\ DOMAIN log[e] = 1..Len(log[e])
      /\ DOMAIN log = End
  BY EndLink
<1>3. log'[e] = g /\ Len(g) >= 1
  <2>1. log'[e] = g
    BY <1>1, <1>2
  <2>2. DOMAIN g = 1..Len(log[e])
    BY <1>2
  <2>3. Len(g) = Len(log[e])
    BY <1>2, <2>2
  <2> QED BY <1>2, <2>1, <2>3
<1>4. \A i \in DOMAIN conn[e] : i \in DOMAIN log[e] /\ IsConn(conn[e][i]) /\ log[e][i] \in LogRecord
  BY LogOf DEF TransferInv
<1>5. ASSUME NEW c, NEW l, IsConn(c), l \in LogRecord
      PROVE  /\ ShutOutput(c).state = c.state /\ ShutOutput(c).out = c.out /\ ShutOutput(c).sentShutdown = c.sentShutdown
             /\ [l EXCEPT !.shut = TRUE].wrote = l.wrote /\ [l EXCEPT !.shut = TRUE] \in LogRecord
  <2>1. DOMAIN c = ConnFields
    BY <1>5 DEF IsConn, Shaped
  <2> QED BY <1>5, <2>1 DEF ShutOutput, ConnFields, LogRecord
<1>6. \A i \in DOMAIN f : i # 1 => Spare(f[i], g[i])
  <2> SUFFICES ASSUME NEW i \in DOMAIN f, i # 1 PROVE Spare(f[i], g[i])
    OBVIOUS
  <2>1. Spare(conn[e][i], log[e][i])
    BY DEF TransferInv, Lists
  <2> QED BY <1>4, <1>5, <2>1 DEF Spare
<1>7. ASSUME 1 \in DOMAIN f
      PROVE  /\ f[1].state \in {"Establishing", "TimedOut", "Errored"}
             /\ Link({f[1]}, g[1], One(Peer(e)), log[Peer(e)][1], net[Peer(e)], net[e])
  <2>1. /\ Link({conn[e][1]}, log[e][1], One(Peer(e)), log[Peer(e)][1], net[Peer(e)], net[e])
        /\ conn[e][1].state \in {"Establishing", "TimedOut", "Errored"}
        /\ IsConn(conn[e][1]) /\ log[e][1] \in LogRecord
    BY <1>7, OneLink
  <2>2. CASE 1 \in which
    <3>1. f[1] = ShutOutput(conn[e][1]) /\ g[1] = [log[e][1] EXCEPT !.shut = TRUE]
      BY <1>2, <2>2
    <3> HIDE DEF f, g
    <3> QED BY <1>5, <2>1, <3>1, LinkShuts
  <2>3. CASE 1 \notin which
    <3>1. f[1] = conn[e][1] /\ g[1] = log[e][1]
      BY <1>2, <1>7, <2>3
    <3> HIDE DEF f, g
    <3> QED BY <2>1, <3>1
  <2> QED BY <2>2, <2>3
<1>8. 1 \notin DOMAIN f => g[1] = log[e][1]
  BY <1>2
<1> HIDE DEF f, g
<1> QED BY <1>1, <1>3, <1>6, <1>7, <1>8, GameStep

LEMMA WriteKeepsLink ==
  ASSUME TransferInv, Typed', NEW e \in End, NEW i \in Nat, Write(e, i)
  PROVE  TransferInv'
<1> DEFINE c == conn[e][i]
           l == log[e][i]
           x == <<i, Len(l.wrote) + 1>>
           c2 == [c EXCEPT !.out = Append(@, x)]
           l2 == [l EXCEPT !.wrote = Append(@, x)]
           f == [conn[e] EXCEPT ![i] = c2]
           g == [log[e] EXCEPT ![i] = l2]
<1>1. i \in DOMAIN conn[e] /\ ~c.shut /\ c.state # "Pending" /\ UNCHANGED <<net, clock>>
  BY DEF Write
<1>2. conn' = [conn EXCEPT ![e] = f]
  BY DEF Write, Set
<1>3. log' = [log EXCEPT ![e] = g]
  <2>1. log' = [log EXCEPT ![e][i].wrote = Append(@, x)]
    BY DEF Write
  <2> QED BY <2>1
<1>4. /\ log[e] \in Seq(LogRecord) /\ Len(log[e]) \in Nat /\ 1 <= Len(log[e]) /\ DOMAIN log[e] = 1..Len(log[e])
      /\ DOMAIN log = End /\ DOMAIN conn = End
  BY EndLink DEF TransferInv, Typed, ConnTyped
<1>5. i \in DOMAIN log[e] /\ IsConn(c) /\ l \in LogRecord
  BY <1>1, LogOf DEF TransferInv
<1>6. x \in Message /\ c.out \in Seq(Message) /\ l.wrote \in Seq(Message)
  BY <1>5 DEF Message, IsConn, Shaped, LogRecord
<1> HIDE DEF x
<1>7. IsConn(c2)
  BY <1>5, <1>6 DEF IsConn, Shaped, ConnFields, BeforeErrored
<1>8. l2 \in LogRecord
  <2>1. Append(l.wrote, x) \in Seq(Message)
    BY <1>6
  <2> HIDE DEF l
  <2> QED BY <1>5, <2>1 DEF LogRecord
<1>9. Len(g) = Len(log[e])
  BY <1>4
<1>10. c2.state = c.state /\ c2.out = Append(c.out, x) /\ c2.sentShutdown = c.sentShutdown /\ l2.wrote = Append(l.wrote, x)
  BY <1>5 DEF IsConn, Shaped, ConnFields, LogRecord
<1>11. /\ DOMAIN f = DOMAIN conn[e] /\ f[i] = c2 /\ \A k \in DOMAIN f : k # i => f[k] = conn[e][k]
       /\ g[i] = l2 /\ \A k \in DOMAIN log[e] : k # i => g[k] = log[e][k]
  BY <1>1, <1>5
<1>12. c2 = [c EXCEPT !.out = Append(@, x)] /\ l2 = [l EXCEPT !.wrote = Append(@, x)]
  OBVIOUS
<1> HIDE DEF f, g, c2, l2
<1>13. \A k \in DOMAIN f : k # 1 => Spare(f[k], g[k])
  <2> SUFFICES ASSUME NEW k \in DOMAIN f, k # 1 PROVE Spare(f[k], g[k])
    OBVIOUS
  <2>1. Spare(conn[e][k], log[e][k]) /\ k \in DOMAIN log[e]
    BY <1>11, LogOf DEF TransferInv, Lists
  <2>2. CASE k # i
    BY <1>11, <2>1, <2>2
  <2>3. CASE k = i
    <3>1. Len(c2.out) = Len(c.out) + 1 /\ Len(l2.wrote) = Len(l.wrote) + 1
      BY <1>6, <1>10
    <3> QED BY <1>10, <1>11, <2>1, <2>3, <3>1 DEF Spare
  <2> QED BY <2>2, <2>3
<1>14. ASSUME 1 \in DOMAIN f
       PROVE  /\ f[1].state \in {"Establishing", "TimedOut", "Errored"}
              /\ Link({f[1]}, g[1], One(Peer(e)), log[Peer(e)][1], net[Peer(e)], net[e])
  <2>1. /\ Link({conn[e][1]}, log[e][1], One(Peer(e)), log[Peer(e)][1], net[Peer(e)], net[e])
        /\ conn[e][1].state \in {"Establishing", "TimedOut", "Errored"}
    BY <1>11, <1>14, OneLink
  <2>2. CASE i = 1
    <3>1. Link({c}, l, One(Peer(e)), log[Peer(e)][1], net[Peer(e)], net[e])
      BY <2>1, <2>2
    <3>2. f[1] = c2 /\ g[1] = l2 /\ c2.state \in {"Establishing", "TimedOut", "Errored"}
      BY <1>10, <1>11, <2>1, <2>2
    <3> HIDE DEF c, l
    <3>3. Link({c2}, l2, One(Peer(e)), log[Peer(e)][1], net[Peer(e)], net[e])
      BY <1>1, <1>6, <1>7, <1>8, <1>12, <3>1, LinkWrites
    <3> QED BY <3>2, <3>3
  <2>3. CASE i # 1
    <3>1. 1 \in DOMAIN log[e]
      BY <1>4
    <3>2. f[1] = conn[e][1] /\ g[1] = log[e][1]
      BY <1>11, <1>14, <2>3, <3>1
    <3> QED BY <2>1, <3>2
  <2> QED BY <2>2, <2>3
<1>15. 1 \notin DOMAIN f => g[1] = log[e][1]
  BY <1>1, <1>4, <1>11
<1>16. Len(g) >= 1
  BY <1>4, <1>9
<1> QED BY <1>1, <1>2, <1>3, <1>13, <1>14, <1>15, <1>16, GameStep

LEMMA PullKeepsLink ==
  ASSUME TransferInv, Typed', NEW e \in End, Pull(e)
  PROVE  TransferInv'
<1> DEFINE kept == {i \in DOMAIN conn[e] : ~conn[e][i].destroyed}
           f == [i \in kept |-> IF Dispatches(conn[e][i]) THEN Dispatched(conn[e][i]) ELSE conn[e][i]]
           g == [k \in DOMAIN log[e] |->
                   IF k \in kept /\ Dispatches(conn[e][k])
                   THEN [log[e][k] EXCEPT !.handed = @ \o conn[e][k].input, !.notice = Notice(conn[e][k])]
                   ELSE log[e][k]]
<1>1. conn' = [conn EXCEPT ![e] = f] /\ log' = [log EXCEPT ![e] = g] /\ UNCHANGED <<net, clock>>
  BY DEF Pull
<1>2. /\ log[e] \in Seq(LogRecord) /\ Len(log[e]) \in Nat /\ 1 <= Len(log[e]) /\ DOMAIN log[e] = 1..Len(log[e])
      /\ DOMAIN log = End /\ DOMAIN conn = End
  BY EndLink DEF TransferInv, Typed, ConnTyped
<1>3. log'[e] = g /\ Len(g) = Len(log[e]) /\ conn'[e] = f
  <2>1. DOMAIN g = 1..Len(log[e])
    BY <1>2
  <2>2. Len(g) = Len(log[e])
    BY <1>2, <2>1
  <2> QED BY <1>1, <1>2, <2>2
<1>4. \A i \in DOMAIN conn[e] : i \in DOMAIN log[e] /\ IsConn(conn[e][i]) /\ log[e][i] \in LogRecord
  BY LogOf DEF TransferInv
<1>6. \A i \in DOMAIN f : /\ i \in DOMAIN conn[e] /\ ~conn[e][i].destroyed
                          /\ ~Dispatches(conn[e][i]) => f[i] = conn[e][i] /\ g[i] = log[e][i]
                          /\ Dispatches(conn[e][i]) =>
                               /\ f[i] = Dispatched(conn[e][i])
                               /\ g[i] = [log[e][i] EXCEPT !.handed = @ \o conn[e][i].input,
                                                           !.notice = Notice(conn[e][i])]
  BY <1>4
<1>7. 1 \notin DOMAIN f => g[1] = log[e][1]
  BY <1>2
<1> HIDE DEF kept, f, g
<1>5. /\ \A i \in DOMAIN f : IsConn(f[i])
      /\ g \in Seq(LogRecord)
  <2>1. ConnTyped' /\ LogTyped'
    BY DEF Typed
  <2>2. \A i \in DOMAIN conn'[e] : IsConn(conn'[e][i])
    BY <2>1 DEF ConnTyped
  <2>3. log'[e] \in Seq(LogRecord)
    BY <2>1 DEF LogTyped
  <2> QED BY <1>3, <2>2, <2>3
<1>8. ASSUME NEW i \in DOMAIN f
      PROVE  /\ f[i].state = conn[e][i].state /\ f[i].out = conn[e][i].out
             /\ f[i].sentShutdown = conn[e][i].sentShutdown /\ g[i].wrote = log[e][i].wrote
  <2>1. DOMAIN conn[e][i] = ConnFields /\ log[e][i] \in LogRecord
    BY <1>4, <1>6 DEF IsConn, Shaped
  <2> QED BY <1>6, <2>1 DEF Dispatched, ConnFields, LogRecord
<1>9. \A i \in DOMAIN f : i # 1 => Spare(f[i], g[i])
  <2> SUFFICES ASSUME NEW i \in DOMAIN f, i # 1 PROVE Spare(f[i], g[i])
    OBVIOUS
  <2>1. Spare(conn[e][i], log[e][i])
    BY <1>6 DEF TransferInv, Lists
  <2> QED BY <1>8, <2>1 DEF Spare
<1>10. ASSUME 1 \in DOMAIN f
       PROVE  /\ f[1].state \in {"Establishing", "TimedOut", "Errored"}
              /\ Link({f[1]}, g[1], One(Peer(e)), log[Peer(e)][1], net[Peer(e)], net[e])
  <2>1. /\ Link({conn[e][1]}, log[e][1], One(Peer(e)), log[Peer(e)][1], net[Peer(e)], net[e])
        /\ conn[e][1].state \in {"Establishing", "TimedOut", "Errored"}
    BY <1>6, <1>10, OneLink
  <2>2. g[1] \in LogRecord
    BY <1>2, <1>3, <1>5
  <2>3. CASE Dispatches(conn[e][1])
    <3> DEFINE c == conn[e][1]
               l == log[e][1]
    <3>1. /\ f[1] = Dispatched(c) /\ ~c.destroyed /\ IsConn(f[1])
          /\ g[1] = [l EXCEPT !.handed = @ \o c.input, !.notice = Notice(c)]
      BY <1>5, <1>6, <1>10, <2>3
    <3>2. f[1].state \in {"Establishing", "TimedOut", "Errored"}
      BY <1>8, <1>10, <2>1
    <3> HIDE DEF c, l
    <3>3. Link({Dispatched(c)}, g[1], One(Peer(e)), log[Peer(e)][1], net[Peer(e)], net[e])
      <4>1. Link({c}, l, One(Peer(e)), log[Peer(e)][1], net[Peer(e)], net[e]) /\ Dispatches(c)
        BY <2>1, <2>3 DEF c, l
      <4>2. IsConn(Dispatched(c))
        BY <3>1
      <4> QED BY <2>2, <3>1, <4>1, <4>2, LinkHands
    <3> QED BY <3>1, <3>2, <3>3
  <2>4. CASE ~Dispatches(conn[e][1])
    BY <1>6, <1>10, <2>1, <2>4
  <2> QED BY <2>3, <2>4
<1>11. Len(g) >= 1
  BY <1>2, <1>3
<1> QED BY <1>1, <1>7, <1>9, <1>10, <1>11, GameStep

LEMMA ReapKeepsLink ==
  ASSUME TransferInv, Typed', NEW e \in End, Reap(e)
  PROVE  TransferInv'
<1> DEFINE f == [i \in {k \in DOMAIN conn[e] : ~conn[e][k].destroyed} |-> conn[e][i]]
           g == log[e]
<1>1. conn' = [conn EXCEPT ![e] = f] /\ UNCHANGED <<net, clock, log>>
  BY DEF Reap
<1>2. log' = [log EXCEPT ![e] = g] /\ Len(g) >= 1
  BY <1>1, EndLink DEF TransferInv, Typed, LogTyped
<1>3. \A i \in DOMAIN f : i \in DOMAIN conn[e] /\ f[i] = conn[e][i]
  OBVIOUS
<1> HIDE DEF f
<1>4. \A i \in DOMAIN f : i # 1 => Spare(f[i], g[i])
  BY <1>3 DEF TransferInv, Lists
<1>5. 1 \in DOMAIN f =>
        /\ f[1].state \in {"Establishing", "TimedOut", "Errored"}
        /\ Link({f[1]}, g[1], One(Peer(e)), log[Peer(e)][1], net[Peer(e)], net[e])
  BY <1>3, OneLink
<1> HIDE DEF g
<1> QED BY <1>1, <1>2, <1>4, <1>5, GameStep DEF g

LEMMA LoseKeepsLink ==
  ASSUME TransferInv, Typed', NEW e \in End, Lose(e)
  PROVE  TransferInv'
<1>1. UNCHANGED <<conn, clock, log>> /\ \E p \in net[e] : net' = [net EXCEPT ![e] = @ \ {p}]
  BY DEF Lose
<1>2. /\ \A x \in End : net'[x] \subseteq net[x]
  BY <1>1 DEF TransferInv, Typed, NetTyped
<1>3. Lists' /\ Late'
  BY <1>1 DEF TransferInv, Lists, Late
<1>4. Wires'
  BY <1>2 DEF TransferInv, Wires
<1>5. ASSUME NEW x \in End PROVE At(x)'
  <2>1. Link(One(x), log[x][1], One(Peer(x)), log[Peer(x)][1], net[Peer(x)], net[x])
    BY DEF TransferInv, At
  <2>2. net'[x] \subseteq net[x] /\ net'[Peer(x)] \subseteq net[Peer(x)] /\ One(x) \subseteq One(x)
    BY <1>2, PeerOf
  <2>3. Link(One(x), log[x][1], One(Peer(x)), log[Peer(x)][1], net'[Peer(x)], net'[x])
    BY <2>1, <2>2, LinkShrinks
  <2>4. One(x)' = One(x) /\ One(Peer(x))' = One(Peer(x))
    BY <1>1 DEF One
  <2> QED BY <1>1, <2>3, <2>4 DEF At
<1> QED BY <1>3, <1>4, <1>5 DEF TransferInv

\* The invariant is inductive while the network is not too late.
LEMMA TransferInvNext == TransferInv /\ Recent /\ [Next]_vars => TransferInv'
<1> SUFFICES ASSUME TransferInv, Recent, [Next]_vars PROVE TransferInv'
  OBVIOUS
<1>1. Typed'
  BY TypedNext DEF TransferInv
<1>2. CASE UNCHANGED vars
  <2>1. \A x : One(x)' = One(x)
    BY <1>2 DEF vars, One
  <2>2. \A x \in End : At(x)'
    BY <1>2, <2>1 DEF vars, TransferInv, At
  <2>3. Lists' /\ Wires' /\ Late'
    BY <1>2 DEF vars, TransferInv, Lists, Wires, Late
  <2> QED BY <1>1, <2>2, <2>3 DEF TransferInv
<1>3. ASSUME NEW e \in End, NEW i \in Slot, Network(e, i) PROVE TransferInv'
  BY <1>1, <1>3, NetworkKeeps
<1>4. ASSUME NEW e \in End, NEW p \in net[e], ReceivePacket(e, p) \/ ReceiveConnect(e, p) PROVE TransferInv'
  BY <1>1, <1>4, ReceivePacketKeepsLink, NoConnectComes
<1>5. ASSUME NEW e \in End, Game(e) PROVE TransferInv'
  <2>1. CASE Reject(e)
    BY <1>1, <2>1, ScheduleKeepsLink DEF Reject
  <2>2. CASE Destroy(e)
    BY <1>1, <2>2, ScheduleKeepsLink DEF Destroy
  <2>3. ASSUME NEW i \in Slot, ScheduleDestroy(e, i) PROVE TransferInv'
    BY <1>1, <2>3, ScheduleKeepsLink DEF ScheduleDestroy
  <2>4. ASSUME NEW i \in Slot, Write(e, i) PROVE TransferInv'
    <3>1. i \in Nat
      BY DEF Slot
    <3> QED BY <1>1, <2>4, <3>1, WriteKeepsLink
  <2> QED BY <1>1, <1>5, <2>1, <2>2, <2>3, <2>4, ConnectKeepsLink, PullKeepsLink DEF Game
<1> QED BY <1>1, <1>2, <1>3, <1>4, <1>5, ReapKeepsLink, LoseKeepsLink DEF Next

----------------------------------------------------------------------------
(* What follows from the invariant *)

\* It holds of the link that InitEstablished begins with.
LEMMA InitEstablishedTransfer == InitEstablished => TransferInv
<1> SUFFICES ASSUME InitEstablished PROVE TransferInv
  OBVIOUS
<1> DEFINE c == [NewConnection("Establishing") EXCEPT !.hs = 1,
                   !.next = FirstSeq, !.remote = FirstSeq, !.expected = FirstSeq]
<1>1. Typed
  BY InitEstablishedTyped
<1>2. /\ \A e \in End : conn[e] = <<c>>
      /\ \A e \in End : log[e] = <<NewLog>> /\ net[e] = {} /\ clock[e] = MaxTime[e]
  BY DEF InitEstablished
<1>3. DOMAIN <<c>> = {1} /\ <<c>>[1] = c /\ <<NewLog>>[1] = NewLog /\ Len(<<NewLog>>) = 1
  OBVIOUS
<1>4. /\ c.state = "Establishing" /\ c.next = FirstSeq /\ c.remote = FirstSeq /\ c.expected = FirstSeq
      /\ c.unacked = {} /\ c.early = {} /\ c.out = <<>> /\ c.input = <<>> /\ ~c.shut /\ ~c.sentShutdown
      /\ ~c.eof /\ ~c.dispatchedEof /\ ~c.destroy /\ ~c.destroyed /\ c.shut = FALSE
  BY DEF NewConnection
<1> HIDE DEF c
<1>5. NewLog \in LogRecord /\ NewLog.wrote = <<>> /\ NewLog.handed = <<>> /\ NewLog.notice = "None" /\ NewLog.shut = FALSE
  BY DEF NewLog, LogRecord
<1>6. \A e \in End : 1 \in DOMAIN conn[e] /\ IsConn(conn[e][1]) /\ conn[e][1] = c
  BY <1>1, <1>2, <1>3 DEF Typed, ConnTyped
<1>7. IsConn(c)
  BY <1>6, Peers
<1>8. FirstSeq = Num(0)
  BY Space, Remainder DEF Num
<1>9. Sent(c, NewLog) = 0 /\ Got(c, NewLog) = 0
  BY <1>4, <1>5 DEF Sent, Got
<1>10. SenderOK(c, NewLog)
  <2>1. NewLog.shut = c.shut
    BY <1>4, <1>5
  <2>2. Len(c.out) = 0 /\ Len(NewLog.wrote) = 0 /\ 1..0 = {}
    BY <1>4, <1>5
  <2>3. c.next = Num(Sent(c, NewLog))
    BY <1>4, <1>8, <1>9
  <2> QED BY <1>4, <2>1, <2>2, <2>3 DEF SenderOK
<1>11. ReceiverOK(c, NewLog, NewLog)
  BY <1>4, <1>5, <1>8, <1>9 DEF ReceiverOK
<1>12. WindowOK({c}, NewLog, {c}, NewLog)
  <2>1. AckedTo(c, NewLog, 0)
    BY <1>4, <1>8, <1>9, Space DEF AckedTo
  <2>2. 0 \in Nat /\ 0 <= Got(c, NewLog)
    BY <1>9
  <2> QED BY <2>1, <2>2 DEF WindowOK
<1>13. PairOK(c, NewLog, c, NewLog)
  BY <1>4, <1>9 DEF PairOK
<1>14. LogOK(NewLog, NewLog)
  BY <1>5 DEF LogOK
<1>15. NetOK({c}, NewLog, {c}, NewLog, {}, {})
  BY DEF NetOK
<1>16. Direction({c}, NewLog, {c}, NewLog, {}, {})
  BY <1>4, <1>10, <1>11, <1>12, <1>13, <1>14, <1>15 DEF Direction
<1>17. Link({c}, NewLog, {c}, NewLog, {}, {})
  BY <1>5, <1>7, <1>16 DEF Link, Shapes
<1>18. \A e \in End : One(e) = {c} /\ log[e][1] = NewLog /\ net[e] = {}
  BY <1>2, <1>3 DEF One
<1>19. \A e \in End : At(e)
  BY <1>17, <1>18, PeerOf DEF At
<1>20. Lists /\ Wires /\ Late
  <2>1. Lists
    BY <1>2, <1>3, <1>4 DEF Lists
  <2>2. Wires
    BY <1>2 DEF Wires
  <2>3. Late
    BY <1>2, <1>3 DEF Late
  <2> QED BY <2>1, <2>2, <2>3
<1> QED BY <1>1, <1>19, <1>20 DEF TransferInv

\* A packet the sender has let go of is with the receiver.
LEMMA HeldOrUnacked ==
  ASSUME NEW c, NEW l, NEW d, NEW m, NEW toD, NEW toC, Direction({c}, l, {d}, m, toD, toC),
         Shapes({c}, l, {d}, m), Talking(d), NEW k \in 1..(Window + 1), k <= Sent(c, l),
         NEW s, s = (c.next - k + SeqSpace) % SeqSpace
  PROVE  Holds(d, s) \/ \E p \in c.unacked : p.seq = s
<1> DEFINE S == Sent(c, l)
           g == Got(d, m)
           n == S - k
<1>1. S \in Int /\ g \in Nat /\ Half \in Nat /\ Window \in Nat /\ Window + 1 < Half /\ k \in Nat
  BY CountsAreInts, Space DEF Shapes
<1>2. SenderOK(c, l) /\ ReceiverOK(d, m, l) /\ PairOK(c, l, d, m)
  BY DEF Direction
<1>3. c.next = Num(S) /\ \A q \in c.unacked : DataOf(l, q)
  BY <1>2 DEF SenderOK
<1>4. d.expected = Num(g) /\ \A q \in d.early : DataOf(l, q)
  BY <1>2 DEF ReceiverOK
<1>5. g <= S
  BY <1>2 DEF PairOK
<1> HIDE DEF S, g
<1>6. n \in Nat /\ n < S
  BY <1>1 DEF S
<1>7. s = Num(n)
  BY <1>1, <1>3, NumMinus
<1>8. Has(d, m, n) \/ \E q \in c.unacked : q.nth = n
  BY <1>2, <1>6 DEF PairOK, S
<1>9. ASSUME n < g PROVE Delta(d.expected, s) > 0
  <2>1. g - n >= -Half /\ g - n < Half /\ g - n > 0
    BY <1>1, <1>5, <1>6, <1>9
  <2>2. Delta(d.expected, s) = g - n
    BY <1>1, <1>4, <1>6, <1>7, <2>1, DeltaNum
  <2> QED BY <2>1, <2>2
<1>10. ASSUME NEW q, DataOf(l, q), q.nth = n PROVE q.seq = s
  BY <1>7, <1>10 DEF DataOf
<1> HIDE DEF n
<1> QED BY <1>3, <1>4, <1>8, <1>9, <1>10 DEF Has, Holds, g

\* AckedIsHeld follows from the invariant.
LEMMA TransferAckedIsHeld == TransferInv => AckedIsHeld
<1> SUFFICES ASSUME TransferInv PROVE AckedIsHeld
  OBVIOUS
<1>1. ASSUME NEW e \in End, NEW i \in DOMAIN conn[e], NEW j \in DOMAIN conn[Peer(e)], Talks(Peer(e), j),
             NEW k \in 1..(Window + 1), k <= Sent(conn[e][i], log[e][i]),
             NEW s, s = (conn[e][i].next - k + SeqSpace) % SeqSpace
      PROVE  Holds(conn[Peer(e)][j], s) \/ \E p \in conn[e][i].unacked : p.seq = s
  <2>1. Peer(e) \in End
    BY PeerOf
  <2>2. j = 1
    BY <1>1, <2>1, TalksAtOne DEF Talks
  <2>3. i = 1
    <3> SUFFICES ASSUME i # 1 PROVE FALSE
      OBVIOUS
    <3>1. Spare(conn[e][i], log[e][i])
      BY DEF TransferInv, Lists
    <3>2. IsConn(conn[e][i]) /\ log[e][i] \in LogRecord
      BY LogOf DEF TransferInv
    <3>3. Len(log[e][i].wrote) \in Nat
      BY <3>2, CountsAreInts
    <3>4. Sent(conn[e][i], log[e][i]) = 0
      BY <3>1, <3>3 DEF Spare, Sent
    <3> QED BY <1>1, <3>4
  <2>4. /\ Link({conn[e][1]}, log[e][1], One(Peer(e)), log[Peer(e)][1], net[Peer(e)], net[e])
        /\ One(Peer(e)) = {conn[Peer(e)][1]}
    BY <2>1, <2>2, <2>3, OneLink, OneIs DEF TransferInv
  <2>5. Direction({conn[e][1]}, log[e][1], {conn[Peer(e)][1]}, log[Peer(e)][1], net[Peer(e)], net[e])
        /\ Shapes({conn[e][1]}, log[e][1], {conn[Peer(e)][1]}, log[Peer(e)][1])
    BY <2>4 DEF Link
  <2>6. Talking(conn[Peer(e)][1])
    BY <1>1, <2>2 DEF Talks, Talking
  <2> QED BY <1>1, <2>2, <2>3, <2>5, <2>6, HeldOrUnacked
<1>2. ASSUME NEW e \in End, GoodbyePacket \in net[e], NEW i \in DOMAIN conn[e], Talks(e, i)
      PROVE  conn[e][i].eof
  <2>1. i = 1
    BY <1>2, TalksAtOne DEF Talks
  <2>2. Link({conn[e][1]}, log[e][1], One(Peer(e)), log[Peer(e)][1], net[Peer(e)], net[e])
    BY <2>1, OneLink
  <2>3. NetOK(One(Peer(e)), log[Peer(e)][1], {conn[e][1]}, log[e][1], net[e], net[Peer(e)])
    BY <2>2 DEF Link, Direction
  <2> QED BY <1>2, <2>1, <2>3 DEF NetOK, Talks, Talking
<1> QED BY <1>1, <1>2 DEF AckedIsHeld

\* TypeOK follows from the typing invariant.
LEMMA TypedIsTypeOK == Typed => TypeOK
BY DEF Typed, ConnTyped, ClockTyped, IsConn, Shaped, SeqNum, TypeOK

\* The fields of every connection keep their ranges, from the first CONNECT on, and
\* nothing is early past the end of an input that did not fail: TypeOK of
\* CNetUDPConnection and CNetUDPConnector.
THEOREM TypesAlways == Spec => []TypeOK
BY TypedIsTypeOK, InitTyped, TypedNext, PTL DEF Spec

\* The fields keep their ranges on a link that was established before, too: TypeOK
\* of CNetUDPConnection and CNetUDPConnector.
THEOREM TypesStay == TransferSpec => []TypeOK
BY TypedIsTypeOK, InitEstablishedTyped, TypedNext, PTL DEF TransferSpec

\* While no packet is too late, a packet that ProcessAckInternal has taken out of
\* the unacked ones is one the peer has, in order or early, and a goodbye finds a
\* peer whose input has ended.
THEOREM NothingIsForgotten == TransferSpec /\ []Recent => []AckedIsHeld
BY InitEstablishedTransfer, TransferInvNext, TransferAckedIsHeld, PTL DEF TransferSpec

----------------------------------------------------------------------------
(* The logs, and the refinement of OrderedLink *)

\* What a step of an end does to its log l: w is the log of its peer, and n the
\* messages the end writes at most.
EndWrites(l, l2, n) ==
  /\ ~l.shut /\ Len(l2.wrote) <= n /\ \E x \in Message : l2.wrote = Append(l.wrote, x)
  /\ l2.shut = l.shut /\ l2.handed = l.handed /\ l2.notice = l.notice
EndCloses(l, l2) ==
  l2.shut = TRUE /\ l2.wrote = l.wrote /\ l2.handed = l.handed /\ l2.notice = l.notice
EndHands(l, l2, w) ==
  /\ l.notice = "None" /\ l2.wrote = l.wrote /\ l2.shut = l.shut
  /\ \E s \in Seq(Content) : l2.handed = l.handed \o s
  /\ l2.notice \in {"None", "Eof", "Errored"}
  /\ l2.notice = "Eof" => w.shut /\ Len(l2.handed) = Len(w.wrote)
EndLogs(l, l2, w, n) == l2 = l \/ EndWrites(l, l2, n) \/ EndCloses(l, l2) \/ EndHands(l, l2, w)

\* The actions that change a log.
LEMMA ScheduleLogs ==
  ASSUME TransferInv, NEW e \in End, NEW which, Schedule(e, which)
  PROVE  EndLogs(log[e][1], log'[e][1], log[Peer(e)][1], Items[e]) /\ log'[Peer(e)] = log[Peer(e)]
<1> DEFINE g == [i \in DOMAIN log[e] |-> IF i \in which THEN [log[e][i] EXCEPT !.shut = TRUE] ELSE log[e][i]]
           l == log[e][1]
           l2 == [l EXCEPT !.shut = TRUE]
<1>1. log' = [log EXCEPT ![e] = g]
  BY DEF Schedule
<1>2. /\ log[e] \in Seq(LogRecord) /\ Len(log[e]) \in Nat /\ 1 <= Len(log[e]) /\ DOMAIN log[e] = 1..Len(log[e])
      /\ DOMAIN log = End /\ l \in LogRecord /\ Peer(e) \in End /\ Peer(e) # e
  BY EndLink
<1>3. log'[e] = g /\ log'[Peer(e)] = log[Peer(e)]
  BY <1>1, <1>2
<1>4. g[1] = l2 \/ g[1] = l
  BY <1>2
<1>5. EndCloses(l, l2)
  <2> HIDE DEF l
  <2> QED BY <1>2 DEF EndCloses, LogRecord
<1> HIDE DEF g, l2
<1> QED BY <1>3, <1>4, <1>5 DEF EndLogs

LEMMA WriteLogs ==
  ASSUME TransferInv, NEW e \in End, NEW i \in Nat, Write(e, i)
  PROVE  EndLogs(log[e][1], log'[e][1], log[Peer(e)][1], Items[e]) /\ log'[Peer(e)] = log[Peer(e)]
<1> DEFINE l == log[e][i]
           x == <<i, Len(l.wrote) + 1>>
           l2 == [l EXCEPT !.wrote = Append(@, x)]
           g == [log[e] EXCEPT ![i] = l2]
<1>1. i \in DOMAIN conn[e] /\ ~conn[e][i].shut
  BY DEF Write
<1>2. log' = [log EXCEPT ![e] = g]
  <2>1. log' = [log EXCEPT ![e][i].wrote = Append(@, x)]
    BY DEF Write
  <2> QED BY <2>1
<1>3. /\ log[e] \in Seq(LogRecord) /\ Len(log[e]) \in Nat /\ 1 <= Len(log[e]) /\ DOMAIN log[e] = 1..Len(log[e])
      /\ DOMAIN log = End /\ log[e][1] \in LogRecord /\ Peer(e) \in End /\ Peer(e) # e
  BY EndLink
<1>4. log'[e] = g /\ log'[Peer(e)] = log[Peer(e)]
  BY <1>2, <1>3
<1>5. i # 1 => g[1] = log[e][1]
  BY <1>3
<1>6. 1 \in DOMAIN log[e]
  BY <1>3
<1>7. i = 1 => g[1] = l2
  BY <1>6
<1>8. ASSUME i = 1 PROVE EndWrites(l, l2, Items[e])
  <2>1. l \in LogRecord /\ l.wrote \in Seq(Message)
    BY <1>3, <1>8 DEF LogRecord
  <2>2. Len(l.wrote) + 1 \in Nat /\ x \in Message
    BY <2>1 DEF Message
  <2>3. ~l.shut
    <3>1. Link({conn[e][1]}, l, One(Peer(e)), log[Peer(e)][1], net[Peer(e)], net[e])
      BY <1>1, <1>8, OneLink
    <3> QED BY <1>1, <1>8, <3>1 DEF Link, Direction, SenderOK
  <2>4. Len(l.wrote) + 1 <= Items[e]
    BY DEF Write
  <2>5. Len(Append(l.wrote, x)) = Len(l.wrote) + 1
    BY <2>1, <2>2
  <2> HIDE DEF x, l
  <2> QED BY <2>1, <2>2, <2>3, <2>4, <2>5 DEF EndWrites, LogRecord
<1> HIDE DEF g, l2
<1> QED BY <1>4, <1>5, <1>7, <1>8 DEF EndLogs

LEMMA PullLogs ==
  ASSUME TransferInv, NEW e \in End, Pull(e)
  PROVE  EndLogs(log[e][1], log'[e][1], log[Peer(e)][1], Items[e]) /\ log'[Peer(e)] = log[Peer(e)]
<1> DEFINE kept == {i \in DOMAIN conn[e] : ~conn[e][i].destroyed}
           c == conn[e][1]
           l == log[e][1]
           w == log[Peer(e)][1]
           l2 == [l EXCEPT !.handed = @ \o c.input, !.notice = Notice(c)]
           g == [k \in DOMAIN log[e] |->
                   IF k \in kept /\ Dispatches(conn[e][k])
                   THEN [log[e][k] EXCEPT !.handed = @ \o conn[e][k].input, !.notice = Notice(conn[e][k])]
                   ELSE log[e][k]]
<1>1. log' = [log EXCEPT ![e] = g]
  BY DEF Pull
<1>2. /\ log[e] \in Seq(LogRecord) /\ Len(log[e]) \in Nat /\ 1 <= Len(log[e]) /\ DOMAIN log[e] = 1..Len(log[e])
      /\ DOMAIN log = End /\ log[e][1] \in LogRecord /\ Peer(e) \in End /\ Peer(e) # e
  BY EndLink
<1>3. log'[e] = g /\ log'[Peer(e)] = log[Peer(e)]
  BY <1>1, <1>2
<1>4. 1 \in DOMAIN log[e]
  BY <1>2
<1>5. ~(1 \in kept /\ Dispatches(c)) => g[1] = l
  BY <1>4
<1>6. 1 \in kept /\ Dispatches(c) => g[1] = l2
  BY <1>4
<1>7. ASSUME 1 \in kept, Dispatches(c) PROVE EndHands(l, l2, w)
  <2>1. /\ Link({c}, l, One(Peer(e)), w, net[Peer(e)], net[e])
        /\ c.state \in {"Establishing", "TimedOut", "Errored"} /\ IsConn(c) /\ ~c.destroyed
    BY <1>7, OneLink
  <2>2. ReceiverOK(c, l, w)
    BY <2>1 DEF Link, Direction
  <2> HIDE DEF c, l, w, kept
  <2>3. /\ l2.wrote = l.wrote /\ l2.shut = l.shut /\ l2.handed = l.handed \o c.input /\ l2.notice = Notice(c)
        /\ c.input \in Seq(Content) /\ l.handed \in Seq(Content)
    BY <1>2, <2>1 DEF LogRecord, IsConn, Shaped, l
  <2>4. l.notice = "None"
    BY <1>7, <2>2 DEF ReceiverOK, Dispatches
  <2>5. Notice(c) \in {"None", "Eof", "Errored"}
    BY DEF Notice
  <2>6. ASSUME Notice(c) = "Eof" PROVE w.shut /\ Len(l.handed) + Len(c.input) = Len(w.wrote)
    <3>1. c.eof /\ c.state # "Errored"
      BY <2>6 DEF Notice
    <3>2. Talking(c)
      BY <2>1, <3>1 DEF Talking
    <3> QED BY <2>2, <3>1, <3>2 DEF ReceiverOK
  <2>7. Len(l2.handed) = Len(l.handed) + Len(c.input)
    BY <2>3
  <2> HIDE DEF l2
  <2> QED BY <2>3, <2>4, <2>5, <2>6, <2>7 DEF EndHands
<1> HIDE DEF g, l2, kept
<1> QED BY <1>3, <1>5, <1>6, <1>7 DEF EndLogs

\* Each step is one end's, and leaves the log of the other.
LEMMA LogsNext ==
  ASSUME TransferInv, [Next]_vars
  PROVE  \E e \in End : /\ EndLogs(log[e][1], log'[e][1], log[Peer(e)][1], Items[e])
                        /\ log'[Peer(e)][1] = log[Peer(e)][1]
<1>1. CASE UNCHANGED log
  BY <1>1, Peers DEF EndLogs
<1>2. ASSUME NEW e \in End, NEW i \in Slot, Network(e, i) PROVE UNCHANGED log
  BY <1>2 DEF Network, SendConnect, SendAnswer, SendHandshake, DestroyAtOnce, TimeOut, Resend, SendData,
              SendGoodbye, SendKeepAlive, SendAck
<1>3. ASSUME NEW e \in End, NEW p \in net[e], ReceivePacket(e, p) \/ ReceiveConnect(e, p) PROVE UNCHANGED log
  BY <1>3, NoConnectComes DEF ReceivePacket
<1>4. ASSUME NEW e \in End, Lose(e) \/ Reap(e) PROVE UNCHANGED log
  BY <1>4 DEF Lose, Reap
<1>5. ASSUME NEW e \in End, Connect(e)
      PROVE  log'[e][1] = log[e][1] /\ log'[Peer(e)] = log[Peer(e)]
  <2>1. log' = log \/ log' = [log EXCEPT ![e] = Append(@, NewLog)]
    <3>1. log' = [log EXCEPT ![e] = IF First({i \in DOMAIN conn[e] : Acceptable(conn[e][i])}) = {}
                                    THEN Append(@, NewLog) ELSE @]
      BY <1>5, Zenon DEF Connect
    <3>2. log = [log EXCEPT ![e] = log[e]]
      BY DEF TransferInv, Typed, LogTyped
    <3> QED BY <3>1, <3>2
  <2>2. /\ log[e] \in Seq(LogRecord) /\ 1 <= Len(log[e]) /\ DOMAIN log = End
        /\ Peer(e) \in End /\ Peer(e) # e
    BY EndLink
  <2>3. Append(log[e], NewLog)[1] = log[e][1]
    BY <2>2
  <2> QED BY <2>1, <2>2, <2>3
<1>6. ASSUME NEW e \in End, Game(e)
      PROVE  EndLogs(log[e][1], log'[e][1], log[Peer(e)][1], Items[e]) /\ log'[Peer(e)][1] = log[Peer(e)][1]
  <2>1. ASSUME NEW i \in Slot PROVE i \in Nat
    BY DEF Slot
  <2>2. CASE Connect(e)
    BY <1>5, <2>2 DEF EndLogs
  <2>3. CASE Reject(e) \/ Destroy(e) \/ \E i \in Slot : ScheduleDestroy(e, i)
    BY <2>3, ScheduleLogs DEF Reject, Destroy, ScheduleDestroy
  <2>4. CASE Pull(e)
    BY <2>4, PullLogs
  <2>5. ASSUME NEW i \in Slot, Write(e, i)
        PROVE  EndLogs(log[e][1], log'[e][1], log[Peer(e)][1], Items[e]) /\ log'[Peer(e)][1] = log[Peer(e)][1]
    BY <2>1, <2>5, WriteLogs
  <2> QED BY <1>6, <2>2, <2>3, <2>4, <2>5 DEF Game
<1>7. CASE UNCHANGED vars
  BY <1>1, <1>7 DEF vars
<1> QED BY <1>1, <1>2, <1>3, <1>4, <1>6, <1>7 DEF Next

\* The ends' logs, as the invariant relates them.
Agree == \A e \in End :
  LogOK(log[e][1], log[Peer(e)][1]) /\ log[e][1] \in LogRecord /\ log[Peer(e)][1] \in LogRecord
LEMMA LogsAgree == TransferInv => Agree
BY EndLink DEF Link, Direction, Shapes, Agree

\* Of two sequences of which one holds the first elements of the other.
LEMMA PrefixOf ==
  ASSUME NEW S, NEW T, NEW s \in Seq(S), NEW t \in Seq(T), Len(s) <= Len(t), \A k \in 1..Len(s) : s[k] = t[k]
  PROVE  IsPrefix(s, t) /\ (Len(s) = Len(t) => s = t)
<1>1. Len(s) \in Nat /\ Len(t) \in Nat
  OBVIOUS
<1>2. SubSeq(s, 1, Len(s)) = s
  OBVIOUS
<1>3. SubSeq(t, 1, Len(s)) = s
  <2> DEFINE u == SubSeq(t, 1, Len(s))
  <2>1. u \in Seq(T) /\ Len(u) = Len(s) /\ \A k \in 1..Len(s) : u[k] = t[k]
    BY <1>1
  <2> HIDE DEF u
  <2>2. u = s
    BY <2>1
  <2> QED BY <2>2 DEF u
<1>4. IsPrefix(s, t)
  BY <1>2, <1>3 DEF IsPrefix
<1>5. Len(s) = Len(t) => s = t
  OBVIOUS
<1> QED BY <1>4, <1>5

LEMMA AppendExtends ==
  ASSUME NEW S, NEW s \in Seq(S), NEW x \in S
  PROVE  IsPrefix(s, Append(s, x)) /\ Len(Append(s, x)) = Len(s) + 1
<1>1. Append(s, x) \in Seq(S) /\ Len(s) \in Nat /\ Len(Append(s, x)) = Len(s) + 1
      /\ \A k \in 1..Len(s) : s[k] = Append(s, x)[k]
  OBVIOUS
<1>2. Len(s) <= Len(Append(s, x))
  BY <1>1
<1> HIDE DEF IsPrefix
<1> QED BY <1>1, <1>2, PrefixOf

LEMMA ConcatExtends ==
  ASSUME NEW S, NEW s \in Seq(S), NEW x \in Seq(S)
  PROVE  IsPrefix(s, s \o x)
<1> DEFINE t == s \o x
<1>1. t \in Seq(S) /\ Len(s) \in Nat /\ Len(x) \in Nat /\ Len(t) = Len(s) + Len(x)
      /\ \A k \in 1..Len(s) : s[k] = t[k]
  OBVIOUS
<1> HIDE DEF t
<1>2. Len(s) <= Len(t)
  BY <1>1
<1>3. IsPrefix(s, t)
  BY <1>1, <1>2, PrefixOf
<1> QED BY <1>3 DEF t

\* A direction of the link, as OrderedLink has it, of a step of either end.
LEMMA SenderSteps ==
  ASSUME NEW l \in LogRecord, NEW l2, NEW w, NEW n, EndLogs(l, l2, w, n)
  PROVE  \/ l2.wrote = l.wrote /\ l2.shut = l.shut
         \/ ~l.shut /\ IsPrefix(l.wrote, l2.wrote) /\ Len(l2.wrote) = Len(l.wrote) + 1 /\ l2.shut = l.shut
         \/ l2.shut = TRUE /\ l2.wrote = l.wrote
<1>1. l.wrote \in Seq(Message)
  BY DEF LogRecord
<1>2. ASSUME NEW x \in Message, l2.wrote = Append(l.wrote, x)
      PROVE  IsPrefix(l.wrote, l2.wrote) /\ Len(l2.wrote) = Len(l.wrote) + 1
  BY <1>1, <1>2, AppendExtends
<1> QED BY <1>2 DEF EndLogs, EndWrites, EndCloses, EndHands

LEMMA ReceiverSteps ==
  ASSUME NEW l \in LogRecord, NEW l2 \in LogRecord, NEW w \in LogRecord, NEW n, EndLogs(l, l2, w, n), LogOK(w, l2)
  PROVE  \/ l2.handed = l.handed /\ l2.notice = l.notice
         \/ /\ l.notice = "None" /\ l2.notice \in {"None", "Eof", "Errored"}
            /\ IsPrefix(l.handed, l2.handed) /\ IsPrefix(l2.handed, w.wrote)
            /\ l2.notice = "Eof" => w.shut /\ l2.handed = w.wrote
<1>1. l.handed \in Seq(Content) /\ l2.handed \in Seq(Content) /\ w.wrote \in Seq(Message)
  BY DEF LogRecord
<1>2. ASSUME NEW s \in Seq(Content), l2.handed = l.handed \o s PROVE IsPrefix(l.handed, l2.handed)
  BY <1>1, <1>2, ConcatExtends
<1>3. IsPrefix(l2.handed, w.wrote) /\ (Len(l2.handed) = Len(w.wrote) => l2.handed = w.wrote)
  BY <1>1, PrefixOf DEF LogOK
<1> QED BY <1>2, <1>3 DEF EndLogs, EndWrites, EndCloses, EndHands

\* Each step of the link is one of OrderedLink or leaves its variables alone,
LEMMA LinkSteps ==
  ASSUME TransferInv, TransferInv', [Next]_vars, NEW e \in End, NEW q, q = Peer(e)
  PROVE  \* the direction from e to q
         LET l == log[e][1]
             l2 == log'[e][1]
             m == log[q][1]
             m2 == log'[q][1]
         IN  \/ l2.wrote = l.wrote /\ l2.shut = l.shut /\ m2.handed = m.handed /\ m2.notice = m.notice
             \/ /\ ~l.shut /\ IsPrefix(l.wrote, l2.wrote) /\ Len(l2.wrote) = Len(l.wrote) + 1 /\ l2.shut = l.shut
                /\ m2.handed = m.handed /\ m2.notice = m.notice
             \/ l2.shut = TRUE /\ l2.wrote = l.wrote /\ m2.handed = m.handed /\ m2.notice = m.notice
             \/ /\ m.notice = "None" /\ m2.notice \in {"None", "Eof", "Errored"}
                /\ IsPrefix(m.handed, m2.handed) /\ IsPrefix(m2.handed, l.wrote)
                /\ m2.notice = "Eof" => l.shut /\ m2.handed = l.wrote
                /\ l2.wrote = l.wrote /\ l2.shut = l.shut
<1> DEFINE l == log[e][1]
           l2 == log'[e][1]
           m == log[q][1]
           m2 == log'[q][1]
<1>1. q \in End /\ Peer(q) = e /\ \A x \in End : x = e \/ x = q
  BY PeerOf, Peers
<1>2. l \in LogRecord /\ m \in LogRecord
  BY LogsAgree DEF Agree
<1>3. LogOK(l2, m2) /\ m2 \in LogRecord /\ l2 \in LogRecord
  <2>1. Agree'
    BY LogsAgree, PTL
  <2> QED BY <1>1, <2>1 DEF Agree
<1>4. PICK x \in End : EndLogs(log[x][1], log'[x][1], log[Peer(x)][1], Items[x]) /\ log'[Peer(x)][1] = log[Peer(x)][1]
  BY LogsNext
<1>5. (EndLogs(l, l2, m, Items[e]) /\ m2 = m) \/ (EndLogs(m, m2, l, Items[q]) /\ l2 = l)
  BY <1>1, <1>4
<1> HIDE DEF l, l2, m, m2
<1>6. CASE EndLogs(l, l2, m, Items[e]) /\ m2 = m
  BY <1>2, <1>6, SenderSteps DEF l, l2, m, m2
<1>7. CASE EndLogs(m, m2, l, Items[q]) /\ l2 = l
  <2>1. LogOK(l, m2)
    BY <1>3, <1>7
  <2> QED BY <1>2, <1>3, <1>7, <2>1, ReceiverSteps DEF l, l2, m, m2
<1> QED BY <1>5, <1>6, <1>7

\* in the one direction,
LEMMA AToBNext == TransferInv /\ TransferInv' /\ [Next]_vars => [AToB!Next]_(AToB!vars)
<1> SUFFICES ASSUME TransferInv, TransferInv', [Next]_vars PROVE [AToB!Next]_(AToB!vars)
  OBVIOUS
<1>1. a \in End /\ b = Peer(a)
  BY Peers
<1>2. \A s, t : IsPrefix(s, t) => AToB!IsPrefix(s, t)
  BY DEF IsPrefix, AToB!IsPrefix
<1> QED BY <1>1, <1>2, LinkSteps DEF AToB!Next, AToB!vars, AToB!Write, AToB!Close, AToB!Hand, AToB!Ended

\* and in the other.
LEMMA BToANext == TransferInv /\ TransferInv' /\ [Next]_vars => [BToA!Next]_(BToA!vars)
<1> SUFFICES ASSUME TransferInv, TransferInv', [Next]_vars PROVE [BToA!Next]_(BToA!vars)
  OBVIOUS
<1>1. b \in End /\ a = Peer(b)
  BY Peers
<1>2. \A s, t : IsPrefix(s, t) => BToA!IsPrefix(s, t)
  BY DEF IsPrefix, BToA!IsPrefix
<1> QED BY <1>1, <1>2, LinkSteps DEF BToA!Next, BToA!vars, BToA!Write, BToA!Close, BToA!Hand, BToA!Ended

LEMMA LinksInit == InitEstablished => AToB!Init /\ BToA!Init
<1> SUFFICES ASSUME InitEstablished PROVE AToB!Init /\ BToA!Init
  OBVIOUS
<1>1. log[a] = <<NewLog>> /\ log[b] = <<NewLog>>
  BY Peers DEF InitEstablished
<1>2. <<NewLog>>[1] = NewLog
  OBVIOUS
<1>3. NewLog.wrote = <<>> /\ ~NewLog.shut /\ NewLog.handed = <<>> /\ NewLog.notice = "None"
  BY DEF NewLog
<1> QED BY <1>1, <1>2, <1>3 DEF AToB!Init, BToA!Init

\* While no packet is too late, each direction of an established link is an
\* OrderedLink: the game is handed by DispatchFromInput what its peer wrote, in
\* order, each message once, nothing after the end, and the end only after all.
THEOREM LinkIsOrdered == TransferSpec /\ []Recent => ImplementsLink
<1>1. ImplementsLink <=> AToB!Spec /\ BToA!Spec
  BY DEF ImplementsLink
<1> QED BY <1>1, InitEstablishedTransfer, TransferInvNext, AToBNext, BToANext, LinksInit, PTL
        DEF TransferSpec, AToB!Spec, BToA!Spec

----------------------------------------------------------------------------
(* A link of few messages *)

\* No more is written on the connection of the link than the bound.
FewWritten == \A e \in End : Len(log[e][1].wrote) <= Items[e]

LEMMA FewInit == InitEstablished => FewWritten
<1> SUFFICES ASSUME InitEstablished, NEW e \in End PROVE Len(log[e][1].wrote) <= Items[e]
  BY DEF FewWritten
<1>1. log[e] = <<NewLog>> /\ <<NewLog>>[1] = NewLog
  BY DEF InitEstablished
<1>2. NewLog.wrote = <<>> /\ Len(<<>>) = 0
  BY DEF NewLog
<1> QED BY <1>1, <1>2, BoundAssumption

LEMMA FewNext == TransferInv /\ FewWritten /\ [Next]_vars => FewWritten'
<1> SUFFICES ASSUME TransferInv, FewWritten, [Next]_vars PROVE FewWritten'
  OBVIOUS
<1>1. PICK x \in End : /\ EndLogs(log[x][1], log'[x][1], log[Peer(x)][1], Items[x])
                       /\ log'[Peer(x)][1] = log[Peer(x)][1]
  BY LogsNext
<1>2. Len(log'[x][1].wrote) <= Items[x]
  BY <1>1 DEF EndLogs, EndWrites, EndCloses, EndHands, FewWritten
<1>3. \A e \in End : e = x \/ e = Peer(x)
  BY PeerOf, Peers
<1>4. Len(log'[Peer(x)][1].wrote) <= Items[Peer(x)]
  BY <1>1, PeerOf DEF FewWritten
<1> QED BY <1>2, <1>3, <1>4 DEF FewWritten

\* What a link counts is at most what was written on it and the end of it.
LEMMA CountsAreFew ==
  ASSUME NEW c, NEW l, NEW D, NEW m, NEW toD, NEW toC, Link({c}, l, D, m, toD, toC)
  PROVE  /\ Sent(c, l) <= Len(l.wrote) + 1
         /\ Talking(c) => Got(c, l) <= Len(m.wrote) + 1
<1>1. IsConn(c) /\ l \in LogRecord /\ m \in LogRecord /\ ReceiverOK(c, l, m)
  BY DEF Link, Shapes, Direction
<1>2. /\ Len(l.wrote) \in Nat /\ Len(l.handed) \in Nat /\ Len(c.out) \in Nat /\ Len(c.input) \in Nat
      /\ Len(m.wrote) \in Nat
  BY <1>1, CountsAreInts
<1>3. (IF c.sentShutdown THEN 1 ELSE 0) \in {0, 1} /\ (IF c.eof THEN 1 ELSE 0) \in {0, 1}
  OBVIOUS
<1>4. Talking(c) => Len(l.handed) + Len(c.input) <= Len(m.wrote)
  BY <1>1 DEF ReceiverOK, Talking
<1>5. Sent(c, l) <= Len(l.wrote) + 1
  <2> DEFINE t == IF c.sentShutdown THEN 1 ELSE 0
             o == Len(c.out)
             w == Len(l.wrote)
  <2>1. Sent(c, l) = w - o + t
    BY DEF Sent
  <2>2. t \in {0, 1} /\ o \in Nat /\ w \in Nat
    BY <1>2, <1>3
  <2> HIDE DEF t, o, w
  <2>3. Sent(c, l) <= w + 1
    BY <2>1, <2>2
  <2> QED BY <2>3 DEF w
<1>6. Talking(c) => Got(c, l) <= Len(m.wrote) + 1
  <2> DEFINE t == IF c.eof THEN 1 ELSE 0
             h == Len(l.handed)
             n == Len(c.input)
             w == Len(m.wrote)
  <2>1. Got(c, l) = h + n + t
    BY DEF Got
  <2>2. t \in {0, 1} /\ h \in Nat /\ n \in Nat /\ w \in Nat /\ (Talking(c) => h + n <= w)
    BY <1>2, <1>3, <1>4
  <2> HIDE DEF t, h, n, w
  <2>3. Talking(c) => Got(c, l) <= w + 1
    BY <2>1, <2>2
  <2> QED BY <2>3 DEF w
<1> QED BY <1>5, <1>6

\* So on a short link every packet is recent: no two of its numbers are alike.
LEMMA ShortIsRecent ==
  ASSUME ShortLink
  PROVE  TransferInv /\ FewWritten => Recent
<1> SUFFICES ASSUME TransferInv, FewWritten PROVE Recent
  OBVIOUS
<1>1. ASSUME NEW e \in End, NEW i \in DOMAIN conn[e], NEW p \in net[e]
      PROVE  /\ Talks(e, i) /\ p.kind = "Data" =>
                  Got(conn[e][i], log[e][i]) - p.nth <= SeqSpace \div 2
             /\ p.kind \in {"Data", "Ack", "KeepAlive"} =>
                  Sent(conn[e][i], log[e][i]) - p.had < SeqSpace \div 2
  <2> DEFINE q == Peer(e)
             c == conn[e][i]
             l == log[e][i]
             H == SeqSpace \div 2
  <2>1. H \in Nat /\ Items[e] \in Nat /\ Items[q] \in Nat /\ Items[e] + 1 < H /\ Items[q] + 1 < H
    BY Space, PeerOf, BoundAssumption DEF ShortLink, Half
  <2>2. Link(One(e), log[e][1], One(q), log[q][1], net[q], net[e])
    BY EndLink
  <2>3. Len(log[e][1].wrote) <= Items[e] /\ Len(log[q][1].wrote) <= Items[q]
    BY PeerOf DEF FewWritten
  <2>4. IsConn(c) /\ l \in LogRecord /\ Sent(c, l) \in Int /\ Got(c, l) \in Nat
    BY LogOf, CountsAreInts DEF TransferInv
  <2>5. ASSUME i = 1
        PROVE  /\ Sent(c, l) <= Items[e] + 1
               /\ Talking(c) => Got(c, l) <= Items[q] + 1
    <3>1. Link({c}, l, One(q), log[q][1], net[q], net[e])
      BY <2>5, OneLink
    <3>2. /\ Sent(c, l) <= Len(log[e][1].wrote) + 1
          /\ Talking(c) => Got(c, l) <= Len(log[q][1].wrote) + 1
      BY <2>5, <3>1, CountsAreFew
    <3>3. Len(log[e][1].wrote) \in Nat /\ Len(log[q][1].wrote) \in Nat
      BY <2>2 DEF Link, Shapes, LogRecord
    <3> DEFINE u == Len(log[e][1].wrote)
               v == Len(log[q][1].wrote)
               S == Sent(c, l)
               G == Got(c, l)
    <3>4. /\ S \in Int /\ G \in Int /\ u \in Int /\ v \in Int /\ Items[e] \in Int /\ Items[q] \in Int
          /\ S <= u + 1 /\ (Talking(c) => G <= v + 1) /\ u <= Items[e] /\ v <= Items[q]
      BY <2>1, <2>3, <2>4, <3>2, <3>3
    <3> HIDE DEF c, l, u, v, S, G
    <3>5. S <= Items[e] + 1 /\ (Talking(c) => G <= Items[q] + 1)
      BY <3>4
    <3> QED BY <3>5 DEF S, G
  <2>6. ASSUME i # 1 PROVE Sent(c, l) = 0 /\ ~Talks(e, i)
    <3>1. Spare(c, l)
      BY <2>6 DEF TransferInv, Lists
    <3>2. Len(l.wrote) \in Nat
      BY <2>4, CountsAreInts
    <3>3. Sent(c, l) = 0
      BY <3>1, <3>2 DEF Spare, Sent
    <3>4. ~Talks(e, i)
      BY <2>6, TalksAtOne DEF Talks
    <3> QED BY <3>3, <3>4
  <2>7. Talks(e, i) => Talking(c)
    BY DEF Talks, Talking
  <2>8. p.kind # "Goodbye" => p.had \in Nat
    BY <2>2 DEF Link, Direction, NetOK, AckOf
  <2>9. p.kind = "Data" => p.nth \in Nat
    BY <2>2 DEF Link, Direction, NetOK, DataFor, DataOf
  <2>10. p.kind \in {"Data", "Ack", "KeepAlive"} => p.kind # "Goodbye"
    OBVIOUS
  <2>11. Sent(c, l) < H
    BY <2>1, <2>4, <2>5, <2>6
  <2>12. Talks(e, i) => Got(c, l) <= H
    BY <2>1, <2>4, <2>5, <2>6, <2>7
  <2> HIDE DEF c, l, H
  <2>13. Talks(e, i) /\ p.kind = "Data" => Got(c, l) - p.nth <= H
    BY <2>1, <2>4, <2>9, <2>12
  <2>14. p.kind \in {"Data", "Ack", "KeepAlive"} => Sent(c, l) - p.had < H
    BY <2>1, <2>4, <2>8, <2>10, <2>11
  <2> QED BY <2>13, <2>14 DEF c, l, H
<1> QED BY <1>1 DEF Recent

\* On a link of fewer messages than half the sequence space no packet of any
\* network is too late for ProcessAckInternal and ProcessData to tell its numbers.
THEOREM ShortLinkIsRecent ==
  ASSUME ShortLink
  PROVE  TransferSpec => []Recent
<1>1. TransferInv /\ FewWritten /\ [Next]_vars => TransferInv' /\ FewWritten'
  BY ShortIsRecent, TransferInvNext, FewNext
<1> QED BY <1>1, ShortIsRecent, InitEstablishedTransfer, FewInit, PTL DEF TransferSpec

\* On such a link, therefore, an acknowledged packet is one the peer has, with no
\* assumption of the network (ProcessAckInternal, SendData).
THEOREM ShortLinkForgetsNothing ==
  ASSUME ShortLink
  PROVE  TransferSpec => []AckedIsHeld
BY ShortLinkIsRecent, NothingIsForgotten, PTL

\* And such a link is an OrderedLink in both directions, with no assumption of the
\* network (DispatchFromInput).
THEOREM ShortLinkIsOrdered ==
  ASSUME ShortLink
  PROVE  TransferSpec => ImplementsLink
BY ShortLinkIsRecent, LinkIsOrdered, PTL
=============================================================================
