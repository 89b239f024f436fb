------------------------------ MODULE SpeedVote ------------------------------
(***************************************************************************)
(* The game speed, which no host decides: every player may ask for one     *)
(* (SetSimRate), every player reports what its machine can do              *)
(* (BroadcastIntParam), and each issues beats at the slowest of the speed  *)
(* asked for last and the reports of those it still plays with.            *)
(*                                                                         *)
(* A player's messages reach each of the others in the order sent.  A      *)
(* player that leaves may have reached some of them with more than others; *)
(* a link that fails between two players who stay is left out.             *)
(***************************************************************************)
EXTENDS Integers, Sequences, FiniteSetsExt

CONSTANTS
    Player,    \* client indexes
    MinRate,   \* -10: what the speed controls can ask for, at least
    MaxRate,   \* 50: and at most
    Asked,     \* bound: rates asked for and reported
    MaxAsks,   \* bound: requests and reports in all
    MaxGone    \* bound: players that leave

ASSUME PlayerAssumption == Player \subseteq Nat /\ Player # {}
ASSUME RateAssumption == MinRate \in Int /\ MaxRate \in Int /\ MinRate <= MaxRate /\ Asked \subseteq Int
ASSUME BoundAssumption == MaxAsks \in Nat /\ MaxGone \in Nat

VARIABLES
    stamp,    \* mGameSpeedClock and mGameSpeedRequester of each manager
    speed,    \* mGameSpeed
    report,   \* report[p][q]: mSimRate of q's client at p
    link,     \* link[p][q]: messages from p that q has not received
    dropped,  \* dropped[p]: clients whose ejection is pending at p
    asks,     \* requests and reports sent so far
    gone      \* players that have left

vars == <<stamp, speed, report, link, dropped, asks, gone>>

Live == Player \ gone

Ask(clock, rate) == [kind |-> "AdjustSimSpeed", clock |-> clock, rate |-> rate]
Report(rate) == [kind |-> "IntParam", clock |-> 0, rate |-> rate]
ConnLost == [kind |-> "ConnLost", clock |-> 0, rate |-> 0]

FaultyClamp(rate) == IF rate < MinRate THEN MinRate ELSE rate

Clamp(rate) == IF rate < MinRate THEN MinRate ELSE IF rate > MaxRate THEN MaxRate ELSE rate

(* Newer clocks win; ties are broken by the lower requester index.           *)
FaultyNewer(s, t) == s.clock < t.clock

Newer(s, t) ==
    \/ s.clock < t.clock
    \/ s.clock = t.clock /\ t.requester < s.requester

Init ==
    \E first \in Asked :
        /\ stamp = [p \in Player |-> [clock |-> 0, requester |-> 0]]
        /\ speed = [p \in Player |-> first]
        /\ report = [p \in Player |-> [q \in Player |-> MaxRate]]
        /\ link = [p \in Player |-> [q \in Player |-> <<>>]]
        /\ dropped = [p \in Player |-> {}]
        /\ asks = 0
        /\ gone = {}

(* ProcessClients: the local client applies the message, the others send it. *)
Sent(p, message) ==
    [link EXCEPT ![p] = [q \in Player |-> IF q = p THEN @[q] ELSE Append(@[q], message)]]

FaultyApply(p, t, rate) ==
    IF Newer(stamp[p], t)
    THEN /\ stamp' = [stamp EXCEPT ![p].clock = t.clock]
         /\ speed' = [speed EXCEPT ![p] = Clamp(rate)]
    ELSE UNCHANGED <<stamp, speed>>

ApplyIncomingGameSpeedRequest(p, t, rate) ==
    IF Newer(stamp[p], t)
    THEN /\ stamp' = [stamp EXCEPT ![p] = t]
         /\ speed' = [speed EXCEPT ![p] = Clamp(rate)]
    ELSE UNCHANGED <<stamp, speed>>

SetSimRate(p, rate) ==
    LET clock == stamp[p].clock + 1
    IN  /\ p \in Live
        /\ asks < MaxAsks
        /\ asks' = asks + 1
        /\ link' = Sent(p, Ask(clock, rate))
        /\ ApplyIncomingGameSpeedRequest(p, [clock |-> clock, requester |-> p], rate)
        /\ UNCHANGED <<report, dropped, gone>>

BroadcastIntParam(p, rate) ==
    /\ p \in Live
    /\ asks < MaxAsks
    /\ asks' = asks + 1
    /\ link' = Sent(p, Report(rate))
    /\ report' = [report EXCEPT ![p][p] = rate]
    /\ UNCHANGED <<stamp, speed, dropped, gone>>

(* CClientBase::Process, for client p at player q.                           *)
ReceiveAsk(p, q, message) ==
    /\ message.kind = "AdjustSimSpeed"
    /\ ApplyIncomingGameSpeedRequest(q, [clock |-> message.clock, requester |-> p], message.rate)
    /\ UNCHANGED <<report, dropped>>

ReceiveReport(p, q, message) ==
    /\ message.kind = "IntParam"
    /\ report' = [report EXCEPT ![q][p] = message.rate]
    /\ UNCHANGED <<stamp, speed, dropped>>

ReceiveConnLost(p, q, message) ==
    /\ message.kind = "ConnLost"
    /\ dropped' = [dropped EXCEPT ![q] = @ \cup {p}]
    /\ UNCHANGED <<stamp, speed, report>>

Receive(p, q) ==
    /\ q \in Live
    /\ link[p][q] # <<>>
    /\ link' = [link EXCEPT ![p][q] = Tail(@)]
    /\ \/ ReceiveAsk(p, q, Head(link[p][q]))
       \/ ReceiveReport(p, q, Head(link[p][q]))
       \/ ReceiveConnLost(p, q, Head(link[p][q]))
    /\ UNCHANGED <<asks, gone>>

(* Player p leaves: to each of the others, the tail of its messages is lost. *)
Leave(p, kept) ==
    /\ p \in Live
    /\ \A q \in Player : kept[q] <= Len(link[p][q])
    /\ Cardinality(gone) < MaxGone
    /\ gone' = gone \cup {p}
    /\ link' = [link EXCEPT ![p] =
                   [q \in Player |->
                       IF q = p THEN @[q]
                       ELSE Append(SubSeq(@[q], 1, kept[q]), ConnLost)]]
    /\ UNCHANGED <<stamp, speed, report, dropped, asks>>

Next ==
    \/ \E p \in Player, rate \in Asked : SetSimRate(p, rate) \/ BroadcastIntParam(p, rate)
    \/ \E p, q \in Player : Receive(p, q)
    \/ \E p \in Player : \E kept \in [Player -> 0 .. MaxAsks] : Leave(p, kept)

Spec == Init /\ [][Next]_vars

-----------------------------------------------------------------------------
(* GetSimRate: the rate the issue thread paces with.                         *)
GetSimRate(p) == Clamp(Min({speed[p]} \cup {report[p][q] : q \in Player \ dropped[p]}))

Stamp == [clock : Nat, requester : Nat]

Message ==
    [kind : {"AdjustSimSpeed", "IntParam", "ConnLost"}, clock : Nat, rate : Int]

(* Type invariant; once anyone has asked, the speed is one that the speed    *)
(* controls can produce.                                                     *)
TypeOK ==
    /\ stamp \in [Player -> Stamp]
    /\ speed \in [Player -> Int]
    /\ \A p \in Player : stamp[p].clock > 0 => speed[p] \in MinRate .. MaxRate
    /\ report \in [Player -> [Player -> Int]]
    /\ link \in [Player -> [Player -> Seq(Message)]]
    /\ dropped \in [Player -> SUBSET Player]
    /\ asks \in 0 .. MaxAsks
    /\ gone \in SUBSET Player

(* Two players that hold the same clock and requester hold the same speed:   *)
(* no two requests ever share a stamp, although every player numbers its     *)
(* own from whatever clock it has heard of.                                  *)
OneStampOneSpeed ==
    \A p, q \in Player : stamp[p] = stamp[q] => speed[p] = speed[q]

Quiet == \A p \in Player, q \in Live : link[p][q] = <<>>

(* Nobody left has heard a newer request than one of somebody left (or of    *)
(* the launch options).                                                      *)
NewestIsOfTheLiving ==
    \E p \in Live :
        /\ \A q \in Live : ~Newer(stamp[p], stamp[q])
        /\ stamp[p].clock = 0 \/ stamp[p].requester \in Live

(* Once every message has arrived, whatever was asked for concurrently and   *)
(* whoever left, all players issue beats at the same rate, if whoever asked  *)
(* last is still there: what a leaver asked for last may have reached only   *)
(* some of the others.                                                       *)
SameRateWhenQuiet ==
    Quiet /\ NewestIsOfTheLiving => \A p, q \in Live : GetSimRate(p) = GetSimRate(q)

=============================================================================
