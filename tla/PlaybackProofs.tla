--------------------------- MODULE PlaybackProofs ---------------------------
(* Two results about Playback, for any number of players and of beats, any   *)
(* departures, any keyframe and any way the record arrives: the manager and  *)
(* the sim never differ about the source orders run under, and the playback  *)
(* runs what the game ran.                                                   *)
(*                                                                           *)
(* Both sides are compared with the record read one message at a time        *)
(* (Course): the game's managers write a record whose reading is what the    *)
(* sim ran (GameInv), and the replay client is always at a place of it where *)
(* its gate, its pipe and what it has played agree with the reading there    *)
(* (ReplayInv).  A beat, whoever writes it, is followed message by message   *)
(* (the Drains and Echoes lemmas).                                           *)
EXTENDS Playback, FiniteSetTheorems, WellFoundedInduction, NaturalsInduction,
        TLAPS

-----------------------------------------------------------------------------
(* Numbers.                                                                  *)

(* The numbers are well founded: a set of them has a least one.              *)
LEMMA LeastNumber ==
    ASSUME NEW T \in SUBSET Nat, T # {}
    PROVE  \E x \in T : \A y \in T : x <= y
<1> DEFINE R == OpToRel(<, Nat)
<1>1. IsWellFoundedOn(R, Nat)
  BY NatLessThanWellFounded
<1>2. PICK x \in T : \A y \in T : ~(<<y, x>> \in R)
  BY <1>1, WFMin
<1>3. \A y \in T : ~(y < x)
  BY <1>2 DEF OpToRel
<1> QED
  BY <1>3

(* Induction up to a number, stated of a set.                                *)
LEMMA CountUp ==
    ASSUME NEW N \in Nat, NEW T,
           0 \in T,
           \A n \in 1 .. N : n - 1 \in T => n \in T
    PROVE  \A n \in 0 .. N : n \in T
<1> DEFINE Missing == {n \in 0 .. N : n \notin T}
<1> SUFFICES ASSUME Missing # {} PROVE FALSE
  OBVIOUS
<1>0. Missing \in SUBSET Nat
  OBVIOUS
<1>1. PICK k \in Missing : \A n \in Missing : k <= n
  <2> HIDE DEF Missing
  <2> QED
    BY <1>0, LeastNumber
<1>2. k \in 1 .. N /\ k - 1 \in 0 .. N /\ k - 1 \notin Missing
  BY <1>1
<1> QED
  BY <1>1, <1>2

-----------------------------------------------------------------------------
(* What the operators of CommandGate compute, message by message.            *)

(* The states a beat of a stream goes through.                               *)
LEMMA DrainSteps ==
    ASSUME NEW gate, NEW merged, NEW first, NEW segment, Len(segment) \in Nat
    PROVE  \E st :
             /\ st[0] = Enter(gate, merged, first)
             /\ \A n \in 1 .. Len(segment) : st[n] = ReadMessage(st[n - 1], segment[n])
             /\ Drain(gate, merged, first, segment) = [gate |-> st[Len(segment)].gate, merged |-> st[Len(segment)].merged]
<1> DEFINE base == Enter(gate, merged, first)
           Step(x, n) == ReadMessage(x, segment[n])
           Until(st, k) == st = [n \in 0 .. k |-> IF n = 0 THEN base
                                                  ELSE Step(st[n - 1], n)]
           T == {n \in Nat : \E f : Until(f, n)}
<1>0. Len(segment) \in Nat
  OBVIOUS
<1>1. ASSUME NEW st, Until(st, Len(segment))
      PROVE  /\ st[0] = Enter(gate, merged, first)
             /\ \A n \in 1 .. Len(segment) : st[n] = ReadMessage(st[n - 1], segment[n])
  <2>1. st[0] = base
    BY <1>0, <1>1
  <2>2. ASSUME NEW n \in 1 .. Len(segment)
        PROVE  st[n] = Step(st[n - 1], n)
    <3> HIDE DEF base, Step
    <3> QED
      BY <1>0, <1>1
  <2> QED
    BY <2>1, <2>2
<1>2. ASSUME NEW st, st = CHOOSE f : Until(f, Len(segment))
      PROVE  Drain(gate, merged, first, segment) = [gate |-> st[Len(segment)].gate, merged |-> st[Len(segment)].merged]
  BY <1>2 DEF Drain
<1> HIDE DEF base, Step
<1>3. 0 \in T
  <2>1. Until([n \in 0 .. 0 |-> base], 0)
    OBVIOUS
  <2> QED
    BY <2>1
<1>4. ASSUME NEW n \in 1 .. Len(segment), n - 1 \in T
      PROVE  n \in T
  <2>1. PICK st : Until(st, n - 1)
    BY <1>4
  <2> DEFINE longer == [k \in 0 .. n |-> IF k = n THEN Step(st[n - 1], n) ELSE st[k]]
  <2>2. ASSUME NEW k \in 0 .. n
        PROVE  longer[k] = IF k = 0 THEN base ELSE Step(longer[k - 1], k)
    BY <2>1, <1>0
  <2>3. Until(longer, n)
    BY <2>2
  <2>4. n \in Nat
    BY <1>0
  <2> HIDE DEF Until, longer
  <2> QED
    BY <2>3, <2>4
<1>5. Len(segment) \in T
  <2> HIDE DEF T
  <2>1. \A n \in 0 .. Len(segment) : n \in T
    BY <1>0, <1>3, <1>4, CountUp
  <2> QED
    BY <2>1, <1>0
<1>6. \E f : Until(f, Len(segment))
  <2> HIDE DEF Until
  <2> QED
    BY <1>5
<1> HIDE DEF Until
<1>7. Until(CHOOSE f : Until(f, Len(segment)), Len(segment))
  BY <1>6
<1> QED
  BY <1>1, <1>2, <1>7

(* The results of reading a beat of a stream, one after each message.        *)
Drains(st, gate, merged, first, segment) ==
    /\ st[0] = Enter(gate, merged, first)
    /\ \A n \in 1 .. Len(segment) : st[n] = ReadMessage(st[n - 1], segment[n])
    /\ Drain(gate, merged, first, segment)
         = [gate |-> st[Len(segment)].gate, merged |-> st[Len(segment)].merged]

(* A beat of a stream has such results, and Drain ends with the last.        *)
LEMMA DrainTrace ==
    ASSUME NEW gate, NEW merged, NEW first, NEW segment, Len(segment) \in Nat
    PROVE  \E st : Drains(st, gate, merged, first, segment)
BY DrainSteps DEF Drains

(* The fields of a gate.                                                     *)
LEMMA GateFields ==
    ASSUME NEW id, NEW valid
    PROVE  /\ Gate(id, valid).id = id /\ Gate(id, valid).valid = valid
           /\ \A i : [Gate(id, valid) EXCEPT !.id = i] = Gate(i, valid)
BY DEF Gate

(* The merged streams an ejected client's end goes through.                  *)
LEMMA EndStreamSteps ==
    ASSUME NEW gate, NEW merged
    PROVE  \E ended :
             /\ ended[0] = Enter(gate, merged, FALSE).merged
             /\ \A n \in 1 .. Players : ended[n] = IF n - 1 \in gate.valid
                  THEN Write(Announce(ended[n - 1], n - 1), Terminated)
                  ELSE ended[n - 1]
             /\ EndStream(gate, merged) = [gate |-> Gate(gate.id, {}), merged |-> ended[Players]]
<1> DEFINE base == Enter(gate, merged, FALSE).merged
           Step(x, n) == IF n - 1 \in gate.valid THEN Write(Announce(x, n - 1), Terminated) ELSE x
           Until(ended, k) == ended = [n \in 0 .. k |-> IF n = 0 THEN base
                                                  ELSE Step(ended[n - 1], n)]
           T == {n \in Nat : \E f : Until(f, n)}
<1>0. Players \in Nat
  BY SourceAssumption
<1>1. ASSUME NEW ended, Until(ended, Players)
      PROVE  /\ ended[0] = Enter(gate, merged, FALSE).merged
             /\ \A n \in 1 .. Players : ended[n] = IF n - 1 \in gate.valid
                  THEN Write(Announce(ended[n - 1], n - 1), Terminated)
                  ELSE ended[n - 1]
  <2>1. ended[0] = base
    BY <1>0, <1>1
  <2>2. ASSUME NEW n \in 1 .. Players
        PROVE  ended[n] = Step(ended[n - 1], n)
    <3> HIDE DEF base, Step
    <3> QED
      BY <1>0, <1>1
  <2> QED
    BY <2>1, <2>2
<1>2. ASSUME NEW ended, ended = CHOOSE f : Until(f, Players)
      PROVE  EndStream(gate, merged) = [gate |-> Gate(gate.id, {}), merged |-> ended[Players]]
  BY <1>2 DEF EndStream
<1> HIDE DEF base, Step
<1>3. 0 \in T
  <2>1. Until([n \in 0 .. 0 |-> base], 0)
    OBVIOUS
  <2> QED
    BY <2>1
<1>4. ASSUME NEW n \in 1 .. Players, n - 1 \in T
      PROVE  n \in T
  <2>1. PICK ended : Until(ended, n - 1)
    BY <1>4
  <2> DEFINE longer == [k \in 0 .. n |-> IF k = n THEN Step(ended[n - 1], n) ELSE ended[k]]
  <2>2. ASSUME NEW k \in 0 .. n
        PROVE  longer[k] = IF k = 0 THEN base ELSE Step(longer[k - 1], k)
    BY <2>1, <1>0
  <2>3. Until(longer, n)
    BY <2>2
  <2>4. n \in Nat
    BY <1>0
  <2> HIDE DEF Until, longer
  <2> QED
    BY <2>3, <2>4
<1>5. Players \in T
  <2> HIDE DEF T
  <2>1. \A n \in 0 .. Players : n \in T
    BY <1>0, <1>3, <1>4, CountUp
  <2> QED
    BY <2>1, <1>0
<1>6. \E f : Until(f, Players)
  <2> HIDE DEF Until
  <2> QED
    BY <1>5
<1> HIDE DEF Until
<1>7. Until(CHOOSE f : Until(f, Players), Players)
  BY <1>6
<1> QED
  BY <1>1, <1>2, <1>7

(* The states the sim goes through in a beat.                                *)
LEMMA RunSteps ==
    ASSUME NEW from, NEW messages, Len(messages) \in Nat
    PROVE  \E sim :
             /\ sim[0] = [current |-> from, ran |-> <<>>]
             /\ \A n \in 1 .. Len(messages) : sim[n] = Decode(sim[n - 1], messages[n])
             /\ RunBeat(from, messages) = sim[Len(messages)]
<1> DEFINE base == [Idle EXCEPT !.current = from]
           Step(x, n) == Decode(x, messages[n])
           Until(sim, k) == sim = [n \in 0 .. k |-> IF n = 0 THEN base
                                                  ELSE Step(sim[n - 1], n)]
           T == {n \in Nat : \E f : Until(f, n)}
<1>0. Len(messages) \in Nat
  OBVIOUS
<1>1. ASSUME NEW sim, Until(sim, Len(messages))
      PROVE  /\ sim[0] = [current |-> from, ran |-> <<>>]
             /\ \A n \in 1 .. Len(messages) : sim[n] = Decode(sim[n - 1], messages[n])
  <2>1. sim[0] = base
    BY <1>0, <1>1
  <2>2. ASSUME NEW n \in 1 .. Len(messages)
        PROVE  sim[n] = Step(sim[n - 1], n)
    <3> HIDE DEF base, Step
    <3> QED
      BY <1>0, <1>1
  <2> QED
    BY <2>1, <2>2 DEF Idle
<1>2. ASSUME NEW sim, sim = CHOOSE f : Until(f, Len(messages))
      PROVE  RunBeat(from, messages) = sim[Len(messages)]
  BY <1>2 DEF RunBeat
<1> HIDE DEF base, Step
<1>3. 0 \in T
  <2>1. Until([n \in 0 .. 0 |-> base], 0)
    OBVIOUS
  <2> QED
    BY <2>1
<1>4. ASSUME NEW n \in 1 .. Len(messages), n - 1 \in T
      PROVE  n \in T
  <2>1. PICK sim : Until(sim, n - 1)
    BY <1>4
  <2> DEFINE longer == [k \in 0 .. n |-> IF k = n THEN Step(sim[n - 1], n) ELSE sim[k]]
  <2>2. ASSUME NEW k \in 0 .. n
        PROVE  longer[k] = IF k = 0 THEN base ELSE Step(longer[k - 1], k)
    BY <2>1, <1>0
  <2>3. Until(longer, n)
    BY <2>2
  <2>4. n \in Nat
    BY <1>0
  <2> HIDE DEF Until, longer
  <2> QED
    BY <2>3, <2>4
<1>5. Len(messages) \in T
  <2> HIDE DEF T
  <2>1. \A n \in 0 .. Len(messages) : n \in T
    BY <1>0, <1>3, <1>4, CountUp
  <2> QED
    BY <2>1, <1>0
<1>6. \E f : Until(f, Len(messages))
  <2> HIDE DEF Until
  <2> QED
    BY <1>5
<1> HIDE DEF Until
<1>7. Until(CHOOSE f : Until(f, Len(messages)), Len(messages))
  BY <1>6
<1> QED
  BY <1>1, <1>2, <1>7

(* The sim runs a beat a message at a time.                                  *)
LEMMA RunNothing ==
    ASSUME NEW from
    PROVE  RunBeat(from, <<>>) = [current |-> from, ran |-> <<>>]
<1>1. Len(<<>>) = 0
  OBVIOUS
<1> QED
  BY <1>1, RunSteps

(* The sim decodes one more message after those before it.                   *)
LEMMA RunOneMore ==
    ASSUME NEW X, NEW from, NEW messages \in Seq(X), NEW msg \in X
    PROVE  RunBeat(from, Append(messages, msg)) = Decode(RunBeat(from, messages), msg)
<1> DEFINE more == Append(messages, msg)
           len == Len(messages)
<1>1. /\ Len(more) = len + 1 /\ len \in Nat /\ len = Len(messages)
      /\ \A n \in 1 .. len : more[n] = messages[n]
      /\ more[len + 1] = msg
  OBVIOUS
<1> HIDE DEF more, len
<1>2. PICK f : /\ f[0] = [current |-> from, ran |-> <<>>]
               /\ \A n \in 1 .. Len(more) : f[n] = Decode(f[n - 1], more[n])
               /\ RunBeat(from, more) = f[Len(more)]
  BY <1>1, RunSteps, SMTT(20)
<1>3. PICK g : /\ g[0] = [current |-> from, ran |-> <<>>]
               /\ \A n \in 1 .. len : g[n] = Decode(g[n - 1], messages[n])
               /\ RunBeat(from, messages) = g[len]
  BY <1>1, RunSteps
<1> DEFINE T == {n \in Nat : f[n] = g[n]}
<1>4. 0 \in T
  BY <1>2, <1>3
<1>5. ASSUME NEW n \in 1 .. len, n - 1 \in T
      PROVE  n \in T
  <2>1. f[n] = Decode(f[n - 1], messages[n])
    BY <1>1, <1>2
  <2> QED
    BY <1>1, <1>3, <1>5, <2>1
<1> HIDE DEF T
<1>6. len \in T
  <2>1. \A n \in 0 .. len : n \in T
    BY <1>1, <1>4, <1>5, CountUp
  <2> QED
    BY <2>1, <1>1
<1>7. f[len] = g[len]
  BY <1>6 DEF T
<1>8. f[len + 1] = Decode(f[len], msg)
  <2>1. len + 1 \in 1 .. Len(more) /\ len + 1 - 1 = len
    BY <1>1
  <2> QED
    BY <2>1, <1>1, <1>2
<1> QED
  BY <1>1, <1>2, <1>3, <1>7, <1>8 DEF more

-----------------------------------------------------------------------------
(* A record read as what it says, one message at a time: the source the      *)
(* stream is at, the sources that have not ended, the beats that are over    *)
(* and the one that is not.  The game and the playback are both compared     *)
(* with this reading.                                                        *)
Anyone == Player \cup {NoSource}
Op == {"Source", "Order", "Checksum", "Terminated", "EndGame", "Advance"}
Message == [op : Op, by : Anyone]
Entry == [source : Anyone, op : Op, by : Anyone]
Reading == [at : Anyone, live : SUBSET Player, ran : Seq(Seq(Entry)), beat : Seq(Entry)]

(* Nothing read yet: no source announced, and everyone may still send.       *)
Outset == [at |-> NoSource, live |-> Player, ran |-> <<>>, beat |-> <<>>]

(* The reading after one more message.                                       *)
After(w, msg) ==
    IF msg.op = "Source" THEN [w EXCEPT !.at = msg.by]
    ELSE IF msg.op = "Advance" THEN [w EXCEPT !.ran = Append(@, w.beat), !.beat = <<>>]
    ELSE [w EXCEPT !.beat = Append(@, [source |-> w.at, op |-> msg.op, by |-> msg.by]),
                   !.live = IF msg.op = "Terminated" THEN @ \ {w.at} ELSE @]

(* The readings of a record, from none of its messages to all of them.       *)
Course(t) ==
    LET w[n \in 0 .. Len(t)] == IF n = 0 THEN Outset ELSE After(w[n - 1], t[n])
    IN  w

(* The reading of the whole record.                                          *)
End(t) == Course(t)[Len(t)]

(* What a message of a well-formed record may be: only a source that has not *)
(* ended is announced, sends or ends, and it sends under its own name.       *)
Fits(w, msg) ==
    \/ msg.op = "Source" /\ msg.by \in w.live
    \/ msg.op \in {"Order", "Checksum"} /\ w.at \in w.live /\ msg.by = w.at
    \/ msg.op = "Terminated" /\ w.at \in w.live /\ msg.by = NoSource
    \/ msg = Advance

(* A well-formed record.                                                     *)
Sound(t) == \A n \in 1 .. Len(t) : Fits(Course(t)[n - 1], t[n])

(* The readings of a record, one after each message.                         *)
LEMMA CourseSteps ==
    ASSUME NEW t \in Seq(Message)
    PROVE  \E st :
             /\ st[0] = Outset
             /\ \A n \in 1 .. Len(t) : st[n] = After(st[n - 1], t[n])
             /\ Course(t) = st
<1> DEFINE base == Outset
           Step(x, n) == After(x, t[n])
           Until(st, j) == st = [n \in 0 .. j |-> IF n = 0 THEN base
                                                  ELSE Step(st[n - 1], n)]
           T == {n \in Nat : \E f : Until(f, n)}
<1>0. Len(t) \in Nat
  OBVIOUS
<1>1. ASSUME NEW st, Until(st, Len(t))
      PROVE  /\ st[0] = Outset
             /\ \A n \in 1 .. Len(t) : st[n] = After(st[n - 1], t[n])
  <2>1. st[0] = base
    BY <1>0, <1>1
  <2>2. ASSUME NEW n \in 1 .. Len(t)
        PROVE  st[n] = Step(st[n - 1], n)
    <3> HIDE DEF base, Step
    <3> QED
      BY <1>0, <1>1
  <2> QED
    BY <2>1, <2>2
<1>2. ASSUME NEW st, st = CHOOSE f : Until(f, Len(t))
      PROVE  Course(t) = st
  BY <1>2 DEF Course
<1> HIDE DEF base, Step
<1>3. 0 \in T
  <2>1. Until([n \in 0 .. 0 |-> base], 0)
    OBVIOUS
  <2> QED
    BY <2>1
<1>4. ASSUME NEW n \in 1 .. Len(t), n - 1 \in T
      PROVE  n \in T
  <2>1. PICK st : Until(st, n - 1)
    BY <1>4
  <2> DEFINE longer == [j \in 0 .. n |-> IF j = n THEN Step(st[n - 1], n) ELSE st[j]]
  <2>2. ASSUME NEW j \in 0 .. n
        PROVE  longer[j] = IF j = 0 THEN base ELSE Step(longer[j - 1], j)
    BY <2>1, <1>0
  <2>3. Until(longer, n)
    BY <2>2
  <2>4. n \in Nat
    BY <1>0
  <2> HIDE DEF Until, longer
  <2> QED
    BY <2>3, <2>4
<1>5. Len(t) \in T
  <2> HIDE DEF T
  <2>1. \A n \in 0 .. Len(t) : n \in T
    BY <1>0, <1>3, <1>4, CountUp
  <2> QED
    BY <2>1, <1>0
<1>6. \E f : Until(f, Len(t))
  <2> HIDE DEF Until
  <2> QED
    BY <1>5
<1> HIDE DEF Until
<1>7. Until(CHOOSE f : Until(f, Len(t)), Len(t))
  BY <1>6
<1> QED
  BY <1>1, <1>2, <1>7

(* The readings of a sequence of messages, one from the other.               *)
LEMMA CourseAt ==
    ASSUME NEW t \in Seq(Message)
    PROVE  /\ Course(t)[0] = Outset
           /\ \A n \in 1 .. Len(t) : Course(t)[n] = After(Course(t)[n - 1], t[n])
BY CourseSteps

(* Records that begin alike read alike.                                      *)
LEMMA CoursePrefix ==
    ASSUME NEW t \in Seq(Message), NEW u \in Seq(Message), NEW N \in Nat,
           N <= Len(t), N <= Len(u),
           \A n \in 1 .. N : u[n] = t[n]
    PROVE  \A n \in 0 .. N : Course(u)[n] = Course(t)[n]
<1> DEFINE T == {n \in Nat : Course(u)[n] = Course(t)[n]}
<1>1. 0 \in T
  BY CourseAt
<1>2. ASSUME NEW n \in 1 .. N, n - 1 \in T
      PROVE  n \in T
  <2>1. n \in 1 .. Len(t) /\ n \in 1 .. Len(u) /\ n \in Nat
    OBVIOUS
  <2>2. Course(u)[n] = After(Course(u)[n - 1], u[n]) /\ Course(t)[n] = After(Course(t)[n - 1], t[n])
    BY <2>1, CourseAt
  <2> QED
    BY <1>2, <2>1, <2>2
<1> HIDE DEF T
<1>3. \A n \in 0 .. N : n \in T
  BY <1>1, <1>2, CountUp
<1> QED
  BY <1>3 DEF T

(* One more message leaves the earlier readings as they are.                 *)
LEMMA CourseOneMore ==
    ASSUME NEW t \in Seq(Message), NEW msg \in Message
    PROVE  /\ \A n \in 0 .. Len(t) : Course(Append(t, msg))[n] = Course(t)[n]
           /\ End(Append(t, msg)) = After(End(t), msg)
           /\ Sound(Append(t, msg)) <=> Sound(t) /\ Fits(End(t), msg)
<1> DEFINE u == Append(t, msg)
           len == Len(t)
<1>1. /\ u \in Seq(Message) /\ Len(u) = len + 1 /\ len \in Nat
      /\ \A n \in 1 .. len : u[n] = t[n]
      /\ u[len + 1] = msg
  OBVIOUS
<1> HIDE DEF u
<1>2. \A n \in 0 .. len : Course(u)[n] = Course(t)[n]
  BY <1>1, CoursePrefix
<1>3. Course(u)[len + 1] = After(Course(u)[len], msg)
  <2>1. len + 1 \in 1 .. Len(u) /\ len + 1 - 1 = len
    BY <1>1
  <2>2. \A n \in 1 .. Len(u) : Course(u)[n] = After(Course(u)[n - 1], u[n])
    BY <1>1, CourseAt
  <2>3. Course(u)[len + 1] = After(Course(u)[len + 1 - 1], u[len + 1])
    BY <2>1, <2>2
  <2> QED
    BY <1>1, <2>1, <2>3
<1>4. End(u) = After(End(t), msg)
  BY <1>1, <1>2, <1>3 DEF End
<1>5. Sound(u) <=> Sound(t) /\ Fits(End(t), msg)
  <2>1. \A n \in 1 .. len : n - 1 \in 0 .. len /\ n \in 1 .. len + 1
    BY <1>1
  <2>2. \A n \in 1 .. len : Fits(Course(u)[n - 1], u[n]) <=> Fits(Course(t)[n - 1], t[n])
    BY <1>1, <1>2, <2>1
  <2>3. Fits(Course(u)[len + 1 - 1], u[len + 1]) <=> Fits(End(t), msg)
    BY <1>1, <1>2 DEF End
  <2>4. \A n \in 1 .. len + 1 : n \in 1 .. len \/ n = len + 1
    BY <1>1
  <2>5. len + 1 \in 1 .. len + 1
    BY <1>1
  <2> QED
    BY <1>1, <2>1, <2>2, <2>3, <2>4, <2>5 DEF Sound
<1> QED
  BY <1>2, <1>4, <1>5 DEF u

-----------------------------------------------------------------------------
(* What every reading of a well-formed record has.                           *)

(* The sources in live have not ended in these beats and no source twice.    *)
Lives(beats, live) ==
    /\ \A s \in Player : EndsOnce(s, beats)
    /\ \A b \in DOMAIN beats : \A e \in DOMAIN beats[b] :
          beats[b][e].op = "Terminated" => beats[b][e].source \notin live

(* Orders and reports ran under the source that sent them.                   *)
Own(beat) == \A e \in DOMAIN beat :
                beat[e].op \in {"Order", "Checksum"} => beat[e].source = beat[e].by

(* A beat begins with nothing in it.                                         *)
LEMMA LivesBegin ==
    ASSUME NEW beats \in Seq(Seq(Entry)), NEW live, Lives(beats, live)
    PROVE  Lives(Append(beats, <<>>), live)
<1> DEFINE more == Append(beats, <<>>)
<1>1. /\ DOMAIN beats = 1 .. Len(beats) /\ DOMAIN more = 1 .. Len(beats) + 1
      /\ \A b \in DOMAIN beats : more[b] = beats[b]
      /\ more[Len(beats) + 1] = <<>>
      /\ Len(beats) \in Nat
  OBVIOUS
<1>2. DOMAIN <<>> = {}
  OBVIOUS
<1> HIDE DEF more
<1>3. \A b \in DOMAIN more : \A e \in DOMAIN more[b] :
          b \in DOMAIN beats /\ e \in DOMAIN beats[b] /\ more[b][e] = beats[b][e]
  BY <1>1, <1>2
<1>4. Lives(more, live)
  BY <1>3 DEF Lives, EndsOnce
<1> QED
  BY <1>4 DEF more

(* A source that ends in this beat had not ended before.                     *)
LEMMA LivesOneMore ==
    ASSUME NEW beats \in Seq(Seq(Entry)), NEW beat \in Seq(Entry), NEW entry \in Entry,
           NEW live \in SUBSET Player,
           Lives(Append(beats, beat), live),
           entry.op = "Terminated" => entry.source \in live
    PROVE  Lives(Append(beats, Append(beat, entry)),
                 IF entry.op = "Terminated" THEN live \ {entry.source} ELSE live)
<1> DEFINE old == Append(beats, beat)
           longer == Append(beat, entry)
           new == Append(beats, longer)
           B == Len(beats) + 1
           E == Len(beat) + 1
<1>1. /\ DOMAIN old = 1 .. B /\ DOMAIN new = 1 .. B
      /\ \A b \in DOMAIN old : b # B => new[b] = old[b]
      /\ new[B] = longer
      /\ old[B] = beat
      /\ B \in Nat /\ B \in 1 .. B
  OBVIOUS
<1>2. /\ DOMAIN beat = 1 .. Len(beat) /\ DOMAIN longer = 1 .. E
      /\ \A e \in DOMAIN beat : longer[e] = beat[e]
      /\ longer[E] = entry
      /\ E \in Nat /\ Len(beat) \in Nat
  OBVIOUS
<1> HIDE DEF old, new, longer
<1>3. \A b \in DOMAIN new : \A e \in DOMAIN new[b] :
         \/ b = B /\ e = E /\ new[b][e] = entry
         \/ b \in DOMAIN old /\ e \in DOMAIN old[b] /\ new[b][e] = old[b][e]
  BY <1>1, <1>2
<1>4. \A b \in DOMAIN old : \A e \in DOMAIN old[b] :
         old[b][e].op = "Terminated" => old[b][e].source \notin live
  BY DEF Lives, old
<1>5. \A s \in Player : EndsOnce(s, old)
  BY DEF Lives, old
<1> DEFINE rest == IF entry.op = "Terminated" THEN live \ {entry.source} ELSE live
<1>6. \A b \in DOMAIN new : \A e \in DOMAIN new[b] :
         new[b][e].op = "Terminated" => new[b][e].source \notin rest
  <2> SUFFICES ASSUME NEW b \in DOMAIN new, NEW e \in DOMAIN new[b],
                      new[b][e].op = "Terminated"
               PROVE  new[b][e].source \notin rest
    OBVIOUS
  <2>1. CASE new[b][e] = entry
    BY <2>1
  <2>2. CASE b \in DOMAIN old /\ e \in DOMAIN old[b] /\ new[b][e] = old[b][e]
    BY <2>2, <1>4
  <2> QED
    BY <1>3, <2>1, <2>2
<1>7. ASSUME NEW s \in Player
      PROVE  EndsOnce(s, new)
  <2> DEFINE EndsAt(b, e) == new[b][e].op = "Terminated" /\ new[b][e].source = s
  <2> SUFFICES ASSUME NEW b \in DOMAIN new, NEW c \in DOMAIN new,
                      NEW e \in DOMAIN new[b], NEW f \in DOMAIN new[c],
                      EndsAt(b, e), EndsAt(c, f)
               PROVE  b = c /\ e = f
    BY DEF EndsOnce
  <2> DEFINE Was(x, y) == x \in DOMAIN old /\ y \in DOMAIN old[x] /\ new[x][y] = old[x][y]
             Is(x, y) == x = B /\ y = E /\ new[x][y] = entry
  <2>1. (Is(b, e) \/ Was(b, e)) /\ (Is(c, f) \/ Was(c, f))
    BY <1>3
  <2>2. CASE Is(b, e) /\ Is(c, f)
    BY <2>2
  <2>3. CASE Was(b, e) /\ Was(c, f)
    BY <2>3, <1>5 DEF EndsOnce
  <2>4. CASE Is(b, e) /\ Was(c, f)
    BY <2>4, <1>4
  <2>5. CASE Was(b, e) /\ Is(c, f)
    BY <2>5, <1>4
  <2> QED
    BY <2>1, <2>2, <2>3, <2>4, <2>5
<1>8. Lives(new, rest)
  BY <1>6, <1>7 DEF Lives
<1> QED
  BY <1>8 DEF new, longer

(* A message that fits leaves a reading.                                     *)
LEMMA AfterType ==
    ASSUME NEW w \in Reading, NEW msg \in Message, Fits(w, msg)
    PROVE  After(w, msg) \in Reading
<1>1. CASE msg.op = "Source"
  BY <1>1 DEF After, Reading, Message, Fits
<1>2. CASE msg.op = "Advance"
  <2>1. Append(w.ran, w.beat) \in Seq(Seq(Entry)) /\ <<>> \in Seq(Entry)
    BY DEF Reading
  <2> QED
    BY <1>2, <2>1 DEF After, Reading
<1>3. CASE msg.op \notin {"Source", "Advance"}
  <2> DEFINE entry == [source |-> w.at, op |-> msg.op, by |-> msg.by]
  <2>1. entry \in Entry
    BY DEF Reading, Message, Entry
  <2> HIDE DEF entry
  <2>2. Append(w.beat, entry) \in Seq(Entry)
    BY <2>1 DEF Reading
  <2>3. After(w, msg) = [w EXCEPT !.beat = Append(@, entry),
                                  !.live = IF msg.op = "Terminated" THEN @ \ {w.at} ELSE @]
    BY <1>3 DEF After, entry
  <2> QED
    BY <2>2, <2>3 DEF Reading
<1> QED
  BY <1>1, <1>2, <1>3

(* Every reading is of its type, each source has ended at most once, none    *)
(* that is live has, and orders ran under their own source.                  *)
Proper(w) ==
    /\ w \in Reading
    /\ Lives(Append(w.ran, w.beat), w.live)
    /\ Own(w.beat)
    /\ \A b \in DOMAIN w.ran : Own(w.ran[b])

(* A message that fits keeps the reading proper.                             *)
LEMMA AfterProper ==
    ASSUME NEW w, NEW msg \in Message, Fits(w, msg), Proper(w)
    PROVE  Proper(After(w, msg))
<1> DEFINE v == After(w, msg)
<1>1. v \in Reading /\ w \in Reading
  BY AfterType DEF Proper
<1>2. w.ran \in Seq(Seq(Entry)) /\ w.beat \in Seq(Entry) /\ w.live \in SUBSET Player /\ w.at \in Anyone
  BY <1>1 DEF Reading
<1>3. CASE msg.op = "Source"
  <2>1. v.ran = w.ran /\ v.beat = w.beat /\ v.live = w.live
    BY <1>1, <1>3 DEF After, Reading
  <2> QED
    BY <1>1, <2>1 DEF Proper
<1>4. CASE msg.op = "Advance"
  <2>1. v.ran = Append(w.ran, w.beat) /\ v.beat = <<>> /\ v.live = w.live
    BY <1>1, <1>4 DEF After, Reading
  <2>2. v.ran \in Seq(Seq(Entry))
    BY <1>1 DEF Reading
  <2>3. Lives(Append(v.ran, v.beat), v.live)
    BY <2>1, <2>2, LivesBegin DEF Proper
  <2>4. Own(v.beat)
    BY <2>1 DEF Own
  <2>5. \A b \in DOMAIN v.ran : (b \in DOMAIN w.ran /\ v.ran[b] = w.ran[b]) \/ v.ran[b] = w.beat
    BY <1>2, <2>1
  <2>6. \A b \in DOMAIN v.ran : Own(v.ran[b])
    BY <2>5 DEF Proper
  <2> QED
    BY <1>1, <2>3, <2>4, <2>6 DEF Proper
<1>5. CASE msg.op \notin {"Source", "Advance"}
  <2> DEFINE entry == [source |-> w.at, op |-> msg.op, by |-> msg.by]
  <2>1. entry \in Entry
    BY <1>2 DEF Message, Entry
  <2>2. /\ v.ran = w.ran /\ v.beat = Append(w.beat, entry)
        /\ v.live = IF entry.op = "Terminated" THEN w.live \ {entry.source} ELSE w.live
    BY <1>1, <1>5 DEF After, Reading
  <2>3. /\ entry.op = "Terminated" => entry.source \in w.live
        /\ entry.op \in {"Order", "Checksum"} => entry.source = entry.by
    BY <1>5 DEF Fits, Advance
  <2> HIDE DEF entry, v
  <2>4. Lives(Append(v.ran, v.beat), v.live)
    BY <1>2, <2>1, <2>2, <2>3, LivesOneMore, ZenonT(30) DEF Proper
  <2>5. Own(v.beat)
    <3>1. Own(w.beat)
      BY DEF Proper
    <3>2. \A e \in DOMAIN v.beat : (e \in DOMAIN w.beat /\ v.beat[e] = w.beat[e]) \/ v.beat[e] = entry
      BY <1>2, <2>1, <2>2
    <3> QED
      BY <2>3, <3>1, <3>2 DEF Own
  <2> QED
    BY <1>1, <2>2, <2>4, <2>5 DEF Proper, v
<1> QED
  BY <1>3, <1>4, <1>5

(* The first reading is proper.                                              *)
LEMMA OutsetProper == Proper(Outset)
<1>1. Outset \in Reading
  BY DEF Outset, Reading, Anyone
<1>2. Lives(<<>>, Player)
  BY DEF Lives, EndsOnce
<1>3. Lives(Append(<<>>, <<>>), Player)
  <2>1. <<>> \in Seq(Seq(Entry))
    OBVIOUS
  <2> QED
    BY <1>2, <2>1, LivesBegin
<1>4. Own(<<>>)
  BY DEF Own
<1> QED
  BY <1>1, <1>3, <1>4 DEF Proper, Outset

(* Every reading of a well-formed record is proper.                          *)
LEMMA CourseProper ==
    ASSUME NEW t \in Seq(Message), Sound(t)
    PROVE  \A n \in 0 .. Len(t) : Proper(Course(t)[n])
<1> DEFINE T == {n \in Nat : Proper(Course(t)[n])}
<1>1. 0 \in T
  BY CourseAt, OutsetProper
<1>2. ASSUME NEW n \in 1 .. Len(t), n - 1 \in T
      PROVE  n \in T
  <2>1. t[n] \in Message /\ n \in Nat
    OBVIOUS
  <2>2. Fits(Course(t)[n - 1], t[n])
    BY DEF Sound
  <2>3. Proper(After(Course(t)[n - 1], t[n]))
    BY <1>2, <2>1, <2>2, AfterProper
  <2> QED
    BY <2>1, <2>3, CourseAt
<1>3. Len(t) \in Nat
  OBVIOUS
<1> HIDE DEF T
<1>4. \A n \in 0 .. Len(t) : n \in T
  BY <1>1, <1>2, <1>3, CountUp
<1> QED
  BY <1>4 DEF T

(* The beats that are over stay as they are.                                 *)
LEMMA CourseGrows ==
    ASSUME NEW t \in Seq(Message), Sound(t), NEW k \in 0 .. Len(t)
    PROVE  \A n \in k .. Len(t) :
              /\ Len(Course(t)[k].ran) <= Len(Course(t)[n].ran)
              /\ \A b \in 1 .. Len(Course(t)[k].ran) :
                    Course(t)[n].ran[b] = Course(t)[k].ran[b]
<1> DEFINE Same(n) == /\ Len(Course(t)[k].ran) <= Len(Course(t)[n].ran)
                      /\ \A b \in 1 .. Len(Course(t)[k].ran) :
                            Course(t)[n].ran[b] = Course(t)[k].ran[b]
           T == {n \in Nat : n >= k => Same(n)}
<1>0. /\ \A n \in 0 .. Len(t) : Course(t)[n] \in Reading /\ Course(t)[n].ran \in Seq(Seq(Entry))
                                /\ Course(t)[n].beat \in Seq(Entry)
      /\ Len(t) \in Nat
  BY CourseProper DEF Proper, Reading
<1>1. Same(k)
  BY <1>0
<1>2. ASSUME NEW n \in 1 .. Len(t), n > k, Same(n - 1)
      PROVE  Same(n)
  <2> DEFINE w == Course(t)[n - 1]
             v == Course(t)[n]
  <2>1. v = After(w, t[n])
    BY CourseAt
  <2>2. w \in Reading /\ w.ran \in Seq(Seq(Entry)) /\ w.beat \in Seq(Entry)
    BY <1>0
  <2>3. v.ran = w.ran \/ v.ran = Append(w.ran, w.beat)
    <3> HIDE DEF v, w
    <3> QED
      BY <2>1, <2>2 DEF After, Reading
  <2>4. Course(t)[k].ran \in Seq(Seq(Entry))
    BY <1>0
  <2> DEFINE old == Course(t)[k].ran
  <2>5. Len(old) <= Len(w.ran) /\ \A b \in 1 .. Len(old) : w.ran[b] = old[b]
    BY <1>2
  <2> HIDE DEF w, v, old
  <2>6. Len(old) <= Len(v.ran) /\ \A b \in 1 .. Len(old) : v.ran[b] = old[b]
    <3>1. Len(old) \in Nat
      BY <2>4 DEF old
    <3>2. CASE v.ran = w.ran
      BY <3>2, <2>5
    <3>3. CASE v.ran = Append(w.ran, w.beat)
      BY <3>1, <3>3, <2>2, <2>5
    <3> QED
      BY <3>2, <3>3, <2>3
  <2> QED
    BY <2>6 DEF v, old
<1>3. 0 \in T
  BY <1>1
<1>4. ASSUME NEW n \in 1 .. Len(t), n - 1 \in T
      PROVE  n \in T
  <2>1. CASE n < k
    BY <2>1
  <2>2. CASE n = k
    BY <2>2, <1>1
  <2>3. CASE n > k
    <3>1. Same(n - 1)
      BY <2>3, <1>4
    <3>2. Same(n)
      BY <2>3, <3>1, <1>2
    <3> HIDE DEF Same
    <3> QED
      BY <3>2
  <2> QED
    BY <2>1, <2>2, <2>3
<1> HIDE DEF T
<1>5. \A n \in 0 .. Len(t) : n \in T
  BY <1>0, <1>3, <1>4, CountUp
<1> HIDE DEF Same
<1>6. \A n \in k .. Len(t) : Same(n)
  BY <1>5 DEF T
<1> QED
  BY <1>6 DEF Same

-----------------------------------------------------------------------------
(* The recorded game.                                                        *)

(* What the manager has merged of a beat reads on from the record: the       *)
(* source it wrote last is the one the reading and the sim are at, and what  *)
(* the sim has run is the reading's beat.                                    *)
Follows(merged, live) ==
    LET w == End(tape \o merged.out)
    IN  /\ tape \in Seq(Message) /\ merged.out \in Seq(Message)
        /\ merged = Merged(merged.out, merged.last)
        /\ Sound(tape \o merged.out)
        /\ w.at = merged.last /\ w.live = live /\ w.ran = ran
        /\ RunBeat(current, merged.out) = [current |-> merged.last, ran |-> w.beat]

(* The last reading of a well-formed record is a reading.                    *)
LEMMA SoundEnd ==
    ASSUME NEW t \in Seq(Message), Sound(t)
    PROVE  End(t) \in Reading
<1>1. Len(t) \in 0 .. Len(t)
  OBVIOUS
<1> QED
  BY <1>1, CourseProper DEF End, Proper

(* A stream that goes on with the record does so one fitting message later.  *)
LEMMA FollowsOneMore ==
    ASSUME NEW merged, NEW live, Follows(merged, live),
           NEW msg \in Message,
           Fits(End(tape \o merged.out), msg),
           msg.op # "Advance"
    PROVE  Follows(Merged(Append(merged.out, msg),
                          IF msg.op = "Source" THEN msg.by ELSE merged.last),
                   IF msg.op = "Terminated" THEN live \ {merged.last} ELSE live)
<1> DEFINE out == merged.out
           w == End(tape \o out)
           v == End(tape \o Append(out, msg))
           old == RunBeat(current, out)
           new == RunBeat(current, Append(out, msg))
<1>1. tape \in Seq(Message) /\ out \in Seq(Message) /\ Append(out, msg) \in Seq(Message) /\ tape \o out \in Seq(Message)
  BY DEF Follows
<1>2. tape \o Append(out, msg) = Append(tape \o out, msg)
  BY <1>1
<1>3. v = After(w, msg) /\ Sound(tape \o Append(out, msg))
  BY <1>1, <1>2, CourseOneMore DEF Follows
<1>4. w.at = merged.last /\ w.live = live /\ w.ran = ran /\ w \in Reading
  BY <1>1, SoundEnd DEF Follows
<1>5. old = [current |-> merged.last, ran |-> w.beat] /\ new = Decode(old, msg)
  BY <1>1, RunOneMore DEF Follows
<1> HIDE DEF old, new, w, v
<1>6. CASE msg.op = "Source"
  <2>1. v.at = msg.by /\ v.live = live /\ v.ran = ran /\ v.beat = w.beat
    BY <1>3, <1>4, <1>6 DEF After, Reading
  <2>2. new = [current |-> msg.by, ran |-> w.beat]
    BY <1>5, <1>6 DEF Decode
  <2> QED
    BY <1>1, <1>3, <1>6, <2>1, <2>2 DEF Follows, Merged, v, new
<1>7. CASE msg.op # "Source"
  <2> DEFINE entry == [source |-> merged.last, op |-> msg.op, by |-> msg.by]
  <2>1. /\ v.at = merged.last /\ v.ran = ran
        /\ v.live = IF msg.op = "Terminated" THEN live \ {merged.last} ELSE live
        /\ v.beat = Append(w.beat, entry)
    BY <1>3, <1>4, <1>7 DEF After, Reading
  <2>2. new = [current |-> merged.last, ran |-> Append(w.beat, entry)]
    BY <1>5, <1>7 DEF Decode
  <2> HIDE DEF entry
  <2> QED
    BY <1>1, <1>3, <1>7, <2>1, <2>2 DEF Follows, Merged, v, new
<1> QED
  BY <1>6, <1>7

(* Announcing a source that has not ended keeps that, and announces it.      *)
LEMMA FollowsAnnounce ==
    ASSUME NEW merged, NEW live, Follows(merged, live),
           NEW p \in Player, p \in live
    PROVE  Follows(Announce(merged, p), live) /\ Announce(merged, p).last = p
<1>1. CASE p = merged.last
  BY <1>1 DEF Announce
<1>2. CASE p # merged.last
  <2>1. Source(p) \in Message /\ Source(p).op = "Source" /\ Source(p).by = p
    BY DEF Source, Message, Op, Anyone
  <2>2. Fits(End(tape \o merged.out), Source(p))
    BY <2>1 DEF Fits, Follows
  <2>3. Follows(Merged(Append(merged.out, Source(p)), p), live)
    BY <2>1, <2>2, FollowsOneMore
  <2> QED
    BY <1>2, <2>3 DEF Announce, Merged
<1> QED
  BY <1>1, <1>2

(* What a player's stream may say in a beat.                                 *)
Speaks(p, segment) ==
    /\ Len(segment) \in Nat
    /\ \A n \in 1 .. Len(segment) : segment[n] \in {Source(p), Order(p), Checksum(p)}

(* A player's stream drained of a beat: it names only its own source.        *)
LEMMA DrainFollows ==
    ASSUME NEW merged, NEW live, Follows(merged, live),
           NEW p \in Player, p \in live,
           NEW gate, gate = Gate(p, {p}),
           NEW first, NEW segment,
           Speaks(p, segment)
    PROVE  LET r == Drain(gate, merged, first, segment)
           IN  r.gate = gate /\ Follows(r.merged, live)
<1> DEFINE Good(x) == /\ x = [gate |-> gate, open |-> TRUE, quiet |-> FALSE,
                              merged |-> x.merged]
                      /\ x.merged.last = p
                      /\ Follows(x.merged, live)
<1>1. PICK st : Drains(st, gate, merged, first, segment)
  BY DrainTrace DEF Speaks
<1>2. p # NoSource
  BY SourceAssumption
<1>3. Good(st[0])
  <2>1. st[0] = [gate |-> gate, open |-> TRUE, quiet |-> FALSE,
                 merged |-> Announce(merged, p)]
    <3>1. gate.id = p
      BY GateFields
    <3>2. st[0] = Enter(gate, merged, first)
      BY <1>1 DEF Drains
    <3> QED
      BY <1>2, <3>1, <3>2 DEF Enter
  <2> QED
    BY <2>1, FollowsAnnounce
<1>4. ASSUME NEW n \in 1 .. Len(segment), Good(st[n - 1])
      PROVE  Good(st[n])
  <2> DEFINE x == st[n - 1]
             msg == segment[n]
             m == x.merged
  <2>1. /\ x = [gate |-> gate, open |-> TRUE, quiet |-> FALSE, merged |-> m]
        /\ m.last = p /\ Follows(m, live)
    BY <1>4
  <2>2. st[n] = ReadMessage(x, msg)
    BY <1>1 DEF Drains
  <2> HIDE DEF x
  <2>0. msg \in {Source(p), Order(p), Checksum(p)}
    BY DEF Speaks
  <2>3. CASE msg = Source(p)
    <3>1. st[n] = Claim(x, p)
      BY <2>2, <2>3 DEF ReadMessage, Source
    <3> HIDE DEF m
    <3>2. st[n] = [gate |-> gate, open |-> TRUE, quiet |-> FALSE,
                   merged |-> Announce(m, p)]
      <4>1. gate.id = p /\ gate.valid = {p} /\ [gate EXCEPT !.id = p] = gate
        BY GateFields
      <4>2. p \in x.gate.valid /\ x.gate = gate /\ x.merged = m
        BY <2>1, <4>1
      <4>3. st[n] = [x EXCEPT !.gate.id = p, !.merged = Announce(@, p), !.open = p # NoSource]
        BY <3>1, <4>2 DEF Claim
      <4>4. st[n] = [gate |-> [gate EXCEPT !.id = p], open |-> TRUE, quiet |-> FALSE,
                     merged |-> Announce(m, p)]
        BY <2>1, <4>3, <1>2
      <4> QED
        BY <4>1, <4>4
    <3> QED
      BY <2>1, <3>2, FollowsAnnounce
  <2>4. CASE msg \in {Order(p), Checksum(p)}
    <3>1. msg \in Message /\ msg.op \in {"Order", "Checksum"} /\ msg.by = p
      BY <2>4 DEF Order, Checksum, Message, Op, Anyone
    <3>2. Fits(End(tape \o m.out), msg)
      BY <2>1, <3>1 DEF Fits, Follows
    <3>3. Follows(Merged(Append(m.out, msg), p), live)
      BY <2>1, <3>1, <3>2, FollowsOneMore
    <3>4. m = Merged(m.out, p)
      BY <2>1 DEF Follows
    <3> HIDE DEF m, msg
    <3>5. st[n] = [gate |-> gate, open |-> TRUE, quiet |-> FALSE,
                   merged |-> Merged(Append(m.out, msg), p)]
      <4>1. x.open = TRUE /\ x.quiet = FALSE /\ x.merged = m
        BY <2>1
      <4>2. st[n] = [x EXCEPT !.merged = Write(@, msg)]
        BY <2>2, <3>1, <4>1 DEF ReadMessage, Pass
      <4>3. Write(m, msg) = Merged(Append(m.out, msg), p)
        BY <3>4 DEF Write, Merged
      <4> QED
        BY <2>1, <4>1, <4>2, <4>3
    <3> QED
      BY <3>3, <3>5 DEF Merged
  <2> QED
    BY <2>0, <2>3, <2>4
<1>5. Good(st[Len(segment)])
  <2> DEFINE T == {n \in Nat : Good(st[n])}
  <2> HIDE DEF Good
  <2>1. 0 \in T
    BY <1>3
  <2>2. \A n \in 1 .. Len(segment) : n - 1 \in T => n \in T
    BY <1>4
  <2> HIDE DEF T
  <2>3. Len(segment) \in Nat
    BY DEF Speaks
  <2>4. \A n \in 0 .. Len(segment) : n \in T
    BY <2>1, <2>2, <2>3, CountUp
  <2> QED
    BY <2>3, <2>4 DEF T
<1> DEFINE end == st[Len(segment)]
<1>6. Good(end)
  BY <1>5
<1>7. Drain(gate, merged, first, segment) = [gate |-> end.gate, merged |-> end.merged]
  BY <1>1 DEF Drains
<1> HIDE DEF end
<1> QED
  BY <1>6, <1>7

(* The stream of a player who has left.                                      *)
LEMMA EndStreamFollows ==
    ASSUME NEW merged, NEW live, Follows(merged, live),
           NEW p \in Player, p \in live,
           NEW gate, gate = Gate(p, {p})
    PROVE  LET r == EndStream(gate, merged)
           IN  r.gate = Gate(p, {}) /\ Follows(r.merged, live \ {p})
<1>0. p # NoSource /\ Players \in Nat /\ p \in Nat /\ p < Players
  BY SourceAssumption DEF Player
<1>1. PICK ended :
         /\ ended[0] = Enter(gate, merged, FALSE).merged
         /\ \A n \in 1 .. Players : ended[n] =
              IF n - 1 \in gate.valid
              THEN Write(Announce(ended[n - 1], n - 1), Terminated)
              ELSE ended[n - 1]
         /\ EndStream(gate, merged)
              = [gate |-> Gate(gate.id, {}), merged |-> ended[Players]]
  BY EndStreamSteps
<1> DEFINE Good(n) == IF n <= p THEN Follows(ended[n], live) ELSE Follows(ended[n], live \ {p})
           T == {n \in Nat : Good(n)}
<1>2. 0 \in T
  <2>1. ended[0] = Announce(merged, p)
    BY <1>0, <1>1 DEF Enter, Gate
  <2> QED
    BY <1>0, <2>1, FollowsAnnounce
<1>3. ASSUME NEW n \in 1 .. Players, n - 1 \in T
      PROVE  n \in T
  <2>1. CASE n - 1 # p
    <3>1. ended[n] = ended[n - 1]
      BY <1>1, <2>1 DEF Gate
    <3> QED
      BY <1>0, <1>3, <2>1, <3>1
  <2>2. CASE n - 1 = p
    <3> DEFINE m == Announce(ended[n - 1], p)
    <3>1. ended[n] = Write(m, Terminated)
      BY <1>1, <2>2 DEF Gate
    <3>2. Follows(m, live) /\ m.last = p
      BY <1>0, <1>3, <2>2, FollowsAnnounce
    <3> HIDE DEF m
    <3>3. Terminated \in Message /\ Terminated.op = "Terminated" /\ Terminated.by = NoSource
      BY DEF Terminated, Message, Op, Anyone
    <3>4. Fits(End(tape \o m.out), Terminated)
      BY <3>2, <3>3 DEF Fits, Follows
    <3>5. Follows(Merged(Append(m.out, Terminated), p), live \ {p})
      BY <3>2, <3>3, <3>4, FollowsOneMore
    <3>6. m = Merged(m.out, p)
      BY <3>2 DEF Follows
    <3>7. ended[n] = Merged(Append(m.out, Terminated), p)
      BY <3>1, <3>6, SMTT(20) DEF Write, Merged
    <3> QED
      BY <1>0, <2>2, <3>5, <3>7
  <2> QED
    BY <2>1, <2>2
<1> HIDE DEF T
<1>4. \A n \in 0 .. Players : n \in T
  BY <1>0, <1>2, <1>3, CountUp
<1>5. Players \in T /\ ~(Players <= p)
  BY <1>0, <1>4
<1>6. Follows(ended[Players], live \ {p})
  BY <1>5 DEF T
<1>7. gate.id = p
  BY DEF Gate
<1> QED
  BY <1>1, <1>6, <1>7

(* One client's part of a beat.                                              *)
Client(segments, leavers, acc, p) ==
    IF Ended(p) THEN acc
    ELSE LET r == IF p \in leavers
                  THEN EndStream(gates[p], acc.merged)
                  ELSE Drain(gates[p], acc.merged, ran = <<>>,
                             (IF ran = <<>> THEN <<Source(p)>> ELSE <<>>) \o segments[p])
         IN  [gates |-> [acc.gates EXCEPT ![p] = r.gate], merged |-> r.merged]

(* The clients in turn.                                                      *)
LEMMA MergeBeatSteps ==
    ASSUME NEW segments, NEW leavers
    PROVE  \E acc :
             /\ acc[0] = [gates |-> gates, merged |-> Merged(<<>>, last)]
             /\ \A n \in 1 .. Players : acc[n] = Client(segments, leavers, acc[n - 1], n - 1)
             /\ MergeBeat(segments, leavers) = acc[Players]
<1> DEFINE base == [gates |-> gates, merged |-> Merged(<<>>, last)]
           Step(x, n) == Client(segments, leavers, x, n - 1)
           Until(acc, j) == acc = [n \in 0 .. j |-> IF n = 0 THEN base
                                                  ELSE Step(acc[n - 1], n)]
           T == {n \in Nat : \E f : Until(f, n)}
<1>0. Players \in Nat
  BY SourceAssumption
<1>1. ASSUME NEW acc, Until(acc, Players)
      PROVE  /\ acc[0] = [gates |-> gates, merged |-> Merged(<<>>, last)]
             /\ \A n \in 1 .. Players : acc[n] = Client(segments, leavers, acc[n - 1], n - 1)
  <2>1. acc[0] = base
    BY <1>0, <1>1
  <2>2. ASSUME NEW n \in 1 .. Players
        PROVE  acc[n] = Step(acc[n - 1], n)
    <3> HIDE DEF base, Step
    <3> QED
      BY <1>0, <1>1
  <2> QED
    BY <2>1, <2>2
<1>2. ASSUME NEW acc, acc = CHOOSE f : Until(f, Players)
      PROVE  MergeBeat(segments, leavers) = acc[Players]
  BY <1>2 DEF MergeBeat, Client
<1> HIDE DEF base, Step
<1>3. 0 \in T
  <2>1. Until([n \in 0 .. 0 |-> base], 0)
    OBVIOUS
  <2> QED
    BY <2>1
<1>4. ASSUME NEW n \in 1 .. Players, n - 1 \in T
      PROVE  n \in T
  <2>1. PICK acc : Until(acc, n - 1)
    BY <1>4
  <2> DEFINE longer == [j \in 0 .. n |-> IF j = n THEN Step(acc[n - 1], n) ELSE acc[j]]
  <2>2. ASSUME NEW j \in 0 .. n
        PROVE  longer[j] = IF j = 0 THEN base ELSE Step(longer[j - 1], j)
    BY <2>1, <1>0
  <2>3. Until(longer, n)
    BY <2>2
  <2>4. n \in Nat
    BY <1>0
  <2> HIDE DEF Until, longer
  <2> QED
    BY <2>3, <2>4
<1>5. Players \in T
  <2> HIDE DEF T
  <2>1. \A n \in 0 .. Players : n \in T
    BY <1>0, <1>3, <1>4, CountUp
  <2> QED
    BY <2>1, <1>0
<1>6. \E f : Until(f, Players)
  <2> HIDE DEF Until
  <2> QED
    BY <1>5
<1> HIDE DEF Until
<1>7. Until(CHOOSE f : Until(f, Players), Players)
  BY <1>6
<1> QED
  BY <1>1, <1>2, <1>7

(* A player's gate while the game runs.                                      *)
GateOf(p) == {Gate(p, {p}), Gate(p, {})}

(* The players whose own client still lets their orders through.             *)
Alive(g) == {p \in Player : g[p].valid # {}}

(* Between beats the manager, its sim and the reading of the record agree.   *)
GameInv ==
    /\ tape \in Seq(Message) /\ Sound(tape)
    /\ gates = [p \in Player |-> gates[p]]
    /\ \A p \in Player : gates[p] \in GateOf(p)
    /\ last = End(tape).at /\ current = last
    /\ End(tape).live = Alive(gates)
    /\ End(tape).ran = ran /\ End(tape).beat = <<>>
    /\ over \in BOOLEAN
    /\ tape # <<>> => tape[Len(tape)] = Advance

(* A player's beat holds its own orders and checksums.                       *)
LEMMA SegmentOfPlayer ==
    ASSUME NEW p \in Player, NEW kind \in Kind
    PROVE  /\ Len(Segment(kind, p)) \in Nat
           /\ Segment(kind, p) \in Seq(Message)
           /\ \A n \in 1 .. Len(Segment(kind, p)) : Segment(kind, p)[n] \in {Order(p), Checksum(p)}
<1>1. Order(p) \in Message /\ Checksum(p) \in Message
  BY DEF Order, Checksum, Message, Op, Anyone
<1>2. kind \in {"nothing", "order", "report"}
  BY PlaybackAssumption
<1> HIDE DEF Message
<1> QED
  BY <1>1, <1>2 DEF Segment

(* The clients' beats, merged in client order, go on with the record.        *)
LEMMA MergeFollows ==
    ASSUME GameInv,
           NEW kinds \in [Player -> Kind], NEW leavers
    PROVE  LET beat == MergeBeat([p \in Player |-> Segment(kinds[p], p)], leavers)
           IN  /\ beat.gates = [p \in Player |-> beat.gates[p]]
               /\ \A p \in Player : beat.gates[p] \in GateOf(p)
               /\ Follows(beat.merged, Alive(beat.gates))
<1> DEFINE segments == [p \in Player |-> Segment(kinds[p], p)]
<1>0. Players \in Nat
  BY SourceAssumption
<1>1. PICK acc : /\ acc[0] = [gates |-> gates, merged |-> Merged(<<>>, last)]
                 /\ \A n \in 1 .. Players : acc[n] = Client(segments, leavers, acc[n - 1], n - 1)
                 /\ MergeBeat(segments, leavers) = acc[Players]
  BY MergeBeatSteps
<1> DEFINE Good(a, n) == /\ a = [gates |-> a.gates, merged |-> a.merged]
                         /\ a.gates = [p \in Player |-> a.gates[p]]
                         /\ \A p \in Player : a.gates[p] \in GateOf(p)
                         /\ \A p \in Player : p >= n => a.gates[p] = gates[p]
                         /\ Follows(a.merged, Alive(a.gates))
           T == {n \in Nat : Good(acc[n], n)}
<1>2. 0 \in T
  <2>1. <<>> \in Seq(Message) /\ tape \o <<>> = tape
    BY DEF GameInv
  <2>2. Follows(Merged(<<>>, last), Alive(gates))
    <3> DEFINE m == Merged(<<>>, last)
    <3>1. m.out = <<>> /\ m.last = last /\ m = Merged(m.out, m.last)
      BY DEF Merged
    <3> HIDE DEF m
    <3>2. RunBeat(current, m.out) = [current |-> last, ran |-> <<>>]
      BY <3>1, RunNothing DEF GameInv
    <3> QED
      BY <2>1, <3>1, <3>2 DEF Follows, GameInv, m
  <2> QED
    BY <1>1, <2>2 DEF GameInv
<1>3. ASSUME NEW n \in 1 .. Players, n - 1 \in T
      PROVE  n \in T
  <2> DEFINE p == n - 1
             a == acc[p]
             opening == IF ran = <<>> THEN <<Source(p)>> ELSE <<>>
             r == IF p \in leavers THEN EndStream(gates[p], a.merged)
                  ELSE Drain(gates[p], a.merged, ran = <<>>, opening \o segments[p])
  <2>1. p \in Player /\ p \in Nat
    BY <1>0 DEF Player
  <2>2. Good(a, p) /\ a.gates[p] = gates[p]
    BY <1>3, <2>1
  <2>3. acc[n] = Client(segments, leavers, a, p)
    BY <1>1
  <2>4. CASE Ended(p)
    BY <2>2, <2>3, <2>4, <1>3, <1>0 DEF Client, Player
  <2>5. CASE ~Ended(p)
    <3>1. gates[p] = Gate(p, {p}) /\ p \in Alive(a.gates)
      <4>1. gates[p] \in GateOf(p) /\ gates[p].valid # {}
        BY <2>1, <2>5 DEF GameInv, Ended
      <4>2. gates[p] = Gate(p, {p})
        BY <4>1 DEF GateOf, Gate
      <4> QED
        BY <4>1, <4>2, <2>1, <2>2 DEF Alive
    <3>2. acc[n] = [gates |-> [a.gates EXCEPT ![p] = r.gate], merged |-> r.merged]
      BY <2>3, <2>5 DEF Client
    <3>4. CASE p \in leavers
      <4>1. r.gate = Gate(p, {}) /\ Follows(r.merged, Alive(a.gates) \ {p})
        <5> DEFINE gate == gates[p]
        <5>1. r = EndStream(gate, a.merged) /\ gate = Gate(p, {p}) /\ Follows(a.merged, Alive(a.gates))
          BY <3>1, <3>4, <2>2
        <5> HIDE DEF gate, r, a
        <5> QED
          BY <2>1, <3>1, <5>1, EndStreamFollows
      <4> DEFINE g == [a.gates EXCEPT ![p] = Gate(p, {})]
      <4>2. Alive(g) = Alive(a.gates) \ {p} /\ \A q \in Player : g[q] \in GateOf(q)
        BY <2>1, <2>2 DEF Alive, Gate, GateOf
      <4>3. acc[n] = [gates |-> g, merged |-> r.merged]
        BY <3>2, <4>1
      <4>4. /\ g = [q \in Player |-> g[q]]
            /\ \A q \in Player : q >= n => g[q] = gates[q]
        <5>1. \A q \in Player : q >= n => q >= p /\ q # p
          BY <1>0 DEF Player
        <5>2. \A q \in Player : q >= n => a.gates[q] = gates[q]
          BY <5>1, <2>2
        <5>3. a.gates = [q \in Player |-> a.gates[q]]
          BY <2>2
        <5> HIDE DEF a
        <5> QED
          BY <5>1, <5>2, <5>3
      <4> HIDE DEF g, r
      <4> QED
        BY <1>0, <4>1, <4>2, <4>3, <4>4
    <3>5. CASE p \notin leavers
      <4> DEFINE seg == opening \o segments[p]
      <4>1. Speaks(p, seg)
        <5>1. segments[p] = Segment(kinds[p], p) /\ kinds[p] \in Kind
          BY <2>1
        <5>2. /\ segments[p] \in Seq(Message)
              /\ \A k \in 1 .. Len(segments[p]) : segments[p][k] \in {Order(p), Checksum(p)}
          BY <5>1, <2>1, SegmentOfPlayer
        <5>3. Source(p) \in Message
          BY <2>1 DEF Source, Message, Op, Anyone
        <5>4. opening \in Seq(Message) /\ \A k \in 1 .. Len(opening) : opening[k] = Source(p)
          BY <5>3
        <5> HIDE DEF opening, segments
        <5>5. \A k \in 1 .. Len(seg) : seg[k] \in {Source(p), Order(p), Checksum(p)}
          BY <5>2, <5>4
        <5>6. Len(seg) \in Nat
          BY <5>2, <5>4
        <5> QED
          BY <5>5, <5>6 DEF Speaks
      <4>2. r = Drain(gates[p], a.merged, ran = <<>>, seg)
        BY <3>5
      <4> HIDE DEF seg, r
      <4>3. r.gate = Gate(p, {p}) /\ Follows(r.merged, Alive(a.gates))
        <5> DEFINE gate == gates[p]
                   first == ran = <<>>
        <5>1. r = Drain(gate, a.merged, first, seg) /\ gate = Gate(p, {p}) /\ Follows(a.merged, Alive(a.gates))
          BY <3>1, <4>2, <2>2
        <5> HIDE DEF gate, a, first
        <5> QED
          BY <2>1, <3>1, <4>1, <5>1, DrainFollows
      <4> DEFINE g == [a.gates EXCEPT ![p] = Gate(p, {p})]
      <4>4. g = a.gates
        BY <2>1, <2>2, <3>1
      <4>5. acc[n] = [gates |-> a.gates, merged |-> r.merged]
        BY <3>2, <4>3, <4>4
      <4>6. \A q \in Player : q >= n => a.gates[q] = gates[q]
        BY <2>1, <2>2 DEF Player
      <4> QED
        BY <1>0, <2>2, <4>3, <4>5, <4>6
    <3> QED
      BY <3>4, <3>5
  <2> QED
    BY <2>4, <2>5
<1> HIDE DEF T
<1>4. \A n \in 0 .. Players : n \in T
  BY <1>0, <1>2, <1>3, CountUp
<1>5. Good(acc[Players], Players)
  BY <1>0, <1>4 DEF T
<1> QED
  BY <1>1, <1>5

(* The game begins so.                                                       *)
LEMMA GameBegins == Init => GameInv
<1> SUFFICES ASSUME Init PROVE GameInv
  OBVIOUS
<1>1. tape = <<>> /\ tape \in Seq(Message) /\ Len(tape) = 0
  BY DEF Init
<1>2. End(tape) = Outset /\ Sound(tape)
  <2>1. \A n \in 1 .. Len(tape) : FALSE
    BY <1>1
  <2>2. Course(tape)[0] = Outset
    BY <1>1, CourseAt
  <2> QED
    BY <1>1, <2>1, <2>2 DEF End, Sound
<1>3. \A p \in Player : gates[p] = Gate(p, {p}) /\ gates = [q \in Player |-> Gate(q, {q})]
  BY DEF Init
<1>4. gates = [p \in Player |-> gates[p]]
  BY DEF Init
<1>5. Alive(gates) = Player
  <2>1. ASSUME NEW p \in Player
        PROVE  gates[p].valid # {}
    <3>1. gates[p] = Gate(p, {p})
      BY <1>3
    <3>2. gates[p].valid = {p}
      BY <3>1 DEF Gate
    <3> QED
      BY <3>2
  <2> QED
    BY <2>1 DEF Alive
<1>6. \A p \in Player : gates[p] \in GateOf(p)
  BY <1>3 DEF GateOf
<1>7. /\ End(tape).at = NoSource /\ End(tape).live = Player
      /\ End(tape).ran = <<>> /\ End(tape).beat = <<>>
  BY <1>2 DEF Outset
<1>8. last = NoSource /\ current = NoSource /\ ran = <<>> /\ over = FALSE
  BY DEF Init
<1> QED
  BY <1>1, <1>2, <1>4, <1>5, <1>6, <1>7, <1>8 DEF GameInv

(* A beat of the game keeps it, and adds to the record and to what ran.      *)
LEMMA GameBeatKeeps ==
    ASSUME GameInv, NEW kinds \in [Player -> Kind], NEW leavers,
           GameBeat([p \in Player |-> Segment(kinds[p], p)], leavers)
    PROVE  /\ GameInv'
           /\ Len(tape) <= Len(tape') /\ \A n \in 1 .. Len(tape) : tape'[n] = tape[n]
           /\ ~over /\ over' = over
           /\ \E beat : ran' = Append(ran, beat)
<1> DEFINE beat == MergeBeat([p \in Player |-> Segment(kinds[p], p)], leavers)
           out == beat.merged.out
           t == tape \o out
           sim == RunBeat(current, out)
<1>1. /\ beat.gates = [p \in Player |-> beat.gates[p]]
      /\ \A p \in Player : beat.gates[p] \in GateOf(p)
      /\ Follows(beat.merged, Alive(beat.gates))
  BY MergeFollows
<1>2. /\ ~over /\ over' = over
      /\ gates' = beat.gates
      /\ last' = beat.merged.last
      /\ current' = sim.current
      /\ ran' = Append(ran, sim.ran)
      /\ tape' = Append(t, Advance)
  BY DEF GameBeat
<1> HIDE DEF beat
<1>3. /\ tape \in Seq(Message) /\ out \in Seq(Message) /\ t \in Seq(Message) /\ Sound(t)
      /\ End(t).at = last' /\ End(t).live = Alive(gates') /\ End(t).ran = ran
      /\ current' = last' /\ sim.ran = End(t).beat
  BY <1>1, <1>2 DEF Follows, GameInv
<1>4. Advance \in Message /\ Fits(End(t), Advance)
  BY DEF Advance, Message, Op, Anyone, Fits
<1>5. End(t) \in Reading
  BY <1>3, SoundEnd
<1>6. tape' \in Seq(Message) /\ Sound(tape') /\ End(tape') = After(End(t), Advance)
  <2> HIDE DEF t
  <2>1. Append(t, Advance) \in Seq(Message)
    BY <1>3, <1>4
  <2> QED
    BY <1>2, <1>3, <1>4, <2>1, CourseOneMore
<1>7. /\ End(tape').at = last' /\ End(tape').live = Alive(gates')
      /\ End(tape').ran = ran' /\ End(tape').beat = <<>>
  <2> DEFINE w == End(t)
  <2>1. After(w, Advance) = [w EXCEPT !.ran = Append(@, w.beat), !.beat = <<>>]
    BY DEF After, Advance
  <2> HIDE DEF w
  <2> QED
    BY <1>2, <1>3, <1>5, <1>6, <2>1 DEF Reading, w
<1> HIDE DEF out, sim
<1>8. /\ tape' # <<>> => tape'[Len(tape')] = Advance
      /\ Len(tape) <= Len(tape') /\ \A n \in 1 .. Len(tape) : tape'[n] = tape[n]
  BY <1>2, <1>3, <1>4
<1>9. \A p \in Player : gates'[p] \in GateOf(p)
  BY <1>1, <1>2
<1>10. GameInv'
  <2>1. gates' = [p \in Player |-> gates'[p]]
    BY <1>1, <1>2
  <2>2. over' \in BOOLEAN
    BY <1>2 DEF GameInv
  <2> HIDE DEF t
  <2> QED
    BY <1>3, <1>6, <1>7, <1>8, <1>9, <2>1, <2>2 DEF GameInv, GateOf, Gate, Alive
<1> QED
  BY <1>2, <1>8, <1>10

-----------------------------------------------------------------------------
(* The playback.                                                             *)

(* The orders of a beat, entry by entry.                                     *)
LEMMA OrdersSteps ==
    ASSUME NEW beat \in Seq(Entry)
    PROVE  \E kept :
             /\ kept[0] = <<>>
             /\ \A n \in 1 .. Len(beat) : kept[n] = IF beat[n].op = "Checksum" THEN kept[n - 1] ELSE Append(kept[n - 1], beat[n])
             /\ Orders(beat) = kept[Len(beat)]
<1> DEFINE base == <<>>
           Step(x, n) == IF beat[n].op = "Checksum" THEN x ELSE Append(x, beat[n])
           Until(kept, j) == kept = [n \in 0 .. j |-> IF n = 0 THEN base
                                                  ELSE Step(kept[n - 1], n)]
           T == {n \in Nat : \E f : Until(f, n)}
<1>0. Len(beat) \in Nat
  OBVIOUS
<1>1. ASSUME NEW kept, Until(kept, Len(beat))
      PROVE  /\ kept[0] = <<>>
             /\ \A n \in 1 .. Len(beat) : kept[n] = IF beat[n].op = "Checksum" THEN kept[n - 1] ELSE Append(kept[n - 1], beat[n])
  <2>1. kept[0] = base
    BY <1>0, <1>1
  <2>2. ASSUME NEW n \in 1 .. Len(beat)
        PROVE  kept[n] = Step(kept[n - 1], n)
    <3> HIDE DEF base, Step
    <3> QED
      BY <1>0, <1>1
  <2> QED
    BY <2>1, <2>2
<1>2. ASSUME NEW kept, kept = CHOOSE f : Until(f, Len(beat))
      PROVE  Orders(beat) = kept[Len(beat)]
  BY <1>2 DEF Orders
<1> HIDE DEF base, Step
<1>3. 0 \in T
  <2>1. Until([n \in 0 .. 0 |-> base], 0)
    OBVIOUS
  <2> QED
    BY <2>1
<1>4. ASSUME NEW n \in 1 .. Len(beat), n - 1 \in T
      PROVE  n \in T
  <2>1. PICK kept : Until(kept, n - 1)
    BY <1>4
  <2> DEFINE longer == [j \in 0 .. n |-> IF j = n THEN Step(kept[n - 1], n) ELSE kept[j]]
  <2>2. ASSUME NEW j \in 0 .. n
        PROVE  longer[j] = IF j = 0 THEN base ELSE Step(longer[j - 1], j)
    BY <2>1, <1>0
  <2>3. Until(longer, n)
    BY <2>2
  <2>4. n \in Nat
    BY <1>0
  <2> HIDE DEF Until, longer
  <2> QED
    BY <2>3, <2>4
<1>5. Len(beat) \in T
  <2> HIDE DEF T
  <2>1. \A n \in 0 .. Len(beat) : n \in T
    BY <1>0, <1>3, <1>4, CountUp
  <2> QED
    BY <2>1, <1>0
<1>6. \E f : Until(f, Len(beat))
  <2> HIDE DEF Until
  <2> QED
    BY <1>5
<1> HIDE DEF Until
<1>7. Until(CHOOSE f : Until(f, Len(beat)), Len(beat))
  BY <1>6
<1> QED
  BY <1>1, <1>2, <1>7

(* An entry is one of the orders unless it is a checksum.                    *)
LEMMA OrdersOneMore ==
    ASSUME NEW beat \in Seq(Entry), NEW entry \in Entry
    PROVE  Orders(Append(beat, entry)) =
              IF entry.op = "Checksum" THEN Orders(beat) ELSE Append(Orders(beat), entry)
<1> DEFINE more == Append(beat, entry)
           len == Len(beat)
<1>1. /\ Len(more) = len + 1 /\ len \in Nat /\ more \in Seq(Entry)
      /\ \A n \in 1 .. len : more[n] = beat[n]
      /\ more[len + 1] = entry
  OBVIOUS
<1> HIDE DEF more
<1>2. PICK f : /\ f[0] = <<>>
               /\ \A n \in 1 .. Len(more) :
                     f[n] = IF more[n].op = "Checksum" THEN f[n - 1] ELSE Append(f[n - 1], more[n])
               /\ Orders(more) = f[Len(more)]
  BY <1>1, OrdersSteps
<1>3. PICK g : /\ g[0] = <<>>
               /\ \A n \in 1 .. Len(beat) :
                     g[n] = IF beat[n].op = "Checksum" THEN g[n - 1] ELSE Append(g[n - 1], beat[n])
               /\ Orders(beat) = g[Len(beat)]
  BY OrdersSteps
<1> DEFINE T == {n \in Nat : f[n] = g[n]}
<1>4. 0 \in T
  BY <1>2, <1>3
<1>5. ASSUME NEW n \in 1 .. len, n - 1 \in T
      PROVE  n \in T
  <2>1. n \in 1 .. Len(more) /\ n \in Nat
    BY <1>1
  <2> QED
    BY <1>1, <1>2, <1>3, <1>5, <2>1
<1> HIDE DEF T
<1>6. len \in T
  <2>1. \A n \in 0 .. len : n \in T
    BY <1>1, <1>4, <1>5, CountUp
  <2> QED
    BY <2>1, <1>1
<1>7. f[len] = Orders(beat)
  BY <1>3, <1>6 DEF T
<1>8. len + 1 \in 1 .. Len(more) /\ len + 1 - 1 = len
  BY <1>1
<1>9. f[len + 1] = IF entry.op = "Checksum" THEN f[len] ELSE Append(f[len], entry)
  BY <1>1, <1>2, <1>8
<1> QED
  BY <1>1, <1>2, <1>7, <1>9 DEF more

(* The source a reading is at, if it has not ended: what a gate keeps of it. *)
Alias(w) == IF w.at \in w.live THEN w.at ELSE NoSource

(* What a playback beat has merged and run so far, after the beats that were *)
(* lived before: the sim is at the source written last, and no source that   *)
(* is still live has ended.                                                  *)
Ran(merged, from, live, beats) ==
    LET sim == RunBeat(from, merged.out)
    IN  /\ merged.out \in Seq(Message)
        /\ merged = Merged(merged.out, merged.last)
        /\ sim = [current |-> merged.last, ran |-> sim.ran]
        /\ merged.last \in Anyone
        /\ sim.ran \in Seq(Entry)
        /\ live \in SUBSET Player
        /\ beats \in Seq(Seq(Entry))
        /\ Lives(Append(beats, sim.ran), live)

(* What the sim runs of a merged stream.                                     *)
RanOf(merged, from) == RunBeat(from, merged.out).ran

(* An announcement runs nothing, and leaves the sim at the source announced. *)
LEMMA RanAnnounce ==
    ASSUME NEW merged, NEW from, NEW live, NEW beats, Ran(merged, from, live, beats),
           NEW s \in Anyone
    PROVE  /\ Ran(Announce(merged, s), from, live, beats)
           /\ Announce(merged, s).last = s
           /\ RanOf(Announce(merged, s), from) = RanOf(merged, from)
<1>1. CASE s = merged.last
  BY <1>1 DEF Announce
<1>2. CASE s # merged.last
  <2> DEFINE out == merged.out
             more == Append(out, Source(s))
             sim == RunBeat(from, out)
             new == RunBeat(from, more)
  <2>1. Source(s) \in Message /\ Source(s).op = "Source" /\ Source(s).by = s
    BY DEF Source, Message, Op, Anyone
  <2>2. out \in Seq(Message) /\ more \in Seq(Message)
    BY <2>1 DEF Ran
  <2>3. sim = [current |-> merged.last, ran |-> sim.ran] /\ new = Decode(sim, Source(s))
    BY <2>1, <2>2, RunOneMore DEF Ran
  <2>4. new = [current |-> s, ran |-> sim.ran]
    <3> HIDE DEF new, sim
    <3> QED
      BY <2>1, <2>3 DEF Decode
  <2>5. Announce(merged, s) = Merged(more, s)
    BY <1>2 DEF Announce, Merged
  <2> HIDE DEF new, sim, more
  <2> QED
    BY <2>2, <2>4, <2>5 DEF Ran, RanOf, Merged, new, sim
<1> QED
  BY <1>1, <1>2

(* A message written runs under the source last announced.                   *)
LEMMA RanWrite ==
    ASSUME NEW merged, NEW from, NEW live, NEW beats, Ran(merged, from, live, beats),
           NEW msg \in Message, msg.op # "Source",
           msg.op = "Terminated" => merged.last \in live
    PROVE  /\ Ran(Write(merged, msg), from,
                  IF msg.op = "Terminated" THEN live \ {merged.last} ELSE live, beats)
           /\ Write(merged, msg).last = merged.last
           /\ RanOf(Write(merged, msg), from)
                = Append(RanOf(merged, from), [source |-> merged.last, op |-> msg.op, by |-> msg.by])
           /\ RanOf(merged, from) \in Seq(Entry)
           /\ [source |-> merged.last, op |-> msg.op, by |-> msg.by] \in Entry
<1> DEFINE out == merged.out
           more == Append(out, msg)
           sim == RunBeat(from, out)
           new == RunBeat(from, more)
           entry == [source |-> merged.last, op |-> msg.op, by |-> msg.by]
           rest == IF msg.op = "Terminated" THEN live \ {merged.last} ELSE live
<1>1. out \in Seq(Message) /\ more \in Seq(Message)
  BY DEF Ran
<1>2. /\ sim = [current |-> merged.last, ran |-> sim.ran] /\ new = Decode(sim, msg)
      /\ merged.last \in Anyone /\ sim.ran \in Seq(Entry) /\ live \in SUBSET Player
      /\ beats \in Seq(Seq(Entry)) /\ Lives(Append(beats, sim.ran), live)
      /\ merged = Merged(out, merged.last)
  BY <1>1, RunOneMore DEF Ran
<1>3. entry \in Entry
  BY <1>2 DEF Entry, Message
<1>4. new = [current |-> merged.last, ran |-> Append(sim.ran, entry)]
  <2>1. sim.current = merged.last
    BY <1>2
  <2>2. new = [sim EXCEPT !.ran = Append(@, entry)]
    BY <1>2, <2>1 DEF Decode
  <2> HIDE DEF new, sim, entry
  <2>3. sim = [current |-> merged.last, ran |-> sim.ran]
    BY <1>2
  <2> QED
    BY <2>2, <2>3
<1>5. Write(merged, msg) = Merged(more, merged.last)
  <2>1. merged = Merged(out, merged.last)
    BY <1>2
  <2> HIDE DEF out
  <2>2. Write(merged, msg) = [merged EXCEPT !.out = Append(out, msg)]
    BY <2>1 DEF Write, Merged
  <2> QED
    BY <2>1, <2>2 DEF Merged
<1>6. Lives(Append(beats, Append(sim.ran, entry)), rest)
  <2>1. entry.op = msg.op /\ entry.source = merged.last
    OBVIOUS
  <2> HIDE DEF entry, sim
  <2> QED
    BY <1>2, <1>3, <2>1, LivesOneMore
<1>7. rest \in SUBSET Player /\ new.ran \in Seq(Entry)
  <2> HIDE DEF new, entry
  <2> QED
    BY <1>2, <1>3, <1>4
<1>8. new.ran = Append(sim.ran, entry) /\ new.current = merged.last
  <2> HIDE DEF new, entry, sim
  <2> QED
    BY <1>4
<1>9. /\ Write(merged, msg).out = more /\ Write(merged, msg).last = merged.last
      /\ Write(merged, msg) = Merged(more, merged.last)
  <2> HIDE DEF more
  <2> QED
    BY <1>5 DEF Merged
<1> HIDE DEF rest, more, entry, sim
<1> QED
  BY <1>1, <1>2, <1>3, <1>4, <1>6, <1>7, <1>8, <1>9 DEF Ran, RanOf, sim, more, entry, rest

(* An empty stream runs nothing.                                             *)
LEMMA RanBegins ==
    ASSUME NEW from \in Anyone, NEW live \in SUBSET Player, NEW beats \in Seq(Seq(Entry)),
           Lives(beats, live)
    PROVE  Ran(Merged(<<>>, from), from, live, beats) /\ RanOf(Merged(<<>>, from), from) = <<>>
<1> DEFINE m == Merged(<<>>, from)
<1>1. m.out = <<>> /\ m.last = from /\ m = Merged(m.out, m.last)
  BY DEF Merged
<1>2. RunBeat(from, m.out) = [current |-> from, ran |-> <<>>]
  BY <1>1, RunNothing
<1>3. Lives(Append(beats, <<>>), live)
  BY LivesBegin
<1> HIDE DEF m
<1>4. <<>> \in Seq(Message) /\ <<>> \in Seq(Entry)
  OBVIOUS
<1>5. Ran(m, from, live, beats)
  <2> DEFINE sim == RunBeat(from, m.out)
  <2>1. sim = [current |-> from, ran |-> <<>>] /\ sim.ran = <<>>
    BY <1>2
  <2> HIDE DEF sim
  <2>2. sim = [current |-> m.last, ran |-> sim.ran] /\ Lives(Append(beats, sim.ran), live)
        /\ sim.ran \in Seq(Entry)
    BY <1>1, <1>3, <1>4, <2>1
  <2> QED
    BY <1>1, <1>4, <2>2 DEF Ran, sim
<1>6. RanOf(m, from) = <<>>
  BY <1>2 DEF RanOf
<1> QED
  BY <1>5, <1>6 DEF m

(* Two beats are alike: equal, but for reports if the gate lets none pass.   *)
Alike(quiet, a, b) == IF quiet THEN Orders(a) = Orders(b) ELSE a = b

(* The replay client in the middle of a beat echoes the reading of the       *)
(* record at the message it has come to.                                     *)
Echoes(x, w, quiet, from, beats) ==
    /\ x = [gate |-> Gate(Alias(w), w.live), open |-> (w.at \in w.live), quiet |-> quiet,
            merged |-> x.merged]
    /\ Ran(x.merged, from, w.live, beats)
    /\ w.at \in w.live => x.merged.last = w.at
    /\ Alike(quiet, RanOf(x.merged, from), w.beat)

(* The playback enters a beat where the record's last beat ended.            *)
LEMMA EchoBegins ==
    ASSUME NEW w \in Reading, w.beat = <<>>, NEW from \in Anyone, NEW first \in BOOLEAN,
           NEW beats \in Seq(Seq(Entry)), Lives(beats, w.live),
           NEW gate, gate = Gate(Alias(w), w.live)
    PROVE  Echoes(Enter(gate, Merged(<<>>, from), first), w,
                  first /\ Alias(w) = NoSource, from, beats)
<1> DEFINE m == Merged(<<>>, from)
           n == IF gate.id = NoSource THEN m ELSE Announce(m, gate.id)
           quiet == first /\ Alias(w) = NoSource
           x == Enter(gate, m, first)
<1>0. /\ w.live \in SUBSET Player /\ w.at \in Anyone /\ \A s \in w.live : s # NoSource
      /\ gate.id = Alias(w)
  BY SourceAssumption, GateFields DEF Reading
<1>1. (Alias(w) # NoSource) <=> (w.at \in w.live)
  BY <1>0 DEF Alias
<1>2. x = [gate |-> gate, open |-> (w.at \in w.live), quiet |-> quiet, merged |-> n]
  BY <1>0, <1>1 DEF Enter
<1>3. Ran(m, from, w.live, beats) /\ RanOf(m, from) = <<>>
  BY <1>0, RanBegins
<1> HIDE DEF m
<1>4. /\ Ran(n, from, w.live, beats) /\ RanOf(n, from) = <<>>
      /\ w.at \in w.live => n.last = w.at
  <2>1. CASE w.at \in w.live
    <3>1. n = Announce(m, w.at)
      BY <1>0, <1>1, <2>1 DEF Alias
    <3> HIDE DEF n
    <3> QED
      BY <1>0, <1>3, <3>1, RanAnnounce
  <2>2. CASE w.at \notin w.live
    <3>1. n = m
      BY <1>0, <1>1, <2>2
    <3> QED
      BY <1>3, <2>2, <3>1
  <2> QED
    BY <2>1, <2>2
<1>5. Alike(quiet, RanOf(n, from), w.beat)
  BY <1>4 DEF Alike
<1> HIDE DEF x, n, quiet
<1>6. Echoes(x, w, quiet, from, beats)
  BY <1>2, <1>4, <1>5 DEF Echoes
<1> QED
  BY <1>6 DEF x, m, quiet

(* It reads each message as the record says it, up to the beat's end.        *)
LEMMA EchoMessage ==
    ASSUME NEW w \in Reading, NEW quiet \in BOOLEAN, NEW from, NEW beats,
           NEW x, Echoes(x, w, quiet, from, beats),
           NEW msg \in Message, Fits(w, msg), msg.op # "Advance"
    PROVE  Echoes(ReadMessage(x, msg), After(w, msg), quiet, from, beats)
<1> DEFINE gate == Gate(Alias(w), w.live)
           m == x.merged
           v == After(w, msg)
           y == ReadMessage(x, msg)
<1>1. /\ x = [gate |-> gate, open |-> (w.at \in w.live), quiet |-> quiet, merged |-> m]
      /\ Ran(m, from, w.live, beats)
      /\ w.at \in w.live => m.last = w.at
      /\ Alike(quiet, RanOf(m, from), w.beat)
  BY DEF Echoes
<1>2. /\ gate.id = Alias(w) /\ gate.valid = w.live
      /\ \A i : [gate EXCEPT !.id = i] = Gate(i, w.live)
      /\ w.live \in SUBSET Player /\ w.at \in Anyone /\ \A s \in w.live : s # NoSource /\ s \in Anyone
      /\ w.beat \in Seq(Entry)
  BY SourceAssumption, GateFields DEF Reading, Anyone
<1>3. CASE msg.op = "Source"
  <2> DEFINE s == msg.by
             n == Announce(m, s)
  <2>1. s \in w.live
    BY <1>3 DEF Fits, Advance
  <2>2. y = Claim(x, s)
    BY <1>3 DEF ReadMessage
  <2>3. v.at = s /\ v.live = w.live /\ v.beat = w.beat
    BY <1>3 DEF After, Reading
  <2>4. Alias(v) = s
    BY <2>1, <2>3 DEF Alias
  <2> HIDE DEF gate, m, v, y, s
  <2>5. y = [x EXCEPT !.gate.id = s, !.merged = Announce(@, s), !.open = s # NoSource]
    BY <1>1, <1>2, <2>1, <2>2 DEF Claim
  <2>6. y = [gate |-> [gate EXCEPT !.id = s], open |-> TRUE, quiet |-> quiet, merged |-> n]
    BY <1>1, <1>2, <2>1, <2>5
  <2>7. y = [gate |-> Gate(Alias(v), v.live), open |-> (v.at \in v.live), quiet |-> quiet, merged |-> n]
    BY <1>2, <2>1, <2>3, <2>4, <2>6
  <2>8. Ran(n, from, v.live, beats) /\ n.last = s /\ RanOf(n, from) = RanOf(m, from)
    BY <1>1, <1>2, <2>1, <2>3, RanAnnounce
  <2> HIDE DEF n
  <2>9. y.merged = n
    BY <2>7
  <2>10. Echoes(y, v, quiet, from, beats)
    BY <1>1, <2>3, <2>7, <2>8, <2>9 DEF Echoes
  <2> QED
    BY <2>10 DEF y, v
<1>4. CASE msg.op # "Source"
  <2> DEFINE entry == [source |-> w.at, op |-> msg.op, by |-> msg.by]
             n == Write(m, msg)
             rest == IF msg.op = "Terminated" THEN w.live \ {w.at} ELSE w.live
  <2>1. w.at \in w.live /\ msg.op \in {"Order", "Checksum", "Terminated"} /\ m.last = w.at
    BY <1>1, <1>4 DEF Fits, Advance
  <2>2. v.at = w.at /\ v.live = rest /\ v.beat = Append(w.beat, entry)
    BY <1>4, <2>1 DEF After, Reading
  <2>3. /\ Ran(n, from, rest, beats) /\ n.last = w.at
        /\ RanOf(n, from) = Append(RanOf(m, from), entry)
        /\ RanOf(m, from) \in Seq(Entry) /\ entry \in Entry
    BY <1>1, <1>4, <2>1, RanWrite, ZenonT(30)
  <2>4. entry.op = msg.op
    OBVIOUS
  <2>5. Alias(w) = w.at
    BY <2>1 DEF Alias
  <2> HIDE DEF gate, m, v, y, n, rest, entry
  <2>6. y = Pass(x, msg)
    <3>1. x.open
      BY <1>1, <2>1
    <3> QED
      BY <1>4, <3>1 DEF ReadMessage, y
  <2>7. Alike(quiet, Append(RanOf(m, from), entry), Append(w.beat, entry))
    BY <1>1, <1>2, <2>3, OrdersOneMore DEF Alike
  <2>8. CASE msg.op = "Checksum" /\ quiet
    <3>1. y = x
      BY <1>1, <2>6, <2>8 DEF Pass
    <3>2. v.live = w.live
      BY <2>2, <2>8 DEF rest
    <3>3. Alias(v) = Alias(w)
      BY <2>2, <3>2 DEF Alias
    <3>4. Alike(quiet, RanOf(m, from), v.beat)
      BY <1>1, <1>2, <2>2, <2>3, <2>4, <2>8, OrdersOneMore DEF Alike
    <3>5. y = [gate |-> Gate(Alias(v), v.live), open |-> (v.at \in v.live), quiet |-> quiet, merged |-> m]
      BY <1>1, <2>2, <3>1, <3>2, <3>3 DEF gate
    <3>6. y.merged = m
      BY <3>5
    <3>7. Echoes(y, v, quiet, from, beats)
      BY <1>1, <2>1, <2>2, <3>2, <3>4, <3>5, <3>6 DEF Echoes
    <3> QED
      BY <3>7 DEF y, v
  <2>9. CASE ~(msg.op = "Checksum" /\ quiet) /\ msg.op # "Terminated"
    <3>1. y = [x EXCEPT !.merged = n]
      BY <1>1, <2>6, <2>9 DEF Pass, n, m
    <3>2. v.live = w.live
      BY <2>2, <2>9 DEF rest
    <3>3. Alias(v) = Alias(w)
      BY <2>2, <3>2 DEF Alias
    <3>4. y = [gate |-> Gate(Alias(v), v.live), open |-> (v.at \in v.live), quiet |-> quiet, merged |-> n]
      BY <1>1, <2>2, <3>1, <3>2, <3>3 DEF gate
    <3>5. y.merged = n
      BY <3>4
    <3>6. Echoes(y, v, quiet, from, beats)
      BY <2>2, <2>3, <2>7, <3>2, <3>4, <3>5 DEF Echoes
    <3> QED
      BY <3>6 DEF y, v
  <2>10. CASE msg.op = "Terminated"
    <3>1. y = [[x EXCEPT !.merged = n] EXCEPT !.gate = Gate(NoSource, @.valid \ {@.id}), !.open = FALSE]
      BY <1>1, <2>6, <2>10 DEF Pass, n, m
    <3>2. v.live = w.live \ {w.at}
      BY <2>2, <2>10 DEF rest
    <3>3. Alias(v) = NoSource /\ v.at \notin v.live
      BY <2>2, <3>2 DEF Alias
    <3>4. gate.valid \ {gate.id} = v.live
      BY <1>2, <2>5, <3>2
    <3>5. y = [gate |-> Gate(NoSource, gate.valid \ {gate.id}), open |-> FALSE, quiet |-> quiet, merged |-> n]
      BY <1>1, <3>1
    <3>6. y = [gate |-> Gate(Alias(v), v.live), open |-> (v.at \in v.live), quiet |-> quiet, merged |-> n]
      <4>1. Gate(NoSource, gate.valid \ {gate.id}) = Gate(Alias(v), v.live)
        BY <3>3, <3>4
      <4>2. (v.at \in v.live) = FALSE
        BY <3>3
      <4> QED
        BY <3>5, <4>1, <4>2
    <3>7. y.merged = n
      BY <3>6
    <3>8. Echoes(y, v, quiet, from, beats)
      BY <2>2, <2>3, <2>7, <3>3, <3>6, <3>7 DEF Echoes
    <3> QED
      BY <3>8 DEF y, v
  <2> QED
    BY <2>1, <2>8, <2>9, <2>10
<1> QED
  BY <1>3, <1>4

(* A beat's messages in the replay client's pipe, as the record has them     *)
(* after its first x.                                                        *)
Carries(segment, t, x) ==
    /\ t \in Seq(Message) /\ Sound(t) /\ segment \in Seq(Message)
    /\ x \in Nat /\ x + Len(segment) <= Len(t)
    /\ \A k \in 1 .. Len(segment) : segment[k] = t[x + k] /\ segment[k].op # "Advance"

(* The replay client drained of a beat of the record runs what the record's  *)
(* reading runs.                                                             *)
LEMMA DrainEchoes ==
    ASSUME NEW t, NEW x, NEW segment, Carries(segment, t, x),
           NEW w, w = Course(t)[x], w.beat = <<>>,
           NEW from \in Anyone, NEW first \in BOOLEAN,
           NEW beats \in Seq(Seq(Entry)), Lives(beats, w.live),
           NEW gate, gate = Gate(Alias(w), w.live)
    PROVE  LET r == Drain(gate, Merged(<<>>, from), first, segment)
               v == Course(t)[x + Len(segment)]
           IN  /\ r.gate = Gate(Alias(v), v.live)
               /\ Ran(r.merged, from, v.live, beats)
               /\ Alike(first /\ Alias(w) = NoSource, RanOf(r.merged, from), v.beat)
<1> DEFINE m == Merged(<<>>, from)
           quiet == first /\ Alias(w) = NoSource
           len == Len(segment)
<1>0. /\ Len(segment) \in Nat /\ x \in Nat /\ x + Len(segment) <= Len(t) /\ Len(t) \in Nat
      /\ t \in Seq(Message) /\ Sound(t)
  BY DEF Carries
<1>1. \A n \in 0 .. Len(t) : Course(t)[n] \in Reading
  BY <1>0, CourseProper DEF Proper
<1>2. w \in Reading
  BY <1>0, <1>1
<1>3. PICK st : Drains(st, gate, m, first, segment)
  BY <1>0, DrainTrace
<1> HIDE DEF quiet
<1> DEFINE Good(n) == Echoes(st[n], Course(t)[x + n], quiet, from, beats)
           T == {n \in Nat : Good(n)}
<1>4. Good(0)
  <2>1. st[0] = Enter(gate, m, first)
    BY <1>3 DEF Drains
  <2>2. Echoes(Enter(gate, m, first), w, quiet, from, beats)
    BY <1>2, EchoBegins DEF quiet
  <2>3. Course(t)[x + 0] = w
    BY <1>0
  <2> HIDE DEF m
  <2> QED
    BY <2>1, <2>2, <2>3
<1>5. ASSUME NEW n \in 1 .. len, Good(n - 1)
      PROVE  Good(n)
  <2> DEFINE a == Course(t)[x + (n - 1)]
             b == Course(t)[x + n]
             msg == segment[n]
  <2>1. x + n \in 1 .. Len(t) /\ (x + n) - 1 = x + (n - 1) /\ x + (n - 1) \in 0 .. Len(t)
    BY <1>0
  <2>2. msg \in Message /\ msg = t[x + n] /\ msg.op # "Advance"
    BY <1>0 DEF Carries
  <2>3. Fits(a, msg) /\ b = After(a, msg)
    BY <1>0, <2>1, <2>2, CourseAt DEF Sound
  <2>4. a \in Reading /\ quiet \in BOOLEAN
    BY <1>1, <2>1 DEF quiet
  <2>5. st[n] = ReadMessage(st[n - 1], msg)
    BY <1>3 DEF Drains
  <2>6. Echoes(st[n - 1], a, quiet, from, beats)
    BY <1>5
  <2> HIDE DEF a, b, msg
  <2>7. Echoes(st[n], b, quiet, from, beats)
    BY <2>2, <2>3, <2>4, <2>5, <2>6, EchoMessage
  <2> QED
    BY <2>7 DEF b
<1>6. Good(len)
  <2> HIDE DEF Good
  <2>1. 0 \in T /\ \A n \in 1 .. len : n - 1 \in T => n \in T
    BY <1>0, <1>4, <1>5
  <2> HIDE DEF T
  <2>2. \A n \in 0 .. len : n \in T
    BY <1>0, <2>1, CountUp
  <2>3. len \in T
    BY <1>0, <2>2
  <2> QED
    BY <2>3 DEF T
<1> DEFINE end == st[Len(segment)]
           v == Course(t)[x + Len(segment)]
           r == Drain(gate, m, first, segment)
<1>7. Echoes(end, v, quiet, from, beats)
  BY <1>6
<1>8. r = [gate |-> end.gate, merged |-> end.merged]
  BY <1>3 DEF Drains
<1> HIDE DEF end, v, r
<1>9. r.gate = end.gate /\ r.merged = end.merged
  BY <1>8
<1>10. /\ end.gate = Gate(Alias(v), v.live) /\ Ran(end.merged, from, v.live, beats)
       /\ Alike(quiet, RanOf(end.merged, from), v.beat)
  BY <1>7 DEF Echoes
<1> QED
  BY <1>9, <1>10 DEF r, v, quiet, m

(* What a beat past the record may run.                                      *)
OnlyEnds(beat) == \A e \in DOMAIN beat : beat[e].op \in {"EndGame", "Terminated"}

(* One more end leaves only ends.                                            *)
LEMMA OnlyEndsOneMore ==
    ASSUME NEW beat \in Seq(Entry), NEW entry \in Entry, OnlyEnds(beat),
           entry.op \in {"EndGame", "Terminated"}
    PROVE  OnlyEnds(Append(beat, entry))
<1>1. \A e \in DOMAIN Append(beat, entry) :
         (e \in DOMAIN beat /\ Append(beat, entry)[e] = beat[e]) \/ Append(beat, entry)[e] = entry
  OBVIOUS
<1> QED
  BY <1>1 DEF OnlyEnds

(* The end of the record: the game ends, nobody does.                        *)
LEMMA DrainEndsGame ==
    ASSUME NEW from \in Anyone, NEW first, NEW beats \in Seq(Seq(Entry)),
           NEW id \in Anyone, NEW live \in SUBSET Player, Lives(beats, live),
           NEW gate, gate = Gate(id, live),
           NEW segment, segment = <<EndGame>>
    PROVE  LET r == Drain(gate, Merged(<<>>, from), first, segment)
           IN  /\ r.gate = gate
               /\ Ran(r.merged, from, live, beats)
               /\ OnlyEnds(RanOf(r.merged, from))
<1> DEFINE m == Merged(<<>>, from)
           n == IF id = NoSource THEN m ELSE Announce(m, id)
<1>0. Len(segment) = 1 /\ segment[1] = EndGame
  OBVIOUS
<1>1. PICK st : Drains(st, gate, m, first, segment)
  <2>1. Len(segment) \in Nat
    BY <1>0
  <2> QED
    BY <2>1, DrainTrace
<1>2. /\ st[0] = Enter(gate, m, first) /\ st[1] = ReadMessage(st[0], EndGame)
      /\ Drain(gate, m, first, segment) = [gate |-> st[1].gate, merged |-> st[1].merged]
  BY <1>0, <1>1 DEF Drains
<1> HIDE DEF m
<1>3. gate.id = id
  BY GateFields
<1>4. Ran(m, from, live, beats) /\ RanOf(m, from) = <<>>
  BY RanBegins DEF m
<1>5. Ran(n, from, live, beats) /\ RanOf(n, from) = <<>>
  <2>1. CASE id = NoSource
    BY <1>4, <2>1
  <2>2. CASE id # NoSource
    BY <1>4, <2>2, RanAnnounce
  <2> QED
    BY <2>1, <2>2
<1> HIDE DEF n
<1> DEFINE a == st[0]
           b == st[1]
<1>6. a = [gate |-> gate, open |-> id # NoSource, quiet |-> a.quiet, merged |-> n]
  <2>1. a = Enter(gate, m, first)
    BY <1>2
  <2> HIDE DEF a
  <2> QED
    BY <2>1, <1>3 DEF Enter, n
<1>7. b = ReadMessage(a, EndGame)
  BY <1>2
<1> DEFINE r == Drain(gate, m, first, segment)
<1>8. r = [gate |-> b.gate, merged |-> b.merged]
  BY <1>2
<1> HIDE DEF a, b, r
<1>9. r.gate = b.gate /\ r.merged = b.merged
  BY <1>8
<1>10. OnlyEnds(<<>>) /\ <<>> \in Seq(Entry)
  BY DEF OnlyEnds
<1>11. EndGame \in Message /\ EndGame.op = "EndGame"
  BY DEF EndGame, Message, Op, Anyone
<1>12. a.gate = gate /\ a.merged = n /\ a.open = (id # NoSource)
  BY <1>6
<1>13. CASE a.open
  <2>1. b = [a EXCEPT !.merged = Write(@, EndGame)]
    BY <1>7, <1>11, <1>13 DEF ReadMessage, Pass
  <2>2. b.gate = gate /\ b.merged = Write(n, EndGame)
    BY <1>6, <2>1
  <2> DEFINE e == [source |-> n.last, op |-> EndGame.op, by |-> EndGame.by]
  <2>3. /\ Ran(Write(n, EndGame), from, live, beats)
        /\ RanOf(Write(n, EndGame), from) = Append(RanOf(n, from), e)
        /\ e \in Entry
    BY <1>5, <1>11, RanWrite
  <2>5. e.op = "EndGame" /\ RanOf(n, from) = <<>>
    BY <1>5, <1>11
  <2> HIDE DEF e
  <2>4. OnlyEnds(RanOf(Write(n, EndGame), from))
    BY <1>10, <2>3, <2>5, OnlyEndsOneMore
  <2> QED
    BY <1>9, <2>2, <2>3, <2>4 DEF r, m
<1>14. CASE ~a.open
  <2>1. b = a
    BY <1>7, <1>11, <1>14 DEF ReadMessage
  <2> QED
    BY <1>5, <1>9, <1>10, <1>12, <2>1 DEF r, m
<1> QED
  BY <1>13, <1>14

(* The end of the replay client's stream ends every source that has not.     *)
LEMMA EndStreamRan ==
    ASSUME NEW from, NEW beats, NEW merged, NEW live, Ran(merged, from, live, beats),
           OnlyEnds(RanOf(merged, from)),
           NEW id \in Anyone,
           NEW gate, gate = Gate(id, live)
    PROVE  LET r == EndStream(gate, merged)
           IN  /\ r.gate = Gate(id, {})
               /\ Ran(r.merged, from, {}, beats)
               /\ OnlyEnds(RanOf(r.merged, from))
<1>0. Players \in Nat
  BY SourceAssumption
<1>1. PICK ended :
         /\ ended[0] = Enter(gate, merged, FALSE).merged
         /\ \A n \in 1 .. Players : ended[n] =
              IF n - 1 \in gate.valid
              THEN Write(Announce(ended[n - 1], n - 1), Terminated)
              ELSE ended[n - 1]
         /\ EndStream(gate, merged) = [gate |-> Gate(gate.id, {}), merged |-> ended[Players]]
  BY EndStreamSteps
<1>2. gate.id = id /\ gate.valid = live
  BY GateFields
<1>3. \A s \in live : s \in Nat /\ s < Players
  BY <1>0 DEF Ran, Player
<1> DEFINE Left(n) == {s \in live : s >= n}
           Good(n) == Ran(ended[n], from, Left(n), beats) /\ OnlyEnds(RanOf(ended[n], from))
           T == {n \in Nat : Good(n)}
<1>4. Good(0)
  <2>1. Left(0) = live
    BY <1>3
  <2>2. CASE id = NoSource
    <3>1. ended[0] = merged
      BY <1>1, <1>2, <2>2 DEF Enter
    <3> QED
      BY <2>1, <3>1
  <2>3. CASE id # NoSource
    <3>1. ended[0] = Announce(merged, id)
      BY <1>1, <1>2, <2>3 DEF Enter
    <3>2. Ran(ended[0], from, live, beats) /\ RanOf(ended[0], from) = RanOf(merged, from)
      BY <3>1, RanAnnounce
    <3> HIDE DEF Left
    <3> QED
      BY <2>1, <3>2
  <2> QED
    BY <2>2, <2>3
<1>5. ASSUME NEW n \in 1 .. Players, Good(n - 1)
      PROVE  Good(n)
  <2> DEFINE s == n - 1
             a == ended[s]
  <2>0. s \in Player /\ s \in Anyone /\ s \in Nat
    BY <1>0 DEF Player, Anyone
  <2>1. CASE s \notin live
    <3>1. ended[n] = a
      BY <1>1, <1>2, <2>1
    <3>2. Left(n) = Left(s)
      BY <1>3, <2>0, <2>1, <1>0
    <3> QED
      BY <1>5, <3>1, <3>2
  <2>2. CASE s \in live
    <3> DEFINE m == Announce(a, s)
    <3>1. ended[n] = Write(m, Terminated)
      BY <1>1, <1>2, <2>2
    <3>2. s \in Left(s) /\ Left(n) = Left(s) \ {s}
      <4>1. \A k : k \in Left(n) <=> k \in Left(s) /\ k # s
        BY <1>3, <2>0, <1>0
      <4>2. s \in Left(s)
        BY <2>0, <2>2
      <4> HIDE DEF Left
      <4> QED
        BY <4>1, <4>2
    <3>3. Ran(a, from, Left(s), beats) /\ OnlyEnds(RanOf(a, from))
      BY <1>5
    <3> HIDE DEF Left, a
    <3>4. Ran(m, from, Left(s), beats) /\ m.last = s /\ OnlyEnds(RanOf(m, from))
      BY <2>0, <3>3, RanAnnounce
    <3> HIDE DEF m
    <3>5. Terminated \in Message /\ Terminated.op = "Terminated"
      BY DEF Terminated, Message, Op, Anyone
    <3> DEFINE e == [source |-> m.last, op |-> Terminated.op, by |-> Terminated.by]
    <3>6. /\ Ran(Write(m, Terminated), from, Left(s) \ {s}, beats)
          /\ RanOf(m, from) \in Seq(Entry)
          /\ RanOf(Write(m, Terminated), from) = Append(RanOf(m, from), e)
          /\ e \in Entry
      <4>1. m.last \in Left(s)
        BY <3>2, <3>4
      <4>2. /\ Ran(Write(m, Terminated), from, Left(s) \ {m.last}, beats)
            /\ RanOf(m, from) \in Seq(Entry)
            /\ RanOf(Write(m, Terminated), from) = Append(RanOf(m, from), e)
            /\ e \in Entry
        BY <3>4, <3>5, <4>1, RanWrite
      <4> QED
        BY <3>4, <4>2
    <3>8. e.op = "Terminated"
      BY <3>5
    <3> HIDE DEF e
    <3>7. OnlyEnds(RanOf(Write(m, Terminated), from))
      BY <3>4, <3>6, <3>8, OnlyEndsOneMore
    <3> QED
      BY <3>1, <3>2, <3>6, <3>7
  <2> QED
    BY <2>1, <2>2
<1>6. Good(Players)
  <2> HIDE DEF Good
  <2>1. 0 \in T /\ \A n \in 1 .. Players : n - 1 \in T => n \in T
    BY <1>0, <1>4, <1>5
  <2> HIDE DEF T
  <2>2. \A n \in 0 .. Players : n \in T
    BY <1>0, <2>1, CountUp
  <2>3. Players \in T
    BY <1>0, <2>2
  <2> QED
    BY <2>3 DEF T
<1>7. Left(Players) = {}
  BY <1>0, <1>3
<1> DEFINE end == ended[Players]
           r == EndStream(gate, merged)
<1>8. Ran(end, from, {}, beats) /\ OnlyEnds(RanOf(end, from))
  BY <1>6, <1>7
<1>9. r = [gate |-> Gate(id, {}), merged |-> end]
  BY <1>1, <1>2
<1> HIDE DEF end, r
<1>10. r.gate = Gate(id, {}) /\ r.merged = end
  BY <1>9
<1> QED
  BY <1>8, <1>10 DEF r

(* What the viewer's stream may say: its own claim of no source and payload. *)
ViewerSays(segment) ==
    /\ Len(segment) \in Nat
    /\ \A n \in 1 .. Len(segment) :
          segment[n] \in {Source(NoSource), Order(NoSource), Checksum(NoSource)}

(* The viewer's own client: no source, and no source is valid.               *)
ViewerGate == Gate(NoSource, {NoSource})

(* The viewer's stream adds nothing to a beat.                               *)
LEMMA ViewerDrain ==
    ASSUME NEW from, NEW live, NEW beats, NEW merged, Ran(merged, from, live, beats),
           NEW first, NEW segment, ViewerSays(segment)
    PROVE  LET r == Drain(ViewerGate, merged, first, segment)
           IN  /\ r.gate = ViewerGate
               /\ Ran(r.merged, from, live, beats)
               /\ RanOf(r.merged, from) = RanOf(merged, from)
<1>0. Len(segment) \in Nat
  BY DEF ViewerSays
<1>1. PICK st : Drains(st, ViewerGate, merged, first, segment)
  BY <1>0, DrainTrace
<1>2. /\ ViewerGate.id = NoSource /\ ViewerGate.valid = {NoSource}
      /\ [ViewerGate EXCEPT !.id = NoSource] = ViewerGate
  BY GateFields DEF ViewerGate
<1> DEFINE Good(x) == /\ x = [gate |-> ViewerGate, open |-> FALSE, quiet |-> x.quiet,
                              merged |-> x.merged]
                      /\ Ran(x.merged, from, live, beats)
                      /\ RanOf(x.merged, from) = RanOf(merged, from)
<1>3. Good(st[0])
  <2> DEFINE x == st[0]
  <2>1. x = Enter(ViewerGate, merged, first)
    BY <1>1 DEF Drains
  <2> HIDE DEF x
  <2>2. /\ x = [gate |-> ViewerGate, open |-> FALSE, quiet |-> x.quiet, merged |-> x.merged]
        /\ x.merged = merged
    BY <1>2, <2>1 DEF Enter
  <2>3. Good(x)
    BY <2>2
  <2> QED
    BY <2>3 DEF x
<1>4. ASSUME NEW n \in 1 .. Len(segment), Good(st[n - 1])
      PROVE  Good(st[n])
  <2> DEFINE x == st[n - 1]
             y == st[n]
             msg == segment[n]
             m == x.merged
  <2>1. y = ReadMessage(x, msg)
    BY <1>1 DEF Drains
  <2>2. msg \in {Source(NoSource), Order(NoSource), Checksum(NoSource)}
    BY DEF ViewerSays
  <2>3. /\ x = [gate |-> ViewerGate, open |-> FALSE, quiet |-> x.quiet, merged |-> m]
        /\ Ran(m, from, live, beats)
        /\ RanOf(m, from) = RanOf(merged, from)
    BY <1>4
  <2> HIDE DEF x, y, msg
  <2>4. CASE msg = Source(NoSource)
    <3> DEFINE q == Announce(m, NoSource)
    <3>1. NoSource \in x.gate.valid /\ x.gate = ViewerGate
      BY <1>2, <2>3
    <3>2. y = Claim(x, NoSource)
      BY <2>1, <2>4 DEF ReadMessage, Source
    <3>3. y = [x EXCEPT !.gate.id = NoSource, !.merged = Announce(@, NoSource), !.open = FALSE]
      BY <3>1, <3>2 DEF Claim
    <3>4. y = [gate |-> [ViewerGate EXCEPT !.id = NoSource], open |-> FALSE, quiet |-> x.quiet, merged |-> q]
      <4>1. y = [x EXCEPT !.gate.id = NoSource, !.merged = q, !.open = FALSE]
        BY <2>3, <3>3
      <4> DEFINE k == x.quiet
      <4>2. x = [gate |-> ViewerGate, open |-> FALSE, quiet |-> k, merged |-> m]
        BY <2>3
      <4> HIDE DEF q, m, k
      <4>3. y = [gate |-> [ViewerGate EXCEPT !.id = NoSource], open |-> FALSE, quiet |-> k, merged |-> q]
        BY <4>1, <4>2
      <4> QED
        BY <4>3 DEF k
    <3>5. NoSource \in Anyone
      BY DEF Anyone
    <3>6. Ran(q, from, live, beats) /\ RanOf(q, from) = RanOf(merged, from)
      BY <2>3, <3>5, RanAnnounce
    <3> HIDE DEF q
    <3>7. y = [gate |-> ViewerGate, open |-> FALSE, quiet |-> x.quiet, merged |-> q]
      BY <1>2, <3>4
    <3>8. y.quiet = x.quiet /\ y.merged = q
      BY <3>7
    <3>9. Good(y)
      BY <3>6, <3>7, <3>8
    <3> QED
      BY <3>9 DEF y
  <2>5. CASE msg \in {Order(NoSource), Checksum(NoSource)}
    <3>1. msg.op # "Source"
      BY <2>5 DEF Order, Checksum
    <3>2. x.open = FALSE
      BY <2>3
    <3>3. y = x
      BY <2>1, <3>1, <3>2 DEF ReadMessage
    <3>4. Good(y)
      BY <2>3, <3>3
    <3> QED
      BY <3>4 DEF y
  <2> QED
    BY <2>2, <2>4, <2>5
<1>5. Good(st[Len(segment)])
  <2> DEFINE T == {n \in Nat : Good(st[n])}
  <2> HIDE DEF Good
  <2>1. 0 \in T /\ \A n \in 1 .. Len(segment) : n - 1 \in T => n \in T
    BY <1>0, <1>3, <1>4
  <2> HIDE DEF T
  <2>2. \A n \in 0 .. Len(segment) : n \in T
    BY <1>0, <2>1, CountUp
  <2>3. Len(segment) \in T
    BY <1>0, <2>2
  <2> QED
    BY <2>3 DEF T
<1> DEFINE end == st[Len(segment)]
           r == Drain(ViewerGate, merged, first, segment)
<1>6. Good(end)
  BY <1>5
<1>7. r = [gate |-> end.gate, merged |-> end.merged]
  BY <1>1 DEF Drains
<1> HIDE DEF end, r
<1>8. r.gate = end.gate /\ r.merged = end.merged /\ end.gate = ViewerGate
  BY <1>6, <1>7
<1> QED
  BY <1>6, <1>8 DEF r

-----------------------------------------------------------------------------
(* The replay client's place in the record.                                  *)

(* The reading of the record's first x messages.                             *)
At(x) == Course(tape)[x]

(* No beat ends after the message i and through the message j.               *)
NoEnd(i, j) == \A k \in i + 1 .. j : tape[k] # Advance

(* Every place of the record is proper, and each message fits its place.     *)
LEMMA AtProper ==
    ASSUME GameInv
    PROVE  /\ Len(tape) \in Nat /\ tape \in Seq(Message)
           /\ \A n \in 0 .. Len(tape) : At(n) \in Reading /\ Proper(At(n))
           /\ \A n \in 1 .. Len(tape) :
                 tape[n] \in Message /\ Fits(At(n - 1), tape[n]) /\ At(n) = After(At(n - 1), tape[n])
           /\ At(0) = Outset
           /\ At(Len(tape)) = End(tape)
<1>1. tape \in Seq(Message) /\ Sound(tape)
  BY DEF GameInv
<1>2. \A n \in 0 .. Len(tape) : Proper(Course(tape)[n])
  BY <1>1, CourseProper
<1>3. \A n \in 1 .. Len(tape) : Fits(Course(tape)[n - 1], tape[n])
  BY <1>1 DEF Sound
<1>4. Len(tape) \in Nat /\ \A n \in 1 .. Len(tape) : tape[n] \in Message
  BY <1>1
<1> QED
  BY <1>1, <1>2, <1>3, <1>4, CourseAt DEF At, Proper, End

(* Only the end of a beat adds to what ran, and no source comes back.        *)
LEMMA AtStep ==
    ASSUME GameInv, NEW n \in 1 .. Len(tape)
    PROVE  /\ tape[n].op = "Advance" <=> tape[n] = Advance
           /\ tape[n] # Advance => At(n).ran = At(n - 1).ran
           /\ tape[n] = Advance =>
                 /\ At(n).ran = Append(At(n - 1).ran, At(n - 1).beat) /\ At(n).beat = <<>>
                 /\ At(n).live = At(n - 1).live /\ At(n).at = At(n - 1).at
           /\ At(n).live \subseteq At(n - 1).live
<1> DEFINE w == At(n - 1)
           v == At(n)
           msg == tape[n]
<1>1. n - 1 \in 0 .. Len(tape)
  BY AtProper
<1>2. w \in Reading /\ msg \in Message /\ Fits(w, msg) /\ v = After(w, msg)
  BY <1>1, AtProper
<1> HIDE DEF w, v, msg
<1>3. msg.op = "Advance" <=> msg = Advance
  BY <1>2 DEF Fits, Advance
<1>4. CASE msg.op = "Source"
  BY <1>2, <1>3, <1>4 DEF After, Reading, w, v, msg
<1>5. CASE msg.op = "Advance"
  <2>1. v = [w EXCEPT !.ran = Append(@, w.beat), !.beat = <<>>]
    BY <1>2, <1>5 DEF After
  <2>2. v.ran = Append(w.ran, w.beat) /\ v.beat = <<>> /\ v.live = w.live /\ v.at = w.at
    BY <1>2, <2>1 DEF Reading
  <2> QED
    BY <1>3, <1>5, <2>2 DEF w, v, msg
<1>6. CASE msg.op \notin {"Source", "Advance"}
  <2> DEFINE entry == [source |-> w.at, op |-> msg.op, by |-> msg.by]
             beat == Append(w.beat, entry)
             live == IF msg.op = "Terminated" THEN w.live \ {w.at} ELSE w.live
  <2>1. v = [w EXCEPT !.beat = beat, !.live = live]
    BY <1>2, <1>6 DEF After
  <2> HIDE DEF beat
  <2>2. v.ran = w.ran /\ v.live = live
    BY <1>2, <2>1 DEF Reading
  <2> QED
    BY <1>3, <1>6, <2>2 DEF w, v, msg
<1> QED
  BY <1>4, <1>5, <1>6

(* Sources only end, and what ran changes at the end of a beat only.         *)
LEMMA AtLater ==
    ASSUME GameInv, NEW x \in Nat, NEW y \in Nat, x <= y, y <= Len(tape)
    PROVE  /\ At(y).live \subseteq At(x).live
           /\ NoEnd(x, y) => At(y).ran = At(x).ran
<1>0. Len(tape) \in Nat
  BY AtProper
<1> DEFINE Later(n) == /\ At(x + n).live \subseteq At(x).live
                       /\ NoEnd(x, x + n) => At(x + n).ran = At(x).ran
           T == {n \in Nat : Later(n)}
           N == y - x
<1>1. N \in Nat /\ x + N = y
  OBVIOUS
<1>2. 0 \in T
  BY x + 0 = x
<1>3. ASSUME NEW n \in 1 .. N, n - 1 \in T
      PROVE  n \in T
  <2>1. x + n \in 1 .. Len(tape) /\ (x + n) - 1 = x + (n - 1) /\ n \in Nat
    BY <1>0, <1>1
  <2> DEFINE a == x + (n - 1)
             b == x + n
  <2>2. /\ tape[b] # Advance => At(b).ran = At(b - 1).ran
        /\ At(b).live \subseteq At(b - 1).live
    BY <2>1, AtStep
  <2>3. NoEnd(x, b) => NoEnd(x, a) /\ tape[b] # Advance
    <3>1. b \in x + 1 .. b /\ \A k \in x + 1 .. a : k \in x + 1 .. b
      BY <2>1
    <3> QED
      BY <3>1 DEF NoEnd
  <2>4. Later(n - 1)
    BY <1>3
  <2>5. b - 1 = a
    BY <2>1
  <2> HIDE DEF a, b
  <2>6. Later(n)
    BY <2>2, <2>3, <2>4, <2>5 DEF a, b
  <2> QED
    BY <2>1, <2>6
<1> HIDE DEF T, N
<1>4. \A n \in 0 .. N : n \in T
  BY <1>1, <1>2, <1>3, CountUp
<1>5. N \in T
  BY <1>1, <1>4
<1> QED
  BY <1>1, <1>5 DEF T

(* The beats over at a place are as many as ends of beats were passed.       *)
EndsThrough(k) == {i \in 1 .. k : tape[i] = Advance}

(* The beats a place has behind it are the ends of beats before it.          *)
LEMMA BeatsCounted ==
    ASSUME GameInv
    PROVE  \A n \in 0 .. Len(tape) : /\ IsFiniteSet(EndsThrough(n))
                                     /\ Len(At(n).ran) = Cardinality(EndsThrough(n))
<1>0. Len(tape) \in Nat
  BY AtProper
<1> DEFINE T == {n \in Nat : /\ IsFiniteSet(EndsThrough(n))
                             /\ Len(At(n).ran) = Cardinality(EndsThrough(n))}
<1>1. 0 \in T
  <2>1. EndsThrough(0) = {}
    BY DEF EndsThrough
  <2>2. Len(At(0).ran) = 0
    BY AtProper DEF Outset
  <2> QED
    BY <2>1, <2>2, FS_EmptySet
<1>2. ASSUME NEW n \in 1 .. Len(tape), n - 1 \in T
      PROVE  n \in T
  <2>1. n - 1 \in 0 .. Len(tape) /\ n \in Nat
    BY <1>0
  <2>2. At(n - 1).ran \in Seq(Seq(Entry)) /\ At(n - 1).beat \in Seq(Entry)
    BY <2>1, AtProper DEF Reading
  <2>3. CASE tape[n] # Advance
    <3>1. EndsThrough(n) = EndsThrough(n - 1)
      BY <2>3, <1>0 DEF EndsThrough
    <3>2. At(n).ran = At(n - 1).ran
      BY <2>3, AtStep
    <3> QED
      BY <1>2, <2>1, <3>1, <3>2
  <2>4. CASE tape[n] = Advance
    <3>1. EndsThrough(n) = EndsThrough(n - 1) \cup {n} /\ n \notin EndsThrough(n - 1)
      BY <2>4, <1>0 DEF EndsThrough
    <3>2. At(n).ran = Append(At(n - 1).ran, At(n - 1).beat)
      BY <2>4, AtStep
    <3>3. Len(At(n).ran) = Len(At(n - 1).ran) + 1
      BY <2>2, <3>2
    <3>4. /\ IsFiniteSet(EndsThrough(n - 1))
          /\ Len(At(n - 1).ran) = Cardinality(EndsThrough(n - 1))
      BY <1>2
    <3>5. /\ IsFiniteSet(EndsThrough(n))
          /\ Cardinality(EndsThrough(n)) = Cardinality(EndsThrough(n - 1)) + 1
      BY <3>1, <3>4, FS_AddElement
    <3> QED
      BY <2>1, <3>3, <3>4, <3>5
  <2> QED
    BY <2>3, <2>4
<1> HIDE DEF T
<1>3. \A n \in 0 .. Len(tape) : n \in T
  BY <1>0, <1>1, <1>2, CountUp
<1> QED
  BY <1>3 DEF T

-----------------------------------------------------------------------------
(* SkipBeats.                                                                *)

(* What SkipBeats has made of each message.                                  *)
LEMMA SkipSteps ==
    ASSUME NEW k \in Nat
    PROVE  \E st :
             /\ st[0] = [id |-> replay.id, valid |-> replay.valid, allowed |-> allowed]
             /\ \A n \in 1 .. k : st[n] = SkipMessage(st[n - 1], tape[n])
             /\ Skip(k) = st[k]
<1> DEFINE base == [id |-> replay.id, valid |-> replay.valid, allowed |-> allowed]
           Step(x, n) == SkipMessage(x, tape[n])
           Until(st, j) == st = [n \in 0 .. j |-> IF n = 0 THEN base
                                                  ELSE Step(st[n - 1], n)]
           T == {n \in Nat : \E f : Until(f, n)}
<1>0. k \in Nat
  OBVIOUS
<1>1. ASSUME NEW st, Until(st, k)
      PROVE  /\ st[0] = [id |-> replay.id, valid |-> replay.valid, allowed |-> allowed]
             /\ \A n \in 1 .. k : st[n] = SkipMessage(st[n - 1], tape[n])
  <2>1. st[0] = base
    BY <1>0, <1>1
  <2>2. ASSUME NEW n \in 1 .. k
        PROVE  st[n] = Step(st[n - 1], n)
    <3> HIDE DEF base, Step
    <3> QED
      BY <1>0, <1>1
  <2> QED
    BY <2>1, <2>2
<1>2. ASSUME NEW st, st = CHOOSE f : Until(f, k)
      PROVE  Skip(k) = st[k]
  BY <1>2 DEF Skip
<1> HIDE DEF base, Step
<1>3. 0 \in T
  <2>1. Until([n \in 0 .. 0 |-> base], 0)
    OBVIOUS
  <2> QED
    BY <2>1
<1>4. ASSUME NEW n \in 1 .. k, n - 1 \in T
      PROVE  n \in T
  <2>1. PICK st : Until(st, n - 1)
    BY <1>4
  <2> DEFINE longer == [j \in 0 .. n |-> IF j = n THEN Step(st[n - 1], n) ELSE st[j]]
  <2>2. ASSUME NEW j \in 0 .. n
        PROVE  longer[j] = IF j = 0 THEN base ELSE Step(longer[j - 1], j)
    BY <2>1, <1>0
  <2>3. Until(longer, n)
    BY <2>2
  <2>4. n \in Nat
    BY <1>0
  <2> HIDE DEF Until, longer
  <2> QED
    BY <2>3, <2>4
<1>5. k \in T
  <2> HIDE DEF T
  <2>1. \A n \in 0 .. k : n \in T
    BY <1>0, <1>3, <1>4, CountUp
  <2> QED
    BY <2>1, <1>0
<1>6. \E f : Until(f, k)
  <2> HIDE DEF Until
  <2> QED
    BY <1>5
<1> HIDE DEF Until
<1>7. Until(CHOOSE f : Until(f, k), k)
  BY <1>6
<1> QED
  BY <1>1, <1>2, <1>7

(* The gate SkipBeats leaves is the one the beats it read would have.        *)
LEMMA SkipReads ==
    ASSUME GameInv, NEW k \in 0 .. Len(tape),
           replay = Gate(NoSource, Player), allowed = FALSE
    PROVE  /\ Skip(k).id = Alias(At(k)) /\ Skip(k).valid = At(k).live
           /\ Skip(k).allowed \in BOOLEAN
           /\ At(k).at # NoSource => Skip(k).allowed
<1>0. k \in Nat /\ Len(tape) \in Nat
  BY AtProper
<1>1. PICK st :
        /\ st[0] = [id |-> replay.id, valid |-> replay.valid, allowed |-> allowed]
        /\ \A n \in 1 .. k : st[n] = SkipMessage(st[n - 1], tape[n])
        /\ Skip(k) = st[k]
  BY <1>0, SkipSteps
<1> DEFINE Good(x, w) == /\ x = [id |-> Alias(w), valid |-> w.live, allowed |-> x.allowed]
                         /\ x.allowed \in BOOLEAN
                         /\ w.at # NoSource => x.allowed
           T == {n \in Nat : Good(st[n], At(n))}
<1>2. 0 \in T
  <2> DEFINE w == At(0)
             x == st[0]
  <2>1. w.at = NoSource /\ w.live = Player
    BY AtProper DEF Outset
  <2>2. Alias(w) = NoSource
    BY <2>1 DEF Alias
  <2>3. x = [id |-> NoSource, valid |-> Player, allowed |-> FALSE]
    <3>1. replay.id = NoSource /\ replay.valid = Player
      BY GateFields
    <3>2. x = [id |-> replay.id, valid |-> replay.valid, allowed |-> allowed]
      BY <1>1
    <3> HIDE DEF x
    <3> QED
      BY <3>1, <3>2
  <2> HIDE DEF w, x
  <2>4. x.allowed = FALSE
    BY <2>3
  <2>5. Good(x, w)
    BY <2>1, <2>2, <2>3, <2>4
  <2> QED
    BY <2>5 DEF x, w
<1>3. ASSUME NEW n \in 1 .. k, n - 1 \in T
      PROVE  n \in T
  <2> DEFINE w == At(n - 1)
             v == At(n)
             x == st[n - 1]
             y == st[n]
             msg == tape[n]
  <2>1. n \in 1 .. Len(tape) /\ n - 1 \in 0 .. Len(tape) /\ n \in Nat
    BY <1>0
  <2>2. w \in Reading /\ msg \in Message /\ Fits(w, msg) /\ v = After(w, msg)
    BY <2>1, AtProper
  <2>3. y = SkipMessage(x, msg)
    BY <1>1
  <2>4. Good(x, w)
    BY <1>3
  <2> HIDE DEF w, v, x, y, msg
  <2>5. w.live \in SUBSET Player /\ \A s \in w.live : s # NoSource
    BY <2>2, SourceAssumption DEF Reading
  <2>6. CASE msg.op = "Source"
    <3>1. msg.by \in w.live
      BY <2>2, <2>6 DEF Fits, Advance
    <3>2. v.at = msg.by /\ v.live = w.live
      BY <2>2, <2>6 DEF After, Reading
    <3>3. msg.by \in x.valid
      BY <2>4, <3>1
    <3>4. y = [x EXCEPT !.allowed = TRUE, !.id = msg.by]
      BY <2>3, <2>6, <3>3 DEF SkipMessage
    <3>5. y = [id |-> msg.by, valid |-> w.live, allowed |-> TRUE]
      <4> DEFINE a == x.allowed
                 i == Alias(w)
      <4>1. x = [id |-> i, valid |-> w.live, allowed |-> a]
        BY <2>4
      <4> HIDE DEF a, i
      <4> QED
        BY <3>4, <4>1
    <3>6. Alias(v) = msg.by
      BY <3>1, <3>2 DEF Alias
    <3>7. y.allowed = TRUE
      BY <3>5
    <3>8. Good(y, v)
      BY <3>2, <3>5, <3>6, <3>7
    <3> QED
      BY <2>1, <3>8 DEF y, v
  <2>7. CASE msg.op = "Terminated"
    <3>1. w.at \in w.live
      BY <2>2, <2>7 DEF Fits, Advance
    <3>2. v.at = w.at /\ v.live = w.live \ {w.at}
      BY <2>2, <2>7 DEF After, Reading
    <3>3. Alias(w) = w.at /\ w.at # NoSource
      BY <2>5, <3>1 DEF Alias
    <3>4. x.id = w.at /\ x.allowed = TRUE /\ x.valid = w.live
      BY <2>4, <3>3
    <3>5. y = [x EXCEPT !.valid = @ \ {x.id}, !.id = NoSource]
      BY <2>3, <2>7, <3>3, <3>4 DEF SkipMessage
    <3> DEFINE rest == w.live \ {w.at}
    <3>6. y = [x EXCEPT !.valid = rest, !.id = NoSource]
      BY <3>4, <3>5
    <3> HIDE DEF rest
    <3>7. y = [id |-> NoSource, valid |-> rest, allowed |-> TRUE]
      BY <2>4, <3>4, <3>6
    <3>8. Alias(v) = NoSource
      BY <3>2 DEF Alias
    <3>9. y.allowed = TRUE /\ v.live = rest
      BY <3>2, <3>7 DEF rest
    <3>10. Good(y, v)
      BY <3>7, <3>8, <3>9
    <3> QED
      BY <2>1, <3>10 DEF y, v
  <2>8. CASE msg.op \notin {"Source", "Terminated"}
    <3>1. v.at = w.at /\ v.live = w.live
      BY <2>2, <2>8 DEF After, Reading
    <3>2. y = x
      BY <2>3, <2>8 DEF SkipMessage
    <3>3. Alias(v) = Alias(w)
      BY <3>1 DEF Alias
    <3>4. Good(y, v)
      BY <2>4, <3>1, <3>2, <3>3
    <3> QED
      BY <2>1, <3>4 DEF y, v
  <2> QED
    BY <2>6, <2>7, <2>8
<1> HIDE DEF T
<1>4. k \in T
  <2>1. \A n \in 0 .. k : n \in T
    BY <1>0, <1>2, <1>3, CountUp
  <2> QED
    BY <1>0, <2>1
<1> DEFINE x == Skip(k)
           w == At(k)
<1>5. Good(x, w)
  BY <1>1, <1>4 DEF T
<1> HIDE DEF x, w
<1>6. x.id = Alias(w) /\ x.valid = w.live
  BY <1>5
<1> QED
  BY <1>5, <1>6 DEF x, w

-----------------------------------------------------------------------------
(* Start.                                                                    *)

(* What Start has made of each message.                                      *)
LEMMA TakeSteps ==
    ASSUME NEW p, NEW k \in Nat
    PROVE  \E st :
             /\ st[0] = [allowed |-> allowed, pipe |-> p]
             /\ \A n \in 1 .. k : st[n] = ReadRecord(st[n - 1], tape[position + n])
             /\ Take(p, k) = st[k]
<1> DEFINE base == [allowed |-> allowed, pipe |-> p]
           Step(x, n) == ReadRecord(x, tape[position + n])
           Until(st, j) == st = [n \in 0 .. j |-> IF n = 0 THEN base
                                                  ELSE Step(st[n - 1], n)]
           T == {n \in Nat : \E f : Until(f, n)}
<1>0. k \in Nat
  OBVIOUS
<1>1. ASSUME NEW st, Until(st, k)
      PROVE  /\ st[0] = [allowed |-> allowed, pipe |-> p]
             /\ \A n \in 1 .. k : st[n] = ReadRecord(st[n - 1], tape[position + n])
  <2>1. st[0] = base
    BY <1>0, <1>1
  <2>2. ASSUME NEW n \in 1 .. k
        PROVE  st[n] = Step(st[n - 1], n)
    <3> HIDE DEF base, Step
    <3> QED
      BY <1>0, <1>1
  <2> QED
    BY <2>1, <2>2
<1>2. ASSUME NEW st, st = CHOOSE f : Until(f, k)
      PROVE  Take(p, k) = st[k]
  BY <1>2 DEF Take
<1> HIDE DEF base, Step
<1>3. 0 \in T
  <2>1. Until([n \in 0 .. 0 |-> base], 0)
    OBVIOUS
  <2> QED
    BY <2>1
<1>4. ASSUME NEW n \in 1 .. k, n - 1 \in T
      PROVE  n \in T
  <2>1. PICK st : Until(st, n - 1)
    BY <1>4
  <2> DEFINE longer == [j \in 0 .. n |-> IF j = n THEN Step(st[n - 1], n) ELSE st[j]]
  <2>2. ASSUME NEW j \in 0 .. n
        PROVE  longer[j] = IF j = 0 THEN base ELSE Step(longer[j - 1], j)
    BY <2>1, <1>0
  <2>3. Until(longer, n)
    BY <2>2
  <2>4. n \in Nat
    BY <1>0
  <2> HIDE DEF Until, longer
  <2> QED
    BY <2>3, <2>4
<1>5. k \in T
  <2> HIDE DEF T
  <2>1. \A n \in 0 .. k : n \in T
    BY <1>0, <1>3, <1>4, CountUp
  <2> QED
    BY <2>1, <1>0
<1>6. \E f : Until(f, k)
  <2> HIDE DEF Until
  <2> QED
    BY <1>5
<1> HIDE DEF Until
<1>7. Until(CHOOSE f : Until(f, k), k)
  BY <1>6
<1> QED
  BY <1>1, <1>2, <1>7

(* The results of moving messages to the pipe, one after each message.       *)
Takes(st, p, k) ==
    /\ st[0] = [allowed |-> allowed, pipe |-> p]
    /\ \A n \in 1 .. k : st[n] = ReadRecord(st[n - 1], tape[position + n])
    /\ Take(p, k) = st[k]

(* A number of messages has such results, and Take ends with the last.       *)
LEMMA TakeTrace ==
    ASSUME NEW p, NEW k \in Nat
    PROVE  \E st : Takes(st, p, k)
BY TakeSteps DEF Takes

(* Nothing of the record is kept from the pipe: what it says comes from      *)
(* sources that have not ended.                                              *)
LEMMA TakeAll ==
    ASSUME GameInv, NEW p \in Seq(Message), NEW k \in Nat,
           position \in Nat, position + k <= Len(tape),
           NEW x \in Nat, x <= position, replay'.valid = At(x).live,
           allowed \in BOOLEAN, At(position).at # NoSource => allowed
    PROVE  /\ Take(p, k).allowed \in BOOLEAN
           /\ At(position + k).at # NoSource => Take(p, k).allowed
           /\ Take(p, k).pipe \in Seq(Message)
           /\ Len(Take(p, k).pipe) = Len(p) + k
           /\ \A i \in 1 .. Len(p) : Take(p, k).pipe[i] = p[i]
           /\ \A i \in 1 .. k : Take(p, k).pipe[Len(p) + i] = tape[position + i]
<1>0. Len(tape) \in Nat /\ tape \in Seq(Message)
  BY AtProper
<1>6. PICK st : Takes(st, p, k)
  BY TakeTrace
<1>1. /\ st[0] = [allowed |-> allowed, pipe |-> p]
      /\ \A n \in 1 .. k : st[n] = ReadRecord(st[n - 1], tape[position + n])
      /\ Take(p, k) = st[k]
  BY <1>6 DEF Takes
<1> DEFINE Holds(q, n) == /\ q \in Seq(Message)
                          /\ Len(q) = Len(p) + n
                          /\ \A i \in 1 .. Len(p) : q[i] = p[i]
                          /\ \A i \in 1 .. n : q[Len(p) + i] = tape[position + i]
           Good(s, n) == /\ s = [allowed |-> s.allowed, pipe |-> s.pipe]
                         /\ s.allowed \in BOOLEAN
                         /\ At(position + n).at # NoSource => s.allowed
                         /\ Holds(s.pipe, n)
           T == {n \in Nat : Good(st[n], n)}
<1>2. 0 \in T
  <2>1. Holds(p, 0)
    OBVIOUS
  <2> HIDE DEF Holds
  <2>2. st[0].allowed = allowed /\ st[0].pipe = p
    BY <1>1
  <2> QED
    BY <1>1, <2>1, <2>2
<1>3. ASSUME NEW n \in 1 .. k, n - 1 \in T
      PROVE  n \in T
  <2> DEFINE s == st[n - 1]
             r == st[n]
             msg == tape[position + n]
             w == At(position + (n - 1))
             v == At(position + n)
  <2>1. /\ position + n \in 1 .. Len(tape) /\ (position + n) - 1 = position + (n - 1)
        /\ position + (n - 1) \in Nat /\ position + (n - 1) <= Len(tape) /\ x <= position + (n - 1)
        /\ n \in Nat /\ n - 1 \in Nat /\ position + (n - 1) \in 0 .. Len(tape)
    BY <1>0
  <2>2. w \in Reading /\ msg \in Message /\ Fits(w, msg) /\ v = After(w, msg)
    BY <2>1, AtProper
  <2>3. w.live \subseteq At(x).live
    BY <2>1, AtLater
  <2>4. r = ReadRecord(s, msg)
    BY <1>1
  <2>5. Good(s, n - 1)
    BY <1>3
  <2> DEFINE q == s.pipe
             more == Append(q, msg)
  <2>6. s = [allowed |-> s.allowed, pipe |-> q] /\ Holds(q, n - 1)
        /\ (w.at # NoSource => s.allowed) /\ s.allowed \in BOOLEAN
    BY <2>5
  <2>7. Holds(more, n)
    <3> HIDE DEF q, w, v, s, r
    <3>1. msg \in Message
      BY <2>2
    <3>2. q \in Seq(Message) /\ Len(q) = Len(p) + (n - 1)
      BY <2>6
    <3>3. more \in Seq(Message) /\ Len(more) = Len(p) + n
      BY <3>1, <3>2
    <3>4. \A i \in 1 .. Len(q) : more[i] = q[i]
      BY <3>1, <3>2
    <3>5. more[Len(p) + n] = msg
      BY <3>1, <3>2, <3>3
    <3>6. \A i \in 1 .. Len(p) : i \in 1 .. Len(q)
      BY <3>2
    <3>7. \A i \in 1 .. n : i = n \/ (i \in 1 .. n - 1 /\ Len(p) + i \in 1 .. Len(q))
      BY <2>1, <3>2
    <3>8. \A i \in 1 .. Len(p) : more[i] = p[i]
      BY <2>6, <3>4, <3>6
    <3> HIDE DEF more, msg
    <3>9. \A i \in 1 .. n : more[Len(p) + i] = tape[position + i]
      BY <2>6, <3>4, <3>5, <3>7 DEF msg
    <3> QED
      BY <3>3, <3>8, <3>9
  <2> DEFINE ok == IF msg.op = "Source" THEN msg.by \in replay'.valid ELSE s.allowed
  <2>8. ok \in BOOLEAN
    <3>1. CASE msg.op = "Source"
      <4>1. ok = (msg.by \in replay'.valid)
        BY <3>1
      <4> HIDE DEF ok, msg
      <4> QED
        BY <4>1
    <3>2. CASE msg.op # "Source"
      <4>1. ok = s.allowed
        BY <3>2
      <4> HIDE DEF ok, s
      <4> QED
        BY <2>6, <4>1
    <3> QED
      BY <3>1, <3>2
  <2> HIDE DEF q, Holds, w, v, msg, s, r
  <2>9. msg.op # "Advance" => ok
    <3>1. CASE msg.op = "Source"
      BY <2>2, <2>3, <3>1 DEF Fits, Advance
    <3>2. CASE msg.op \notin {"Source", "Advance"}
      <4>1. w.at \in w.live
        BY <2>2, <3>2 DEF Fits, Advance
      <4>2. w.at # NoSource
        BY <2>2, <4>1, SourceAssumption DEF Reading
      <4> QED
        BY <2>6, <3>2, <4>2
    <3> QED
      BY <3>1, <3>2
  <2>10. v.at # NoSource => ok
    <3>1. CASE msg.op = "Source"
      BY <2>9, <3>1
    <3>2. CASE msg.op # "Source"
      <4>1. v.at = w.at
        BY <2>2, <3>2 DEF After, Reading
      <4> QED
        BY <2>6, <3>2, <4>1
    <3> QED
      BY <3>1, <3>2
  <2>11. r = [s EXCEPT !.allowed = ok, !.pipe = Append(@, msg)]
    BY <2>4, <2>9 DEF ReadRecord
  <2> HIDE DEF ok, more
  <2>12. r = [allowed |-> ok, pipe |-> more]
    BY <2>6, <2>11 DEF more, q
  <2>13. r.allowed = ok /\ r.pipe = more
    BY <2>12
  <2>14. Good(r, n)
    BY <2>7, <2>8, <2>10, <2>12, <2>13 DEF v
  <2> QED
    BY <2>1, <2>14 DEF r
<1> HIDE DEF T
<1>4. k \in T
  <2>1. \A n \in 0 .. k : n \in T
    BY <1>2, <1>3, CountUp
  <2> QED
    BY <2>1
<1>5. Good(Take(p, k), k)
  BY <1>1, <1>4 DEF T
<1> QED
  BY <1>5

-----------------------------------------------------------------------------
(* The replay client's pipe holds the record from the place x to position.   *)
Holds(p, x, pos) ==
    /\ x \in Nat /\ pos \in Nat /\ x <= pos
    /\ p \in Seq(Message)
    /\ Len(p) = pos - x
    /\ \A k \in 1 .. Len(p) : p[k] = tape[x + k]

(* Between two of its beats at the place x: beats are over up to there, and  *)
(* Start has read on through the end of the next beat, queued, or not so far.*)
ReadsOn(x, p, pos, q, d) ==
    /\ Holds(p, x, pos)
    /\ At(x).beat = <<>>
    /\ Len(At(x).ran) = start + d
    /\ \/ q = d /\ NoEnd(x, pos)
       \/ q = d + 1 /\ x < pos /\ tape[pos] = Advance /\ NoEnd(x, pos - 1)

(* At the end of the record, with or without the end of the game to play.    *)
AtTheEnd(x, p, pos, q, d) ==
    /\ over /\ arrived = Len(tape) /\ pos = Len(tape) /\ x = pos
    /\ start + q = Len(ran) + 1
    /\ \/ q = d /\ p = <<>>
       \/ q = d + 1 /\ p = <<EndGame, Advance>>

(* What the pipe holds: the record from x on, or what follows its end.       *)
Piped(x, p, pos, q, d, ending, open) ==
    /\ pos \in Nat /\ pos <= arrived
    /\ q \in Nat /\ d \in Nat
    /\ ending \in BOOLEAN
    /\ IF ending THEN ~open /\ AtTheEnd(x, p, pos, q, d) ELSE ReadsOn(x, p, pos, q, d)

(* A source the reader is at has been let through.                           *)
LetsThrough(pos, ok) == ok \in BOOLEAN /\ (At(pos).at # NoSource => ok)

(* What has arrived is a first part of the record.                           *)
Arrived == arrived \in Nat /\ arrived <= Len(tape)

(* Start stops behind the next end of a beat, or where the data ends.        *)
LEMMA StopsWhere ==
    ASSUME GameInv, Arrived, position \in Nat, position <= arrived
    PROVE  /\ Stop \in Nat /\ position <= Stop /\ Stop <= arrived
           /\ \/ position < Stop /\ tape[Stop] = Advance /\ NoEnd(position, Stop - 1)
              \/ Stop = arrived /\ NoEnd(position, Stop) /\ ~(Stop > position /\ tape[Stop] = Advance)
<1> DEFINE next == {k \in BeatEnds : k > position}
<1>0. Len(tape) \in Nat /\ arrived \in Nat
  BY AtProper DEF Arrived
<1>1. Stop = IF next = {} THEN arrived ELSE Min(next)
  BY DEF Stop
<1>2. \A k \in Nat : k \in next <=> (k > position /\ k <= arrived /\ tape[k] = Advance)
  BY <1>0 DEF BeatEnds
<1>3. next \in SUBSET Nat
  BY <1>0 DEF BeatEnds
<1> HIDE DEF next
<1>4. CASE next = {}
  <2>1. Stop = arrived
    BY <1>1, <1>4
  <2>2. \A k \in position + 1 .. arrived : tape[k] # Advance
    BY <1>0, <1>2, <1>4
  <2>3. arrived > position => arrived \in position + 1 .. arrived
    BY <1>0
  <2> QED
    BY <1>0, <2>1, <2>2, <2>3 DEF NoEnd
<1>5. CASE next # {}
  <2>1. \E k \in next : \A y \in next : k <= y
    BY <1>3, <1>5, LeastNumber
  <2>2. Stop = CHOOSE k \in next : \A y \in next : k <= y
    BY <1>1, <1>5 DEF Min
  <2>3. Stop \in next /\ \A y \in next : Stop <= y
    BY <2>1, <2>2
  <2>4. Stop \in Nat /\ Stop > position /\ Stop <= arrived /\ tape[Stop] = Advance
    BY <1>2, <1>3, <2>3
  <2> HIDE DEF Stop
  <2>5. ASSUME NEW k \in position + 1 .. Stop - 1
        PROVE  tape[k] # Advance
    BY <1>0, <1>2, <2>3, <2>4
  <2> QED
    BY <1>0, <2>4, <2>5 DEF NoEnd
<1> QED
  BY <1>4, <1>5

(* The record ends with the end of a beat.                                   *)
LEMMA RecordEnds ==
    ASSUME GameInv, NEW x \in Nat, x <= Len(tape), NoEnd(x, Len(tape))
    PROVE  x = Len(tape)
<1>1. Len(tape) \in Nat /\ tape \in Seq(Message)
  BY AtProper
<1> SUFFICES ASSUME x < Len(tape) PROVE FALSE
  BY <1>1
<1>2. tape # <<>> /\ Len(tape) \in x + 1 .. Len(tape)
  BY <1>1
<1> QED
  BY <1>2 DEF NoEnd, GameInv

(* What is read on follows what is there.                                    *)
LEMMA ReadOn ==
    ASSUME GameInv, Arrived, NEW p, NEW x, NEW q, NEW d,
           Holds(p, x, position), position <= arrived,
           LetsThrough(position, allowed), replay'.valid = At(x).live
    PROVE  LET st == Take(p, Stop - position)
           IN  Holds(st.pipe, x, Stop) /\ LetsThrough(Stop, st.allowed)
<1>0. Len(tape) \in Nat /\ arrived \in Nat /\ arrived <= Len(tape)
  BY AtProper DEF Arrived
<1>1. p \in Seq(Message) /\ x \in Nat /\ position \in Nat /\ x <= position /\ Len(p) = position - x
  BY DEF Holds
<1>2. Stop \in Nat /\ position <= Stop /\ Stop <= arrived
  BY <1>1, StopsWhere
<1> DEFINE k == Stop - position
           st == Take(p, k)
<1>3. k \in Nat /\ position + k = Stop /\ position + k <= Len(tape)
  BY <1>0, <1>1, <1>2
<1> HIDE DEF k
<1>4. /\ st.allowed \in BOOLEAN /\ (At(position + k).at # NoSource => st.allowed)
      /\ st.pipe \in Seq(Message) /\ Len(st.pipe) = Len(p) + k
      /\ \A i \in 1 .. Len(p) : st.pipe[i] = p[i]
      /\ \A i \in 1 .. k : st.pipe[Len(p) + i] = tape[position + i]
  BY <1>1, <1>3, TakeAll DEF LetsThrough
<1> HIDE DEF st
<1>5. LetsThrough(Stop, st.allowed)
  BY <1>3, <1>4 DEF LetsThrough
<1>6. ASSUME NEW i \in 1 .. Len(st.pipe)
      PROVE  st.pipe[i] = tape[x + i]
  <2>1. CASE i <= Len(p)
    <3>1. i \in 1 .. Len(p)
      BY <1>1, <2>1
    <3> QED
      BY <1>4, <3>1 DEF Holds
  <2>2. CASE i > Len(p)
    <3> DEFINE j == i - Len(p)
    <3>1. j \in 1 .. k /\ Len(p) + j = i /\ position + j = x + i
      BY <1>1, <1>3, <1>4, <2>2
    <3> HIDE DEF j
    <3>2. st.pipe[Len(p) + j] = tape[position + j]
      BY <1>4, <3>1
    <3> QED
      BY <3>1, <3>2
  <2> QED
    BY <1>1, <2>1, <2>2
<1>7. Len(st.pipe) = Stop - x /\ x <= Stop
  BY <1>1, <1>2, <1>3, <1>4
<1>8. Holds(st.pipe, x, Stop)
  BY <1>1, <1>2, <1>4, <1>6, <1>7 DEF Holds
<1> QED
  BY <1>5, <1>8 DEF st, k

(* No beat ends in two stretches, so none in both together.                  *)
LEMMA NoEndJoins ==
    ASSUME NEW x \in Nat, NEW y \in Nat, NEW z \in Int, NoEnd(x, y), NoEnd(y, z)
    PROVE  NoEnd(x, z)
<1>1. \A k \in x + 1 .. z : k \in x + 1 .. y \/ k \in y + 1 .. z
  OBVIOUS
<1> QED
  BY <1>1 DEF NoEnd

(* Start leaves a pipe as it may find it, and only goes forward.             *)
LEMMA StartKeepsPiped ==
    ASSUME GameInv, Arrived, over \in BOOLEAN, NEW p, NEW x,
           start \in Int,
           Piped(x, p, position, queued, drained', closing, reading),
           LetsThrough(position, allowed),
           reading => replay'.valid = At(x).live,
           Start(p)
    PROVE  /\ Piped(x, pipe', position', queued', drained', closing', reading')
           /\ LetsThrough(position', allowed')
           /\ queued' >= queued
           /\ closing => closing' /\ queued' = queued
<1> DEFINE d == drained'
<1>0. /\ position \in Nat /\ position <= arrived /\ queued \in Nat /\ d \in Nat /\ closing \in BOOLEAN
      /\ Len(tape) \in Nat /\ arrived \in Nat
  BY AtProper DEF Piped, Arrived
<1>1. CASE ~(reading /\ ~polling /\ queued <= d)
  <2>1. /\ pipe' = p /\ position' = position /\ allowed' = allowed /\ reading' = reading
        /\ queued' = queued /\ closing' = closing
    BY <1>1 DEF Start
  <2> QED
    BY <1>0, <2>1
<1>2. CASE reading /\ ~polling /\ queued <= d
  <2> DEFINE st == Take(p, Stop - position)
             whole == Stop > position /\ tape[Stop] = Advance
             atEnd == ~whole /\ over /\ arrived = Len(tape)
  <2>1. /\ position' = Stop
        /\ allowed' = st.allowed
        /\ pipe' = IF atEnd THEN st.pipe \o <<EndGame, Advance>> ELSE st.pipe
        /\ queued' = IF whole \/ atEnd THEN queued + 1 ELSE queued
        /\ reading' = ~atEnd
        /\ closing' = atEnd
    BY <1>2 DEF Start, StartReading
  <2>2. ~closing /\ ReadsOn(x, p, position, queued, d)
    BY <1>0, <1>2 DEF Piped
  <2>3. /\ Holds(p, x, position) /\ At(x).beat = <<>> /\ Len(At(x).ran) = start + d
        /\ queued = d /\ NoEnd(x, position)
    <3>1. queued # d + 1
      <4>1. queued \in Nat /\ d \in Nat /\ queued <= d
        BY <1>0, <1>2
      <4> HIDE DEF d
      <4> QED
        BY <4>1
    <3> HIDE DEF d
    <3> QED
      BY <2>2, <3>1 DEF ReadsOn
  <2>4. Holds(st.pipe, x, Stop) /\ LetsThrough(Stop, st.allowed)
    BY <1>0, <1>2, <2>3, ReadOn
  <2>5. /\ Stop \in Nat /\ position <= Stop /\ Stop <= arrived
        /\ \/ position < Stop /\ tape[Stop] = Advance /\ NoEnd(position, Stop - 1)
           \/ Stop = arrived /\ NoEnd(position, Stop) /\ ~whole
    BY <1>0, StopsWhere
  <2> DEFINE got == st.pipe
  <2>6. x \in Nat /\ x <= position
    BY <2>3 DEF Holds
  <2>7. Stop \in Int /\ Stop - 1 \in Int
    BY <2>5
  <2>10. ~closing /\ queued = d /\ d + 1 >= d /\ d >= d
    <3>1. d \in Nat
      BY <1>0
    <3> HIDE DEF d
    <3>2. d + 1 >= d /\ d >= d
      BY <3>1
    <3> QED
      BY <2>2, <2>3, <3>2
  <2>11. LetsThrough(position', allowed')
    BY <2>1, <2>4
  <2> HIDE DEF st
  <2>8. CASE whole
    <3>1. NoEnd(x, Stop - 1)
      <4>1. NoEnd(position, Stop - 1)
        BY <2>5, <2>8
      <4> QED
        BY <1>0, <2>3, <2>6, <2>7, <4>1, NoEndJoins
    <3>2. position' = Stop /\ pipe' = got /\ queued' = d + 1 /\ closing' = FALSE
      BY <2>1, <2>3, <2>8
    <3>3. x < Stop /\ tape[Stop] = Advance
      BY <2>5, <2>6, <2>8, <1>0
    <3>4. ReadsOn(x, got, Stop, d + 1, d)
      BY <1>0, <2>3, <2>4, <3>1, <3>3 DEF ReadsOn
    <3>5. Piped(x, pipe', position', queued', d, closing', reading')
      <4> HIDE DEF d, got
      <4>1. Piped(x, got, Stop, d + 1, d, FALSE, reading')
        BY <1>0, <2>5, <3>4 DEF Piped
      <4> QED
        BY <3>2, <4>1
    <3> QED
      BY <1>0, <2>10, <2>11, <3>2, <3>5
  <2>9. CASE ~whole
    <3>1. Stop = arrived /\ NoEnd(position, Stop)
      BY <2>5, <2>9
    <3>2. NoEnd(x, Stop)
      BY <1>0, <2>3, <2>6, <2>7, <3>1, NoEndJoins
    <3>3. CASE over /\ arrived = Len(tape)
      <4>1. Stop = Len(tape) /\ x = Stop
        BY <2>5, <2>6, <3>1, <3>2, <3>3, RecordEnds, <1>0
      <4>2. got = <<>>
        <5>1. got \in Seq(Message) /\ Len(got) = 0
          BY <2>4, <2>5, <4>1 DEF Holds
        <5> HIDE DEF got
        <5> QED
          BY <5>1
      <4>3. pipe' = <<EndGame, Advance>>
        <5>1. pipe' = got \o <<EndGame, Advance>>
          BY <2>1, <2>9, <3>3
        <5> HIDE DEF got
        <5>2. <<EndGame, Advance>> \in Seq({EndGame, Advance})
          OBVIOUS
        <5> QED
          BY <4>2, <5>1, <5>2
      <4>4. queued' = d + 1 /\ closing' = TRUE /\ reading' = FALSE /\ position' = Stop
        BY <2>1, <2>3, <2>9, <3>3
      <4>5. start + (d + 1) = Len(ran) + 1
        <5>1. At(x).ran = ran
          BY <4>1, AtProper DEF GameInv
        <5> QED
          BY <1>0, <2>3, <5>1
      <4>6. AtTheEnd(x, pipe', position', queued', d)
        BY <3>1, <3>3, <4>1, <4>3, <4>4, <4>5 DEF AtTheEnd
      <4>7. Piped(x, pipe', position', queued', d, closing', reading')
        <5> HIDE DEF d
        <5>1. AtTheEnd(x, pipe', Stop, d + 1, d)
          BY <4>4, <4>6
        <5>2. Piped(x, pipe', Stop, d + 1, d, TRUE, FALSE)
          BY <1>0, <2>5, <5>1 DEF Piped
        <5> QED
          BY <4>4, <5>2
      <4> QED
        BY <1>0, <2>10, <2>11, <4>4, <4>7
    <3>4. CASE ~(over /\ arrived = Len(tape))
      <4>1. position' = Stop /\ pipe' = got /\ queued' = d /\ closing' = FALSE
        BY <2>1, <2>3, <2>9, <3>4
      <4>2. ReadsOn(x, got, Stop, d, d)
        BY <2>3, <2>4, <3>2 DEF ReadsOn
      <4>3. Piped(x, pipe', position', queued', d, closing', reading')
        <5> HIDE DEF d, got
        <5>1. Piped(x, got, Stop, d, d, FALSE, reading')
          BY <1>0, <2>5, <4>2 DEF Piped
        <5> QED
          BY <4>1, <5>1
      <4> QED
        BY <1>0, <2>10, <2>11, <4>1, <4>3
    <3> QED
      BY <3>3, <3>4
  <2> QED
    BY <2>8, <2>9
<1> QED
  BY <1>1, <1>2

-----------------------------------------------------------------------------
(* The invariant of the playback.                                            *)

(* The viewer's client, and the beats of the manager.                        *)
ViewerInv ==
    /\ seen = decoded /\ seen \in Anyone
    /\ played \in Seq(Seq(Entry))
    /\ viewer = ViewerGate
    /\ issued \in Nat /\ available \in Nat
    /\ Len(played) <= available /\ available <= issued
    /\ viewerPipe \in Seq(Seq(Message))
    /\ Len(viewerPipe) = issued - Len(played)
    /\ \A n \in 1 .. Len(viewerPipe) : ViewerSays(viewerPipe[n])

(* SkipBeats has not yet set up the playback.                                *)
BeforePlay ==
    /\ start = -1
    /\ replay = Gate(NoSource, Player)
    /\ allowed = FALSE /\ position = 0
    /\ pipe = <<>> /\ queued = 0 /\ drained = 0
    /\ closing = FALSE /\ closed = FALSE
    /\ played = <<>> /\ available = 0

(* What was played is what the game ran, as PlaybackRunsTheGame says it.     *)
MatchesAt(b, beat) ==
    IF start + b \in DOMAIN ran
    THEN IF b = 1 THEN Orders(beat) = Orders(ran[start + b]) ELSE beat = ran[start + b]
    ELSE OnlyEnds(beat)

(* Every beat played is what the game ran.                                   *)
Matches(beats) == \A b \in DOMAIN beats : MatchesAt(b, beats[b])

(* The replay client has played the record up to the place x.                *)
PlaysFrom(x) ==
    /\ start \in Nat /\ start <= Len(ran)
    /\ Piped(x, pipe, position, queued, drained, closing, reading)
    /\ LetsThrough(position, allowed)
    /\ drained <= Len(played)
    /\ closed \in BOOLEAN
    /\ IF closed THEN closing /\ drained = queued /\ replay.valid = {}
       ELSE drained = Len(played) /\ replay = Gate(Alias(At(x)), At(x).live)
    /\ closing \/ available <= queued
    /\ Lives(SubSeq(ran, 1, start) \o played, replay.valid)
    /\ Matches(played)

(* Before the playback, or at some place of the record during it.            *)
ReplayInv == Arrived /\ ViewerInv /\ (BeforePlay \/ \E x : PlaysFrom(x))

(* The playback begins so.                                                   *)
LEMMA ReplayBegins == Init => ReplayInv
<1> SUFFICES ASSUME Init PROVE ReplayInv
  OBVIOUS
<1>1. Arrived
  BY DEF Init, Arrived
<1>2. ViewerInv
  <2>1. <<>> \in Seq(Seq(Entry)) /\ <<>> \in Seq(Seq(Message)) /\ Len(<<>>) = 0
    OBVIOUS
  <2>2. played = <<>> /\ viewerPipe = <<>> /\ seen = NoSource /\ decoded = NoSource /\ viewer = ViewerGate
        /\ issued = 0 /\ available = 0
    BY DEF Init, ViewerGate
  <2>3. Len(viewerPipe) = 0 /\ Len(played) = 0 /\ played \in Seq(Seq(Entry)) /\ viewerPipe \in Seq(Seq(Message))
    BY <2>1, <2>2
  <2>4. \A n \in 1 .. Len(viewerPipe) : FALSE
    BY <2>3
  <2>5. seen \in Anyone
    BY <2>2 DEF Anyone
  <2>6. seen = decoded /\ viewer = ViewerGate /\ issued = 0 /\ available = 0
    BY <2>2
  <2> HIDE DEF ViewerGate, Message, Entry, Anyone
  <2> QED
    BY <2>3, <2>4, <2>5, <2>6 DEF ViewerInv
<1>3. BeforePlay
  BY DEF Init, BeforePlay
<1> QED
  BY <1>1, <1>2, <1>3 DEF ReplayInv

(* What the game ran so far.                                                 *)
LEMMA RanSoFar ==
    ASSUME GameInv
    PROVE  /\ ran \in Seq(Seq(Entry)) /\ Len(ran) \in Nat
           /\ \A b \in DOMAIN ran : Own(ran[b])
           /\ At(Len(tape)).ran = ran
           /\ \A x \in 0 .. Len(tape) :
                 /\ At(x).ran \in Seq(Seq(Entry))
                 /\ Len(At(x).ran) <= Len(ran)
                 /\ \A b \in 1 .. Len(At(x).ran) : ran[b] = At(x).ran[b]
<1>1. Len(tape) \in 0 .. Len(tape) /\ Len(tape) \in Nat /\ tape \in Seq(Message) /\ Sound(tape)
  BY AtProper DEF GameInv
<1>2. At(Len(tape)).ran = ran
  BY AtProper DEF GameInv
<1>3. \A x \in 0 .. Len(tape) : At(x) \in Reading /\ At(x).ran \in Seq(Seq(Entry)) /\ Proper(At(x))
  BY AtProper DEF Reading
<1>4. \A b \in DOMAIN ran : Own(ran[b])
  BY <1>1, <1>2, <1>3 DEF Proper
<1>5. ASSUME NEW x \in 0 .. Len(tape)
      PROVE  /\ Len(At(x).ran) <= Len(ran)
             /\ \A b \in 1 .. Len(At(x).ran) : ran[b] = At(x).ran[b]
  <2>1. Len(tape) \in x .. Len(tape)
    BY <1>1
  <2> QED
    BY <1>1, <1>2, <2>1, CourseGrows DEF At
<1>6. ran \in Seq(Seq(Entry)) /\ Len(ran) \in Nat
  BY <1>1, <1>2, <1>3
<1> QED
  BY <1>2, <1>3, <1>4, <1>5, <1>6

-----------------------------------------------------------------------------
(* The game goes on while it is played.                                      *)

(* The playback's part of the state.                                         *)
replayVars == <<arrived, start, readVars, credited, available, viewVars, runVars>>

(* One more beat of the game leaves a playback at its place.                 *)
LEMMA GameGoesOn ==
    ASSUME GameInv, GameInv', Arrived, ViewerInv, NEW x, PlaysFrom(x), ~over,
           Len(tape) <= Len(tape'), \A n \in 1 .. Len(tape) : tape'[n] = tape[n],
           NEW beat, ran' = Append(ran, beat),
           UNCHANGED replayVars
    PROVE  PlaysFrom(x)'
<1>0. /\ tape \in Seq(Message) /\ tape' \in Seq(Message) /\ Len(tape) \in Nat /\ Len(tape') \in Nat
      /\ arrived \in Nat /\ arrived <= Len(tape)
  BY DEF GameInv, Arrived
<1>1. /\ start' = start /\ position' = position /\ allowed' = allowed /\ reading' = reading
      /\ pipe' = pipe /\ queued' = queued /\ drained' = drained /\ closing' = closing
      /\ closed' = closed /\ available' = available /\ replay' = replay /\ played' = played
      /\ arrived' = arrived
  BY DEF replayVars, readVars, viewVars, runVars
<1>2. \A n \in 0 .. Len(tape) : Course(tape')[n] = Course(tape)[n]
  BY <1>0, CoursePrefix
<1>3. /\ position \in Nat /\ position <= arrived /\ queued \in Nat /\ drained \in Nat
      /\ closing = FALSE /\ closed = FALSE /\ start \in Nat
      /\ ReadsOn(x, pipe, position, queued, drained)
  <2>1. ~closing
    BY DEF PlaysFrom, Piped, AtTheEnd
  <2> QED
    BY <2>1 DEF PlaysFrom, Piped
<1>4. /\ Holds(pipe, x, position) /\ At(x).beat = <<>> /\ Len(At(x).ran) = start + drained
      /\ \/ queued = drained /\ NoEnd(x, position)
         \/ queued = drained + 1 /\ x < position /\ tape[position] = Advance /\ NoEnd(x, position - 1)
  BY <1>3 DEF ReadsOn
<1>5. x \in Nat /\ x <= position /\ x \in 0 .. Len(tape) /\ position \in 0 .. Len(tape)
  BY <1>0, <1>3, <1>4 DEF Holds
<1>6. Course(tape')[x] = Course(tape)[x] /\ Course(tape')[position] = Course(tape)[position]
  BY <1>2, <1>5
<1>7. Holds(pipe, x, position)'
  <2>1. /\ pipe \in Seq(Message) /\ Len(pipe) = position - x
        /\ \A k \in 1 .. Len(pipe) : pipe[k] = tape[x + k]
    BY <1>4 DEF Holds
  <2>2. \A k \in 1 .. Len(pipe) : x + k \in 1 .. Len(tape)
    BY <1>0, <1>3, <1>5, <2>1
  <2>3. \A k \in 1 .. Len(pipe) : pipe[k] = tape'[x + k]
    BY <2>1, <2>2
  <2> QED
    BY <1>1, <1>3, <1>5, <2>1, <2>3 DEF Holds, Message, Op, Anyone, Player
<1>8. /\ NoEnd(x, position) => NoEnd(x, position)'
      /\ NoEnd(x, position - 1) => NoEnd(x, position - 1)'
  <2>1. /\ \A k \in x + 1 .. position : k \in 1 .. Len(tape)
        /\ \A k \in x + 1 .. position - 1 : k \in 1 .. Len(tape)
    BY <1>0, <1>5
  <2> QED
    BY <1>1, <2>1 DEF NoEnd, Advance
<1>9. x < position => tape'[position] = tape[position]
  BY <1>0, <1>5
<1>10. At(x)' = At(x) /\ At(position)' = At(position)
  BY <1>1, <1>6 DEF At
<1>11. ReadsOn(x, pipe, position, queued, drained)'
  <2>1. At(x)'.beat = <<>> /\ Len(At(x)'.ran) = start' + drained'
    BY <1>1, <1>4, <1>10
  <2>2. \/ queued' = drained' /\ NoEnd(x, position)'
        \/ queued' = drained' + 1 /\ x < position' /\ tape'[position'] = Advance /\ NoEnd(x, position - 1)'
    BY <1>1, <1>4, <1>8, <1>9
  <2> QED
    BY <1>7, <2>1, <2>2 DEF ReadsOn, Advance
<1>12. Piped(x, pipe, position, queued, drained, closing, reading)'
  <2>1. /\ position' \in Nat /\ position' <= arrived' /\ queued' \in Nat /\ drained' \in Nat
        /\ closing' = FALSE
    BY <1>1, <1>3
  <2> QED
    BY <1>11, <2>1 DEF Piped
<1>13. LetsThrough(position, allowed)'
  BY <1>1, <1>10 DEF LetsThrough, PlaysFrom
<1>14. /\ ran \in Seq(Seq(Entry)) /\ Len(ran) \in Nat /\ start + drained <= Len(ran)
       /\ ran' \in Seq(Seq(Entry))
  <2>1. ran' \in Seq(Seq(Entry))
    <3>1. End(tape') \in Reading /\ End(tape').ran = ran'
      BY <1>0, SoundEnd DEF GameInv
    <3> QED
      BY <3>1 DEF Reading
  <2> QED
    BY <1>4, <1>5, <2>1, RanSoFar
<1>15. Len(ran') = Len(ran) + 1 /\ \A b \in 1 .. Len(ran) : ran'[b] = ran[b]
  BY <1>14
<1>16. SubSeq(ran', 1, start) = SubSeq(ran, 1, start)
  BY <1>3, <1>14, <1>15
<1>17. played \in Seq(Seq(Entry)) /\ drained = Len(played)
  BY <1>3 DEF PlaysFrom, ViewerInv
<1>18. Matches(played)'
  <2>1. ASSUME NEW b \in DOMAIN played
        PROVE  start + b \in DOMAIN ran /\ start + b \in DOMAIN ran' /\ ran'[start + b] = ran[start + b]
    <3>1. /\ DOMAIN ran = 1 .. Len(ran) /\ DOMAIN ran' = 1 .. Len(ran) + 1
          /\ DOMAIN played = 1 .. drained
      BY <1>14, <1>15, <1>17
    <3>2. start + b \in 1 .. Len(ran)
      <4>1. start \in Nat /\ drained \in Nat /\ Len(ran) \in Nat /\ start + drained <= Len(ran) /\ b \in 1 .. drained
        BY <1>3, <1>14, <3>1
      <4> QED
        BY <4>1
    <3>3. start + b \in 1 .. Len(ran) + 1
      BY <1>14, <3>2
    <3> QED
      BY <1>15, <3>1, <3>2, <3>3
  <2>2. Matches(played)
    BY DEF PlaysFrom
  <2>3. ASSUME NEW b \in DOMAIN played
        PROVE  IF b = 1 THEN Orders(played[b]) = Orders(ran'[start + b]) ELSE played[b] = ran'[start + b]
    BY <2>1, <2>2 DEF Matches, MatchesAt
  <2> QED
    BY <1>1, <2>1, <2>3 DEF Matches, MatchesAt
<1>19. /\ start \in Nat /\ start <= Len(ran') /\ replay = Gate(Alias(At(x)), At(x).live)
       /\ available <= queued /\ Lives(SubSeq(ran, 1, start) \o played, replay.valid)
  BY <1>3, <1>14, <1>15 DEF PlaysFrom
<1>20. Alias(At(x))' = Alias(At(x))
  BY <1>10 DEF Alias
<1>21. Lives(SubSeq(ran, 1, start) \o played, replay.valid)'
  BY <1>1, <1>16, <1>19
<1>22. replay' = Gate(Alias(At(x)'), At(x)'.live)
  BY <1>1, <1>10, <1>19
<1> QED
  BY <1>1, <1>3, <1>12, <1>13, <1>17, <1>18, <1>19, <1>21, <1>22 DEF PlaysFrom, Gate, Alias

(* What does not write the record keeps the game's invariant.                *)
LEMMA GameStays ==
    ASSUME GameInv, UNCHANGED <<gates, last, current, ran, tape>>, over' \in BOOLEAN
    PROVE  GameInv'
<1>1. gates' = gates /\ last' = last /\ current' = current /\ ran' = ran /\ tape' = tape
  OBVIOUS
<1> QED
  BY <1>1 DEF GameInv, GateOf, Gate, Alive

(* What does not touch the viewer's client keeps its invariant.              *)
LEMMA ViewerStays ==
    ASSUME ViewerInv, UNCHANGED <<available, viewVars, seen, decoded, played>>
    PROVE  ViewerInv'
<1>1. /\ available' = available /\ viewer' = viewer /\ viewerPipe' = viewerPipe /\ issued' = issued
      /\ seen' = seen /\ decoded' = decoded /\ played' = played
  BY DEF viewVars
<1> QED
  BY <1>1 DEF ViewerInv, ViewerGate, Gate, Anyone, Player, Entry, Message, Op

(* More of the record to read, or its end to see, change nothing yet.        *)
LEMMA ReaderWaits ==
    ASSUME NEW x, PlaysFrom(x), ~closing, Arrived,
           tape' = tape, ran' = ran, start' = start, arrived' \in Nat, arrived <= arrived',
           UNCHANGED <<readVars, available, runVars>>
    PROVE  PlaysFrom(x)'
<1>1. /\ position' = position /\ allowed' = allowed /\ reading' = reading
      /\ pipe' = pipe /\ queued' = queued /\ drained' = drained /\ closing' = closing
      /\ closed' = closed /\ available' = available /\ replay' = replay /\ played' = played
  BY DEF readVars, runVars
<1>2. /\ position \in Nat /\ position <= arrived /\ queued \in Nat /\ drained \in Nat
      /\ closing = FALSE /\ ReadsOn(x, pipe, position, queued, drained)
  BY DEF PlaysFrom, Piped
<1>3. At(x)' = At(x) /\ At(position)' = At(position)
  BY <1>1 DEF At
<1>4. ReadsOn(x, pipe, position, queued, drained)'
  <2>1. Holds(pipe, x, position)'
    BY <1>1, <1>2 DEF ReadsOn, Holds, Message, Op, Anyone, Player
  <2>2. NoEnd(x, position)' = NoEnd(x, position) /\ NoEnd(x, position - 1)' = NoEnd(x, position - 1)
    BY <1>1 DEF NoEnd, Advance
  <2> QED
    BY <1>1, <1>2, <1>3, <2>1, <2>2 DEF ReadsOn, Advance
<1>5. position' <= arrived'
  BY <1>1, <1>2 DEF Arrived
<1>6. Piped(x, pipe, position, queued, drained, closing, reading)'
  <2>1. position' \in Nat /\ queued' \in Nat /\ drained' \in Nat /\ closing' = FALSE
    BY <1>1, <1>2
  <2> QED
    BY <1>4, <1>5, <2>1 DEF Piped
<1>7. LetsThrough(position, allowed)'
  BY <1>1, <1>3 DEF LetsThrough, PlaysFrom
<1>8. Matches(played)'
  BY <1>1 DEF PlaysFrom, Matches, MatchesAt, OnlyEnds
<1>9. Lives(SubSeq(ran, 1, start) \o played, replay.valid)'
  <2>1. Lives(SubSeq(ran, 1, start) \o played, replay.valid)
    BY DEF PlaysFrom
  <2> QED
    BY <1>1, <2>1
<1>10. replay' = Gate(Alias(At(x)'), At(x)'.live)
  BY <1>1, <1>2, <1>3 DEF PlaysFrom
<1>11. /\ start' \in Nat /\ start' <= Len(ran') /\ drained' <= Len(played') /\ drained' = Len(played')
       /\ closed' = FALSE /\ available' <= queued'
  BY <1>1, <1>2 DEF PlaysFrom
<1> QED
  BY <1>1, <1>6, <1>7, <1>8, <1>9, <1>10, <1>11 DEF PlaysFrom, Gate, Alias

(* What does not touch the playback leaves it not set up.                    *)
LEMMA BeforeStays ==
    ASSUME BeforePlay, UNCHANGED <<start, readVars, available, runVars>>
    PROVE  BeforePlay'
<1>1. /\ position' = position /\ allowed' = allowed /\ start' = start
      /\ pipe' = pipe /\ queued' = queued /\ drained' = drained /\ closing' = closing
      /\ closed' = closed /\ available' = available /\ replay' = replay /\ played' = played
  BY DEF readVars, runVars
<1> QED
  BY <1>1 DEF BeforePlay, Gate, Player

(* A beat of the game, its end, and an arrival keep the invariant.           *)
LEMMA GameKeepsReplay ==
    ASSUME GameInv, ReplayInv,
           \/ \E kinds \in [Player -> Kind], leavers \in SUBSET Player :
                 GameBeat([p \in Player |-> Segment(kinds[p], p)], leavers)
           \/ GameOver
           \/ \E n \in Chunk : Arrive(n)
    PROVE  GameInv' /\ ReplayInv'
<1>0. Arrived /\ ViewerInv /\ Len(tape) \in Nat /\ arrived \in Nat /\ arrived <= Len(tape)
  BY AtProper DEF ReplayInv, Arrived
<1>1. ASSUME NEW kinds \in [Player -> Kind], NEW leavers \in SUBSET Player,
             GameBeat([p \in Player |-> Segment(kinds[p], p)], leavers)
      PROVE  GameInv' /\ ReplayInv'
  <2>1. UNCHANGED replayVars
    BY <1>1 DEF GameBeat, replayVars
  <2>2. UNCHANGED <<start, readVars, available, viewVars, runVars, arrived, seen, decoded, played>>
    BY <2>1 DEF replayVars, runVars
  <2>3. PICK beat : ran' = Append(ran, beat)
    BY <1>1, GameBeatKeeps
  <2>4. GameInv' /\ ~over /\ Len(tape) <= Len(tape') /\ \A n \in 1 .. Len(tape) : tape'[n] = tape[n]
    BY <1>1, GameBeatKeeps
  <2>5. Arrived'
    <3>1. Len(tape') \in Nat
      BY <2>4 DEF GameInv
    <3>2. arrived' = arrived
      BY <2>2
    <3> QED
      BY <1>0, <2>4, <3>1, <3>2 DEF Arrived
  <2>6. ViewerInv'
    BY <1>0, <2>2, ViewerStays
  <2>7. BeforePlay => BeforePlay'
    BY <2>2, BeforeStays
  <2>8. ASSUME NEW x, PlaysFrom(x)
        PROVE  PlaysFrom(x)'
    BY <1>0, <2>1, <2>3, <2>4, <2>8, GameGoesOn
  <2> QED
    BY <2>4, <2>5, <2>6, <2>7, <2>8 DEF ReplayInv
<1>2. ASSUME GameOver
      PROVE  GameInv' /\ ReplayInv'
  <2>1. /\ UNCHANGED <<start, readVars, available, viewVars, runVars, arrived, seen, decoded, played>>
        /\ UNCHANGED <<gates, last, current, ran, tape>>
        /\ ~over /\ over' = TRUE
    BY <1>2 DEF GameOver, runVars
  <2>2. GameInv'
    BY <2>1, GameStays
  <2>3. Arrived' /\ ViewerInv'
    BY <1>0, <2>1, ViewerStays DEF Arrived
  <2>4. BeforePlay => BeforePlay'
    BY <2>1, BeforeStays
  <2>5. ASSUME NEW x, PlaysFrom(x)
        PROVE  PlaysFrom(x)'
    <3>1. ~closing
      BY <2>1, <2>5 DEF PlaysFrom, Piped, AtTheEnd
    <3>2. /\ tape' = tape /\ ran' = ran /\ start' = start /\ arrived' \in Nat /\ arrived <= arrived'
          /\ UNCHANGED <<readVars, available, runVars>>
      BY <1>0, <2>1
    <3> QED
      BY <1>0, <2>5, <3>1, <3>2, ReaderWaits
  <2> QED
    BY <2>2, <2>3, <2>4, <2>5 DEF ReplayInv
<1>3. ASSUME NEW n \in Chunk, Arrive(n)
      PROVE  GameInv' /\ ReplayInv'
  <2>1. /\ UNCHANGED <<start, readVars, available, viewVars, runVars, seen, decoded, played>>
        /\ UNCHANGED <<gates, last, current, ran, tape, over>>
        /\ arrived < Len(tape)
        /\ arrived' = IF arrived + n <= Len(tape) THEN arrived + n ELSE Len(tape)
    BY <1>3 DEF Arrive, runVars, gameVars
  <2>2. GameInv'
    <3>1. over' \in BOOLEAN
      BY <2>1 DEF GameInv
    <3> QED
      BY <2>1, <3>1, GameStays
  <2>3. arrived' \in Nat /\ arrived <= arrived' /\ arrived' <= Len(tape)
    <3>1. n \in Nat
      BY PlaybackAssumption
    <3> QED
      BY <1>0, <2>1, <3>1
  <2>4. Arrived' /\ ViewerInv'
    BY <1>0, <2>1, <2>3, ViewerStays DEF Arrived
  <2>5. BeforePlay => BeforePlay'
    BY <2>1, BeforeStays
  <2>6. ASSUME NEW x, PlaysFrom(x)
        PROVE  PlaysFrom(x)'
    <3>1. ~closing
      BY <2>1, <2>6, <1>0 DEF PlaysFrom, Piped, AtTheEnd
    <3>2. /\ tape' = tape /\ ran' = ran /\ start' = start
          /\ UNCHANGED <<readVars, available, runVars>>
      BY <2>1
    <3> QED
      BY <1>0, <2>3, <2>6, <3>1, <3>2, ReaderWaits
  <2> QED
    BY <2>2, <2>4, <2>5, <2>6 DEF ReplayInv
<1> QED
  BY <1>1, <1>2, <1>3

-----------------------------------------------------------------------------
(* The session is set up at a keyframe, or at the beginning.                 *)

(* A beat without anything in it can be left out.                            *)
LEMMA LivesBefore ==
    ASSUME NEW beats \in Seq(Seq(Entry)), NEW live, Lives(Append(beats, <<>>), live)
    PROVE  Lives(beats, live)
<1> DEFINE more == Append(beats, <<>>)
<1>1. \A b \in DOMAIN beats : b \in DOMAIN more /\ more[b] = beats[b]
  OBVIOUS
<1>2. Lives(more, live)
  OBVIOUS
<1> HIDE DEF more
<1> QED
  BY <1>1, <1>2 DEF Lives, EndsOnce

(* SkipBeats keeps the invariant: it starts where a beat has ended.          *)
LEMMA SetUpKeepsReplay ==
    ASSUME GameInv, ReplayInv, NEW n, SetUp(n)
    PROVE  GameInv' /\ ReplayInv'
<1>0. /\ Arrived /\ ViewerInv /\ Len(tape) \in Nat /\ arrived \in Nat /\ arrived <= Len(tape)
      /\ start = -1
  BY AtProper DEF ReplayInv, Arrived, SetUp
<1>1. BeforePlay
  <2>1. \A x : ~PlaysFrom(x)
    BY <1>0 DEF PlaysFrom
  <2> QED
    BY <2>1 DEF ReplayInv
<1>2. PICK k \in {0} \cup BeatEnds :
        /\ Advances(k) = n
        /\ replay' = Gate(Skip(k).id, Skip(k).valid)
        /\ allowed' = Skip(k).allowed
        /\ position' = k
  BY DEF SetUp
<1>3. /\ gates' = gates /\ last' = last /\ current' = current /\ ran' = ran /\ tape' = tape /\ over' = over
      /\ start' = n /\ arrived' = arrived /\ reading' = reading
      /\ pipe' = <<>> /\ queued' = 0 /\ closing' = FALSE /\ available' = 0
      /\ drained' = 0 /\ closed' = FALSE /\ played' = <<>> /\ played = <<>>
      /\ UNCHANGED <<available, viewVars, seen, decoded, played>>
  BY <1>1 DEF SetUp, gameVars, viewVars, BeforePlay
<1>4. GameInv'
  <2>1. over' \in BOOLEAN
    BY <1>3 DEF GameInv
  <2> QED
    BY <1>3, <2>1, GameStays
<1>5. Arrived' /\ ViewerInv'
  BY <1>0, <1>3, ViewerStays DEF Arrived
<1>6. k \in 0 .. Len(tape) /\ k \in Nat /\ k <= arrived
  BY <1>0, <1>2 DEF BeatEnds
<1>7. At(k).beat = <<>> /\ At(k) \in Reading /\ Proper(At(k))
  <2>1. CASE k = 0
    BY <2>1, <1>6, AtProper DEF Outset
  <2>2. CASE k \in BeatEnds
    <3>1. k \in 1 .. Len(tape) /\ tape[k] = Advance
      BY <1>0, <2>2 DEF BeatEnds
    <3> QED
      BY <1>6, <3>1, AtStep, AtProper
  <2> QED
    BY <1>2, <2>1, <2>2
<1>8. n = Len(At(k).ran)
  <2>1. {i \in BeatEnds : i <= k} = EndsThrough(k)
    BY <1>0, <1>6 DEF BeatEnds, EndsThrough
  <2> QED
    BY <1>2, <1>6, <2>1, BeatsCounted DEF Advances
<1>9. /\ ran \in Seq(Seq(Entry)) /\ Len(ran) \in Nat
      /\ At(k).ran \in Seq(Seq(Entry)) /\ n <= Len(ran) /\ n \in Nat
      /\ \A b \in 1 .. n : ran[b] = At(k).ran[b]
  BY <1>6, <1>8, RanSoFar
<1>10. SubSeq(ran, 1, n) = At(k).ran
  <2> DEFINE before == At(k).ran
  <2> HIDE DEF before
  <2>1. before \in Seq(Seq(Entry)) /\ n = Len(before) /\ \A b \in 1 .. n : ran[b] = before[b]
    BY <1>8, <1>9 DEF before
  <2> QED
    BY <1>9, <2>1 DEF before
<1>11. Lives(SubSeq(ran, 1, n) \o <<>>, At(k).live)
  <2> DEFINE before == At(k).ran
  <2>1. Lives(before, At(k).live)
    BY <1>7, <1>9, LivesBefore DEF Proper
  <2> HIDE DEF before
  <2>2. before \o <<>> = before
    BY <1>9 DEF before
  <2> QED
    BY <1>10, <2>1, <2>2 DEF before
<1>12. /\ Skip(k).id = Alias(At(k)) /\ Skip(k).valid = At(k).live
       /\ Skip(k).allowed \in BOOLEAN /\ (At(k).at # NoSource => Skip(k).allowed)
  BY <1>1, <1>6, SkipReads DEF BeforePlay
<1>13. At(k)' = At(k)
  BY <1>3 DEF At
<1>14. PlaysFrom(k)'
  <2>1. LetsThrough(position, allowed)'
    <3>1. At(position)' = At(k)
      BY <1>2, <1>3 DEF At
    <3>2. allowed' \in BOOLEAN /\ (At(k).at # NoSource => allowed')
      BY <1>2, <1>12
    <3> QED
      BY <3>1, <3>2 DEF LetsThrough
  <2>2. Holds(pipe, k, position)'
    <3>1. <<>> \in Seq(Message) /\ Len(<<>>) = 0 /\ k - k = 0
      BY <1>6
    <3>2. \A i \in 1 .. Len(<<>>) : FALSE
      OBVIOUS
    <3> QED
      BY <1>2, <1>3, <1>6, <3>1, <3>2 DEF Holds, Message, Op, Anyone, Player
  <2>3. NoEnd(k, position)'
    BY <1>2, <1>6 DEF NoEnd
  <2>4. ReadsOn(k, pipe, position, queued, drained)'
    <3>1. At(k)'.beat = <<>> /\ Len(At(k)'.ran) = start' + drained'
      BY <1>3, <1>7, <1>8, <1>9, <1>13
    <3>2. queued' = drained'
      BY <1>3
    <3> QED
      BY <2>2, <2>3, <3>1, <3>2 DEF ReadsOn
  <2>5. Piped(k, pipe, position, queued, drained, closing, reading)'
    <3>1. position' \in Nat /\ position' <= arrived' /\ queued' \in Nat /\ drained' \in Nat /\ closing' = FALSE
      BY <1>2, <1>3, <1>6
    <3> QED
      BY <2>4, <3>1 DEF Piped
  <2>6. Lives(SubSeq(ran, 1, start) \o played, replay.valid)'
    <3>1. replay'.valid = At(k).live
      BY <1>2, <1>12, GateFields
    <3> QED
      BY <1>3, <1>11, <3>1
  <2>7. Matches(played)'
    <3>1. \A b \in DOMAIN <<>> : FALSE
      OBVIOUS
    <3>2. \A b \in DOMAIN played' : FALSE
      BY <1>3, <3>1
    <3> QED
      BY <3>2 DEF Matches, MatchesAt
  <2>8. replay' = Gate(Alias(At(k)'), At(k)'.live)
    BY <1>2, <1>12, <1>13
  <2>9. /\ start' \in Nat /\ start' <= Len(ran') /\ drained' <= Len(played') /\ drained' = Len(played')
        /\ closed' = FALSE /\ available' <= queued'
    BY <1>3, <1>9
  <2> QED
    BY <2>1, <2>5, <2>6, <2>7, <2>8, <2>9 DEF PlaysFrom, Gate, Alias
<1> QED
  BY <1>4, <1>5, <1>14 DEF ReplayInv

-----------------------------------------------------------------------------
(* The threads of the playback.                                              *)

(* A step that only reads on.                                                *)
LEMMA ReadingOn ==
    ASSUME GameInv, Arrived, ViewerInv, NEW x, PlaysFrom(x), Start(pipe),
           UNCHANGED <<gameVars, arrived, start, runVars>>,
           available' \in Nat,
           closing \/ available' <= queued
    PROVE  PlaysFrom(x)'
<1>1. /\ ran' = ran /\ tape' = tape /\ over' = over /\ arrived' = arrived /\ start' = start
      /\ replay' = replay /\ drained' = drained /\ closed' = closed /\ played' = played
  BY DEF gameVars, runVars
<1>2. /\ start \in Nat /\ over \in BOOLEAN
      /\ Piped(x, pipe, position, queued, drained', closing, reading)
      /\ LetsThrough(position, allowed)
  BY <1>1 DEF PlaysFrom, GameInv
<1>3. reading => replay'.valid = At(x).live
  <2>1. reading => ~closing /\ ~closed
    BY DEF PlaysFrom, Piped
  <2>2. ~closed => replay.valid = At(x).live
    BY GateFields DEF PlaysFrom
  <2> QED
    BY <1>1, <2>1, <2>2
<1>4. /\ Piped(x, pipe', position', queued', drained', closing', reading')
      /\ LetsThrough(position', allowed')
      /\ queued' >= queued
      /\ closing => closing' /\ queued' = queued
  <2>1. start \in Int
    BY <1>2
  <2> QED
    BY <1>2, <1>3, <2>1, StartKeepsPiped
<1>5. /\ Piped(x, pipe, position, queued, drained, closing, reading)'
      /\ LetsThrough(position, allowed)'
  <2>1. At(x)' = At(x) /\ At(position)' = Course(tape)[position']
    BY <1>1 DEF At
  <2>2. Holds(pipe, x, position)' = Holds(pipe', x, position')
    BY <1>1 DEF Holds, Message, Op, Anyone, Player
  <2>3. NoEnd(x, position)' = NoEnd(x, position') /\ NoEnd(x, position - 1)' = NoEnd(x, position' - 1)
    BY <1>1 DEF NoEnd, Advance
  <2>4. ReadsOn(x, pipe, position, queued, drained)' = ReadsOn(x, pipe', position', queued', drained')
    BY <1>1, <2>1, <2>2, <2>3 DEF ReadsOn, Advance
  <2>5. AtTheEnd(x, pipe, position, queued, drained)' = AtTheEnd(x, pipe', position', queued', drained')
    BY <1>1 DEF AtTheEnd, EndGame, Advance
  <2>6. Piped(x, pipe, position, queued, drained, closing, reading)'
    BY <1>1, <1>4, <2>4, <2>5 DEF Piped
  <2>7. LetsThrough(position, allowed)'
    BY <1>1, <1>4, <2>1 DEF LetsThrough, At
  <2> QED
    BY <2>6, <2>7
<1>6. closing' \/ available' <= queued'
  <2>1. queued \in Nat /\ queued' \in Nat
    BY <1>2, <1>4 DEF Piped
  <2> QED
    BY <1>4, <2>1
<1>7. Matches(played)'
  BY <1>1 DEF PlaysFrom, Matches, MatchesAt, OnlyEnds
<1>8. Lives(SubSeq(ran, 1, start) \o played, replay.valid)'
  <2>1. Lives(SubSeq(ran, 1, start) \o played, replay.valid)
    BY DEF PlaysFrom
  <2> QED
    BY <1>1, <2>1
<1>9. At(x)' = At(x)
  BY <1>1 DEF At
<1>10. /\ start' \in Nat /\ start' <= Len(ran') /\ drained' <= Len(played') /\ closed' \in BOOLEAN
       /\ IF closed' THEN closing' /\ drained' = queued' /\ replay'.valid = {}
          ELSE drained' = Len(played') /\ replay' = Gate(Alias(At(x)'), At(x)'.live)
  BY <1>1, <1>4, <1>9 DEF PlaysFrom
<1> QED
  BY <1>5, <1>6, <1>7, <1>8, <1>10 DEF PlaysFrom, Gate, Alias

(* A viewer's beat holds what a viewer sends.                                *)
LEMMA ViewerSegment ==
    ASSUME NEW kind \in Kind, NEW opening \in {<<>>, <<Source(NoSource)>>}
    PROVE  /\ opening \o Segment(kind, NoSource) \in Seq(Message)
           /\ ViewerSays(opening \o Segment(kind, NoSource))
<1> DEFINE said == {Source(NoSource), Order(NoSource), Checksum(NoSource)}
<1>1. said \subseteq Message
  BY DEF Source, Order, Checksum, Message, Op, Anyone
<1>2. kind \in {"nothing", "order", "report"}
  BY PlaybackAssumption
<1>8. Source(NoSource) \in said /\ Order(NoSource) \in said /\ Checksum(NoSource) \in said
  OBVIOUS
<1>3. Segment(kind, NoSource) \in Seq(said)
  <2> HIDE DEF said
  <2> QED
    BY <1>2, <1>8 DEF Segment
<1>4. opening \in Seq(said)
  <2> HIDE DEF said
  <2>1. <<>> \in Seq(said) /\ <<Source(NoSource)>> \in Seq(said)
    BY <1>8
  <2> QED
    BY <2>1
<1> DEFINE segment == opening \o Segment(kind, NoSource)
<1>5. segment \in Seq(said)
  <2> HIDE DEF said
  <2> QED
    BY <1>3, <1>4
<1> HIDE DEF segment
<1>6. segment \in Seq(Message)
  <2> HIDE DEF said
  <2> QED
    BY <1>1, <1>5
<1>7. Len(segment) \in Nat /\ \A n \in 1 .. Len(segment) : segment[n] \in said
  <2> HIDE DEF said
  <2> QED
    BY <1>5
<1> QED
  BY <1>6, <1>7 DEF segment, ViewerSays

(* A playback that was set up is at a place of the record.                   *)
LEMMA PlayingOn ==
    ASSUME ReplayInv, start # -1
    PROVE  Arrived /\ ViewerInv /\ \E x : PlaysFrom(x)
BY DEF ReplayInv, BeforePlay

(* The viewer's advance and the credit it gives keep the invariant.          *)
LEMMA IssueKeepsReplay ==
    ASSUME GameInv, ReplayInv, NEW kind \in Kind, Issue(Segment(kind, NoSource))
    PROVE  GameInv' /\ ReplayInv'
<1> DEFINE opening == IF issued = 0 THEN <<Source(NoSource)>> ELSE <<>>
           segment == opening \o Segment(kind, NoSource)
<1>1. /\ start # -1
      /\ issued' = issued + 1
      /\ viewerPipe' = Append(viewerPipe, segment)
      /\ UNCHANGED <<gameVars, arrived, start, available, viewer, runVars>>
      /\ Start(pipe)
  BY DEF Issue
<1>2. Arrived /\ ViewerInv
  BY <1>1, PlayingOn
<1>3. PICK x : PlaysFrom(x)
  BY <1>1, PlayingOn
<1>4. segment \in Seq(Message) /\ ViewerSays(segment)
  BY ViewerSegment
<1> HIDE DEF segment
<1>5. gates' = gates /\ last' = last /\ current' = current /\ ran' = ran /\ tape' = tape /\ over' = over
      /\ arrived' = arrived /\ available' = available /\ viewer' = viewer
      /\ seen' = seen /\ decoded' = decoded /\ played' = played
  BY <1>1 DEF gameVars, runVars
<1>6. GameInv'
  <2>1. over' \in BOOLEAN
    BY <1>5 DEF GameInv
  <2> QED
    BY <1>5, <2>1, GameStays
<1>7. Arrived'
  BY <1>2, <1>5 DEF Arrived
<1>8. ViewerInv'
  <2>1. /\ viewerPipe \in Seq(Seq(Message)) /\ issued \in Nat /\ available \in Nat
        /\ Len(played) <= available /\ available <= issued
        /\ Len(viewerPipe) = issued - Len(played)
        /\ \A n \in 1 .. Len(viewerPipe) : ViewerSays(viewerPipe[n])
        /\ Len(played) \in Nat
    BY <1>2 DEF ViewerInv
  <2>2. viewerPipe' \in Seq(Seq(Message)) /\ Len(viewerPipe') = Len(viewerPipe) + 1
    BY <1>1, <1>4, <2>1
  <2>3. \A n \in 1 .. Len(viewerPipe') : ViewerSays(viewerPipe'[n])
    <3>1. \A n \in 1 .. Len(viewerPipe') : (n \in 1 .. Len(viewerPipe) /\ viewerPipe'[n] = viewerPipe[n]) \/ viewerPipe'[n] = segment
      BY <1>1, <1>4, <2>1, <2>2
    <3> QED
      BY <1>4, <2>1, <3>1
  <2>4. /\ issued' \in Nat /\ available' <= issued' /\ Len(played') <= available'
        /\ Len(viewerPipe') = issued' - Len(played')
    BY <1>1, <1>5, <2>1, <2>2
  <2>5. seen' = decoded' /\ seen' \in Anyone /\ played' \in Seq(Seq(Entry)) /\ viewer' = ViewerGate /\ available' \in Nat
    BY <1>2, <1>5 DEF ViewerInv
  <2> QED
    BY <2>2, <2>3, <2>4, <2>5 DEF ViewerInv, ViewerGate, Gate, Anyone, Player, Entry, Message, Op, ViewerSays, Source, Order, Checksum
<1>9. PlaysFrom(x)'
  <2>1. available' \in Nat /\ (closing \/ available' <= queued)
    BY <1>2, <1>3, <1>5 DEF ViewerInv, PlaysFrom
  <2> QED
    BY <1>1, <1>2, <1>3, <2>1, ReadingOn
<1> QED
  BY <1>6, <1>7, <1>8, <1>9 DEF ReplayInv

(* Making another beat available keeps the invariant.                        *)
LEMMA DoBeatKeepsReplay ==
    ASSUME GameInv, ReplayInv, DoBeat
    PROVE  GameInv' /\ ReplayInv'
<1>1. /\ start # -1
      /\ UNCHANGED <<gameVars, arrived, start, viewVars, runVars>>
      /\ Start(pipe)
      /\ available' \in available .. issued
      /\ \A b \in available + 1 .. available' : Ready(b)
  BY DEF DoBeat
<1>2. Arrived /\ ViewerInv
  BY <1>1, PlayingOn
<1>3. PICK x : PlaysFrom(x)
  BY <1>1, PlayingOn
<1>5. gates' = gates /\ last' = last /\ current' = current /\ ran' = ran /\ tape' = tape /\ over' = over
      /\ arrived' = arrived /\ viewer' = viewer /\ viewerPipe' = viewerPipe /\ issued' = issued
      /\ seen' = seen /\ decoded' = decoded /\ played' = played
  BY <1>1 DEF gameVars, runVars, viewVars
<1>6. GameInv'
  <2>1. over' \in BOOLEAN
    BY <1>5 DEF GameInv
  <2> QED
    BY <1>5, <2>1, GameStays
<1>7. Arrived'
  BY <1>2, <1>5 DEF Arrived
<1>4. available \in Nat /\ issued \in Nat /\ Len(played) \in Nat /\ Len(played) <= available
  BY <1>2 DEF ViewerInv
<1>8. ViewerInv'
  <2>1. Len(played') <= available' /\ available' <= issued' /\ available' \in Nat
    BY <1>1, <1>4, <1>5
  <2> QED
    BY <1>2, <1>5, <2>1 DEF ViewerInv, ViewerGate, Gate, Anyone, Player, Entry, Message, Op, ViewerSays, Source, Order, Checksum
<1>9. PlaysFrom(x)'
  <2>1. available' \in Nat
    BY <1>1, <1>4
  <2>2. closing \/ available' <= queued
    <3>1. CASE available' = available
      BY <1>3, <3>1 DEF PlaysFrom
    <3>2. CASE available' # available
      <4>1. available' \in available + 1 .. available'
        BY <1>1, <1>4, <3>2
      <4>2. Ready(available')
        BY <1>1, <4>1
      <4> QED
        BY <4>2 DEF Ready
    <3> QED
      BY <3>1, <3>2
  <2>3. UNCHANGED <<gameVars, arrived, start, runVars>>
    BY <1>1
  <2> QED
    BY <1>1, <1>2, <1>3, <2>1, <2>2, <2>3, ReadingOn
<1> QED
  BY <1>6, <1>7, <1>8, <1>9 DEF ReplayInv

(* A step that leaves the playback alone leaves it at its place.             *)
LEMMA PlayStutters ==
    ASSUME NEW x, PlaysFrom(x),
           tape' = tape, ran' = ran, over' = over,
           UNCHANGED <<arrived, start, position, allowed, reading, pipe, queued, closing,
                       available, runVars>>
    PROVE  PlaysFrom(x)'
<1>1. /\ start' = start /\ position' = position /\ allowed' = allowed /\ reading' = reading
      /\ pipe' = pipe /\ queued' = queued /\ drained' = drained /\ closing' = closing
      /\ closed' = closed /\ available' = available /\ replay' = replay /\ played' = played
      /\ arrived' = arrived
  BY DEF runVars
<1>2. At(x)' = At(x) /\ At(position)' = At(position)
  BY <1>1 DEF At
<1>3. Holds(pipe, x, position)' = Holds(pipe, x, position)
  BY <1>1 DEF Holds, Message, Op, Anyone, Player
<1>4. NoEnd(x, position)' = NoEnd(x, position) /\ NoEnd(x, position - 1)' = NoEnd(x, position - 1)
  BY <1>1 DEF NoEnd, Advance
<1>5. ReadsOn(x, pipe, position, queued, drained)' = ReadsOn(x, pipe, position, queued, drained)
  BY <1>1, <1>2, <1>3, <1>4 DEF ReadsOn, Advance
<1>6. AtTheEnd(x, pipe, position, queued, drained)' = AtTheEnd(x, pipe, position, queued, drained)
  BY <1>1 DEF AtTheEnd, EndGame, Advance
<1>7. Piped(x, pipe, position, queued, drained, closing, reading)'
  BY <1>1, <1>5, <1>6 DEF Piped, PlaysFrom
<1>8. LetsThrough(position, allowed)'
  BY <1>1, <1>2 DEF LetsThrough, PlaysFrom
<1>9. Matches(played)'
  BY <1>1 DEF PlaysFrom, Matches, MatchesAt, OnlyEnds
<1>10. Lives(SubSeq(ran, 1, start) \o played, replay.valid)'
  <2>1. Lives(SubSeq(ran, 1, start) \o played, replay.valid)
    BY DEF PlaysFrom
  <2> QED
    BY <1>1, <2>1
<1> QED
  BY <1>1, <1>2, <1>7, <1>8, <1>9, <1>10 DEF PlaysFrom, Gate, Alias

(* The replay thread, reading on once data has come, keeps the invariant.    *)
LEMMA PollingKeepsReplay ==
    ASSUME GameInv, ReplayInv, ReplayThread
    PROVE  GameInv' /\ ReplayInv'
<1>1. /\ gates' = gates /\ last' = last /\ current' = current /\ ran' = ran /\ tape' = tape /\ over' = over
      /\ UNCHANGED <<arrived, start, position, allowed, reading, pipe, queued,
                     closing, available, viewVars, runVars>>
  BY DEF ReplayThread, gameVars
<1>2. /\ seen' = seen /\ decoded' = decoded /\ played' = played /\ replay' = replay
      /\ drained' = drained /\ closed' = closed
  BY <1>1 DEF runVars
<1>3. GameInv'
  <2>1. over' \in BOOLEAN
    BY <1>1 DEF GameInv
  <2> QED
    BY <1>1, <2>1, GameStays
<1>4. Arrived' /\ ViewerInv'
  <2>1. UNCHANGED <<available, viewVars, seen, decoded, played>>
    BY <1>1, <1>2
  <2> QED
    BY <1>1, <2>1, ViewerStays DEF ReplayInv, Arrived
<1>5. BeforePlay => BeforePlay'
  BY <1>1, <1>2 DEF BeforePlay, Gate, Player
<1>6. ASSUME NEW x, PlaysFrom(x)
      PROVE  PlaysFrom(x)'
  BY <1>1, <1>6, PlayStutters
<1> QED
  BY <1>3, <1>4, <1>5, <1>6 DEF ReplayInv

-----------------------------------------------------------------------------
(* One beat of the playback.                                                 *)

(* FirstBeat is the first end of a beat in the pipe.                         *)
LEMMA FirstBeatIs ==
    ASSUME NEW N \in 1 .. Len(pipe), pipe[N] = Advance,
           \A i \in 1 .. N - 1 : pipe[i] # Advance
    PROVE  FirstBeat = N
<1>1. ASSUME NEW n \in 1 .. Len(pipe), pipe[n] = Advance, \A i \in 1 .. n - 1 : pipe[i] # Advance
      PROVE  n = N
  <2>1. ~(n < N)
    BY <1>1
  <2>2. ~(N < n)
    BY <1>1
  <2> QED
    BY <2>1, <2>2
<1>2. \A n \in 1 .. Len(pipe) :
         pipe[n] = Advance /\ (\A i \in 1 .. n - 1 : pipe[i] # Advance) => n = N
  BY <1>1
<1>3. pipe[N] = Advance /\ \A i \in 1 .. N - 1 : pipe[i] # Advance
  OBVIOUS
<1> QED
  BY <1>2, <1>3 DEF FirstBeat

(* The replay client with a beat more played, that the game ran or that only *)
(* ends it: its gate and what it merged, its pipe, its beats, its end.       *)
PlayedOne(y, r, p, d, c) ==
    /\ Ran(r.merged, seen, r.gate.valid, SubSeq(ran, 1, start) \o played)
    /\ MatchesAt(Len(played) + 1, RanOf(r.merged, seen))
    /\ Piped(y, p, position, queued, d, closing, reading)
    /\ d <= Len(played) + 1
    /\ c \in BOOLEAN
    /\ IF c THEN closing /\ d = queued /\ r.gate.valid = {}
       ELSE d = Len(played) + 1 /\ r.gate = Gate(Alias(At(y)), At(y).live)

(* The types of what was played, and its sources end once.                   *)
LEMMA PlayedBefore ==
    ASSUME GameInv, ViewerInv, NEW x, PlaysFrom(x)
    PROVE  /\ SubSeq(ran, 1, start) \o played \in Seq(Seq(Entry))
           /\ Lives(SubSeq(ran, 1, start) \o played, replay.valid)
           /\ Len(played) \in Nat /\ Len(ran) \in Nat /\ DOMAIN ran = 1 .. Len(ran)
           /\ start \in Nat /\ start <= Len(ran)
           /\ queued \in Nat /\ drained \in Nat /\ drained <= Len(played)
           /\ closing \in BOOLEAN /\ closed \in BOOLEAN
           /\ position \in Nat /\ position <= arrived
<1>1. ran \in Seq(Seq(Entry)) /\ played \in Seq(Seq(Entry)) /\ start \in Nat /\ start <= Len(ran)
  BY RanSoFar DEF ViewerInv, PlaysFrom
<1>2. SubSeq(ran, 1, start) \o played \in Seq(Seq(Entry))
  <2> DEFINE T == Seq(Entry)
  <2>1. ran \in Seq(T) /\ played \in Seq(T)
    BY <1>1
  <2> HIDE DEF T
  <2>2. SubSeq(ran, 1, start) \in Seq(T)
    BY <1>1, <2>1
  <2>3. SubSeq(ran, 1, start) \o played \in Seq(T)
    BY <2>1, <2>2
  <2> QED
    BY <2>3 DEF T
<1>3. Len(played) \in Nat /\ Len(ran) \in Nat /\ DOMAIN ran = 1 .. Len(ran)
  BY <1>1
<1> QED
  BY <1>1, <1>2, <1>3 DEF PlaysFrom, Piped

(* A beat past the record matches nothing the game ran.                      *)
LEMMA PastTheRecord ==
    ASSUME GameInv, ViewerInv, NEW x, PlaysFrom(x), closing, queued <= Len(played) + 1,
           NEW beat, OnlyEnds(beat)
    PROVE  MatchesAt(Len(played) + 1, beat)
<1>1. start + queued = Len(ran) + 1
  BY DEF PlaysFrom, Piped, AtTheEnd
<1>2. ~(start + (Len(played) + 1) \in DOMAIN ran)
  BY <1>1, PlayedBefore
<1> QED
  BY <1>2 DEF MatchesAt

(* Its stream is over already.                                               *)
LEMMA PlayedAfterEnd ==
    ASSUME GameInv, ViewerInv, NEW x, PlaysFrom(x), closed,
           NEW r, r = [gate |-> replay, merged |-> Merged(<<>>, seen)]
    PROVE  PlayedOne(x, r, pipe, drained, TRUE)
<1>1. r.gate = replay /\ r.merged = Merged(<<>>, seen)
  OBVIOUS
<1>2. closing /\ drained = queued /\ replay.valid = {}
  BY DEF PlaysFrom
<1>3. seen \in Anyone /\ Piped(x, pipe, position, queued, drained, closing, reading)
  BY DEF ViewerInv, PlaysFrom
<1>4. Ran(r.merged, seen, {}, SubSeq(ran, 1, start) \o played) /\ RanOf(r.merged, seen) = <<>>
  BY <1>1, <1>2, <1>3, PlayedBefore, RanBegins
<1>5. OnlyEnds(<<>>)
  BY DEF OnlyEnds
<1>6. queued <= Len(played) + 1 /\ drained <= Len(played) + 1
  BY <1>2, PlayedBefore
<1>7. MatchesAt(Len(played) + 1, RanOf(r.merged, seen))
  BY <1>2, <1>4, <1>5, <1>6, PastTheRecord
<1> QED
  BY <1>1, <1>2, <1>3, <1>4, <1>6, <1>7 DEF PlayedOne

(* Its stream ends, and every source with it.                                *)
LEMMA PlayedEnd ==
    ASSUME GameInv, ViewerInv, NEW x, PlaysFrom(x), ~closed, closing, drained >= queued,
           NEW r, r = EndStream(replay, Merged(<<>>, seen))
    PROVE  PlayedOne(x, r, pipe, drained, TRUE)
<1> DEFINE m == Merged(<<>>, seen)
           w == At(x)
<1>1. seen \in Anyone /\ Piped(x, pipe, position, queued, drained, closing, reading)
  BY DEF ViewerInv, PlaysFrom
<1>2. replay = Gate(Alias(w), w.live) /\ drained = Len(played) /\ replay.valid = w.live
  BY GateFields DEF PlaysFrom
<1>3. drained = queued
  BY <1>1, PlayedBefore DEF Piped, AtTheEnd
<1>4. w.live \in SUBSET Player /\ Alias(w) \in Anyone
  <2>1. x \in 0 .. Len(tape)
    <3>1. x = Len(tape)
      BY <1>1 DEF Piped, AtTheEnd
    <3> QED
      BY <3>1, AtProper
  <2>2. w \in Reading
    BY <2>1, AtProper
  <2> QED
    BY <2>2 DEF Reading, Alias, Anyone
<1> HIDE DEF m, w
<1>5. Ran(m, seen, w.live, SubSeq(ran, 1, start) \o played) /\ RanOf(m, seen) = <<>>
  BY <1>1, <1>2, <1>4, PlayedBefore, RanBegins DEF m
<1>6. OnlyEnds(RanOf(m, seen))
  BY <1>5 DEF OnlyEnds
<1>7. r = EndStream(replay, m)
  BY DEF m
<1>8. /\ r.gate = Gate(Alias(w), {})
      /\ Ran(r.merged, seen, {}, SubSeq(ran, 1, start) \o played)
      /\ OnlyEnds(RanOf(r.merged, seen))
  BY <1>2, <1>4, <1>5, <1>6, <1>7, EndStreamRan
<1>9. r.gate.valid = {}
  BY <1>8, GateFields
<1>10. queued <= Len(played) + 1 /\ drained <= Len(played) + 1
  BY <1>2, <1>3, PlayedBefore
<1>11. MatchesAt(Len(played) + 1, RanOf(r.merged, seen))
  BY <1>8, <1>10, PastTheRecord
<1> QED
  BY <1>1, <1>3, <1>8, <1>9, <1>10, <1>11 DEF PlayedOne

(* The beat past the record plays the end of the game.                       *)
LEMMA PlayedEndGame ==
    ASSUME GameInv, ViewerInv, NEW x, PlaysFrom(x), ~closed, closing, drained < queued,
           NEW first, NEW r,
           r = Drain(replay, Merged(<<>>, seen), first, SubSeq(pipe, 1, FirstBeat - 1))
    PROVE  PlayedOne(x, r, SubSeq(pipe, FirstBeat + 1, Len(pipe)), drained + 1, FALSE)
<1> DEFINE w == At(x)
<1>1. seen \in Anyone /\ Piped(x, pipe, position, queued, drained, closing, reading)
  BY DEF ViewerInv, PlaysFrom
<1>2. replay = Gate(Alias(w), w.live) /\ drained = Len(played) /\ replay.valid = w.live
  BY GateFields DEF PlaysFrom
<1>3. AtTheEnd(x, pipe, position, queued, drained)
  BY <1>1 DEF Piped
<1>4. w.live \in SUBSET Player /\ Alias(w) \in Anyone
  <2>1. x \in 0 .. Len(tape)
    <3>1. x = Len(tape)
      BY <1>3 DEF AtTheEnd
    <3> QED
      BY <3>1, AtProper
  <2>2. w \in Reading
    BY <2>1, AtProper
  <2> QED
    BY <2>2 DEF Reading, Alias, Anyone
<1> HIDE DEF w
<1>5. queued = drained + 1 /\ pipe = <<EndGame, Advance>>
  <2>1. queued # drained
    BY PlayedBefore
  <2> QED
    BY <1>3, <2>1 DEF AtTheEnd
<1>6. FirstBeat = 2
  <2>1. Len(pipe) = 2 /\ pipe[1] = EndGame /\ pipe[2] = Advance
    BY <1>5
  <2>2. EndGame # Advance
    BY DEF EndGame, Advance
  <2>3. 2 \in 1 .. Len(pipe) /\ \A i \in 1 .. 2 - 1 : pipe[i] # Advance
    BY <2>1, <2>2
  <2> QED
    BY <2>1, <2>3, FirstBeatIs
<1>7. SubSeq(pipe, 1, FirstBeat - 1) = <<EndGame>>
  <2>1. pipe \in Seq({EndGame, Advance}) /\ Len(pipe) = 2 /\ pipe[1] = EndGame
    BY <1>5
  <2> DEFINE s == SubSeq(pipe, 1, 1)
  <2>2. s \in Seq({EndGame, Advance}) /\ Len(s) = 1 /\ s[1] = EndGame
    BY <2>1
  <2>3. FirstBeat - 1 = 1
    BY <1>6
  <2> HIDE DEF s
  <2>4. s = <<EndGame>>
    BY <2>2
  <2> QED
    BY <2>3, <2>4 DEF s
<1>8. SubSeq(pipe, FirstBeat + 1, Len(pipe)) = <<>>
  <2>1. pipe \in Seq({EndGame, Advance}) /\ Len(pipe) = 2
    BY <1>5
  <2>2. SubSeq(pipe, 3, 2) = <<>>
    BY <2>1
  <2> QED
    BY <1>6, <2>1, <2>2
<1> DEFINE beats == SubSeq(ran, 1, start) \o played
<1>9. beats \in Seq(Seq(Entry)) /\ Lives(beats, w.live)
  BY <1>2, PlayedBefore
<1> HIDE DEF beats
<1>10. /\ r.gate = replay /\ Ran(r.merged, seen, w.live, beats)
       /\ OnlyEnds(RanOf(r.merged, seen))
  <2> DEFINE segment == SubSeq(pipe, 1, FirstBeat - 1)
             gate == replay
             id == Alias(w)
             live == w.live
  <2>1. /\ r = Drain(gate, Merged(<<>>, seen), first, segment)
        /\ segment = <<EndGame>> /\ gate = Gate(id, live) /\ id \in Anyone /\ live \in SUBSET Player
        /\ Lives(beats, live) /\ seen \in Anyone /\ beats \in Seq(Seq(Entry))
    BY <1>1, <1>2, <1>4, <1>7, <1>9
  <2> HIDE DEF segment, gate, id, live
  <2>2. /\ r.gate = gate /\ Ran(r.merged, seen, live, beats)
        /\ OnlyEnds(RanOf(r.merged, seen))
    BY <2>1, DrainEndsGame
  <2> QED
    BY <2>2 DEF gate, live
<1>11. queued <= Len(played) + 1 /\ drained + 1 <= Len(played) + 1 /\ drained + 1 \in Nat
  BY <1>2, <1>5, PlayedBefore
<1>12. MatchesAt(Len(played) + 1, RanOf(r.merged, seen))
  BY <1>10, <1>11, PastTheRecord
<1>13. Piped(x, <<>>, position, queued, drained + 1, closing, reading)
  <2>1. AtTheEnd(x, <<>>, position, queued, drained + 1)
    BY <1>3, <1>5 DEF AtTheEnd
  <2> QED
    BY <1>1, <1>11, <2>1 DEF Piped
<1>14. r.gate.valid = w.live /\ r.gate = Gate(Alias(At(x)), At(x).live) /\ drained + 1 = Len(played) + 1
  BY <1>2, <1>10 DEF w
<1>15. Ran(r.merged, seen, r.gate.valid, SubSeq(ran, 1, start) \o played)
  BY <1>10, <1>14 DEF beats
<1> QED
  BY <1>8, <1>11, <1>12, <1>13, <1>14, <1>15 DEF PlayedOne

(* A beat of the record.                                                     *)
LEMMA PlayedBeat ==
    ASSUME GameInv, Arrived, ViewerInv, NEW x, PlaysFrom(x), ~closed, ~closing, drained < queued,
           NEW r, r = Drain(replay, Merged(<<>>, seen), drained = 0, SubSeq(pipe, 1, FirstBeat - 1))
    PROVE  PlayedOne(position, r, SubSeq(pipe, FirstBeat + 1, Len(pipe)), drained + 1, FALSE)
<1> DEFINE w == At(x)
           N == position - x
           segment == SubSeq(pipe, 1, FirstBeat - 1)
           beats == SubSeq(ran, 1, start) \o played
<1>0. /\ Len(tape) \in Nat /\ arrived \in Nat /\ arrived <= Len(tape) /\ tape \in Seq(Message)
      /\ \A n \in 1 .. Len(tape) : tape[n] \in Message
  BY AtProper DEF Arrived
<1>1. /\ seen \in Anyone /\ ReadsOn(x, pipe, position, queued, drained)
      /\ drained = Len(played) /\ replay = Gate(Alias(w), w.live) /\ replay.valid = w.live
  BY GateFields DEF ViewerInv, PlaysFrom, Piped
<1>2. /\ Holds(pipe, x, position) /\ w.beat = <<>> /\ Len(w.ran) = start + drained
      /\ queued = drained + 1 /\ x < position /\ tape[position] = Advance /\ NoEnd(x, position - 1)
  <2>1. queued # drained
    BY PlayedBefore
  <2> QED
    BY <1>1, <2>1 DEF ReadsOn
<1>3. /\ x \in Nat /\ position \in Nat /\ position <= Len(tape) /\ N \in Nat /\ N >= 1
      /\ pipe \in Seq(Message) /\ Len(pipe) = N /\ x + N = position
      /\ \A k \in 1 .. N : pipe[k] = tape[x + k]
  BY <1>0, <1>2, PlayedBefore DEF Holds
<1> HIDE DEF N, w
<1>4. \A k \in 1 .. N - 1 : x + k \in x + 1 .. position - 1 /\ k \in 1 .. N /\ x + k \in 1 .. Len(tape)
  BY <1>0, <1>3
<1>5. \A k \in 1 .. N - 1 : pipe[k] # Advance
  BY <1>2, <1>3, <1>4 DEF NoEnd
<1>6. FirstBeat = N
  <2>1. N \in 1 .. Len(pipe) /\ pipe[N] = Advance
    BY <1>2, <1>3
  <2> QED
    BY <1>5, <2>1, FirstBeatIs
<1>7. /\ segment \in Seq(Message) /\ Len(segment) = N - 1
      /\ \A k \in 1 .. N - 1 : segment[k] = pipe[k]
  BY <1>3, <1>6
<1>8. SubSeq(pipe, FirstBeat + 1, Len(pipe)) = <<>>
  <2>1. SubSeq(pipe, N + 1, N) = <<>>
    BY <1>3
  <2> QED
    BY <1>3, <1>6, <2>1
<1>9. r = Drain(replay, Merged(<<>>, seen), drained = 0, segment)
  OBVIOUS
<1> HIDE DEF segment
<1>10. Carries(segment, tape, x)
  <2>1. Sound(tape) /\ x + Len(segment) <= Len(tape)
    BY <1>0, <1>3, <1>7 DEF GameInv
  <2>2. ASSUME NEW k \in 1 .. Len(segment)
        PROVE  segment[k] = tape[x + k] /\ segment[k].op # "Advance"
    <3>1. k \in 1 .. N - 1
      BY <1>7
    <3>2. segment[k] = tape[x + k] /\ x + k \in 1 .. Len(tape) /\ tape[x + k] # Advance
      BY <1>3, <1>4, <1>5, <1>7, <3>1
    <3> QED
      BY <3>2, AtStep
  <2> QED
    BY <1>0, <1>3, <1>7, <2>1, <2>2 DEF Carries
<1> DEFINE v == At(position - 1)
           u == At(position)
           first == drained = 0
<1>11. beats \in Seq(Seq(Entry)) /\ Lives(beats, w.live) /\ Len(played) \in Nat
       /\ DOMAIN ran = 1 .. Len(ran) /\ start \in Nat
  BY <1>1, PlayedBefore
<1> HIDE DEF beats
<1>12. /\ r.gate = Gate(Alias(v), v.live)
       /\ Ran(r.merged, seen, v.live, beats)
       /\ Alike(first /\ Alias(w) = NoSource, RanOf(r.merged, seen), v.beat)
  <2> DEFINE m == Merged(<<>>, seen)
             gate == replay
             t == tape
  <2>1. v = Course(t)[x + Len(segment)]
    <3>1. x + Len(segment) = position - 1
      BY <1>3, <1>7
    <3> QED
      BY <3>1 DEF At
  <2>2. w = Course(t)[x]
    BY DEF At, w
  <2>3. /\ r = Drain(gate, m, first, segment) /\ gate = Gate(Alias(w), w.live) /\ first \in BOOLEAN
        /\ Carries(segment, t, x) /\ w.beat = <<>> /\ seen \in Anyone
        /\ beats \in Seq(Seq(Entry)) /\ Lives(beats, w.live)
    BY <1>1, <1>2, <1>9, <1>10, <1>11
  <2> HIDE DEF v, gate, first, t
  <2> QED
    BY <2>1, <2>2, <2>3, DrainEchoes
<1>13. /\ u.live = v.live /\ u.at = v.at /\ u.ran = Append(v.ran, v.beat) /\ u.beat = <<>>
       /\ v.ran = w.ran
  <2>1. position \in 1 .. Len(tape)
    BY <1>2, <1>3
  <2>2. x \in Nat /\ position - 1 \in Nat /\ x <= position - 1 /\ position - 1 <= Len(tape)
    BY <1>2, <1>3
  <2> QED
    BY <1>2, <2>1, <2>2, AtStep, AtLater DEF w
<1>14. /\ w.ran \in Seq(Seq(Entry)) /\ v.beat \in Seq(Entry)
       /\ Len(u.ran) <= Len(ran) /\ \A b \in 1 .. Len(u.ran) : ran[b] = u.ran[b]
       /\ Len(ran) \in Nat
  <2>1. position \in 0 .. Len(tape) /\ position - 1 \in 0 .. Len(tape) /\ x \in 0 .. Len(tape)
    BY <1>2, <1>3
  <2>2. v \in Reading
    BY <2>1, AtProper
  <2> QED
    BY <2>1, <2>2, RanSoFar DEF Reading, w
<1> DEFINE b == start + (drained + 1)
<1>15. /\ Len(u.ran) = b /\ b \in 1 .. Len(ran) /\ ran[b] = v.beat
  <2> DEFINE past == w.ran
             beat == v.beat
             now == u.ran
  <2>1. now = Append(past, beat) /\ past \in Seq(Seq(Entry)) /\ Len(past) = start + drained /\ beat \in Seq(Entry)
    BY <1>2, <1>13, <1>14
  <2>2. start \in Nat /\ drained \in Nat
    BY <1>1, <1>11
  <2>3. Len(now) <= Len(ran) /\ \A c \in 1 .. Len(now) : ran[c] = now[c]
    BY <1>14
  <2> HIDE DEF past, beat, now
  <2>4. Len(now) = b /\ b \in 1 .. Len(now) /\ now[b] = beat
    <3> DEFINE T == Seq(Entry)
    <3>1. now = Append(past, beat) /\ past \in Seq(T) /\ beat \in T
      BY <2>1
    <3> HIDE DEF T
    <3>2. Len(now) = Len(past) + 1 /\ now[Len(past) + 1] = beat
      BY <3>1
    <3>3. Len(past) + 1 = b /\ b \in 1 .. b
      BY <2>1, <2>2
    <3> HIDE DEF b
    <3> QED
      BY <3>2, <3>3
  <2> HIDE DEF b
  <2>5. b \in 1 .. Len(ran) /\ ran[b] = beat
    BY <1>14, <2>3, <2>4
  <2> QED
    BY <2>4, <2>5 DEF beat, now
<1>16. MatchesAt(Len(played) + 1, RanOf(r.merged, seen))
  <2> DEFINE beat == RanOf(r.merged, seen)
  <2>1. start + (Len(played) + 1) = b /\ b \in DOMAIN ran
    BY <1>1, <1>11, <1>15
  <2>2. Alike(first /\ Alias(w) = NoSource, beat, ran[b])
    BY <1>12, <1>15
  <2>3. Len(played) + 1 = 1 <=> first
    BY <1>1, <1>11
  <2> HIDE DEF b, beat, first
  <2>4. IF Len(played) + 1 = 1 THEN Orders(beat) = Orders(ran[b]) ELSE beat = ran[b]
    BY <2>2, <2>3 DEF Alike
  <2>5. MatchesAt(Len(played) + 1, beat)
    BY <2>1, <2>4 DEF MatchesAt
  <2> QED
    BY <2>5 DEF beat
<1>17. Piped(position, <<>>, position, queued, drained + 1, closing, reading)
  <2>1. Holds(<<>>, position, position)
    <3>1. <<>> \in Seq(Message) /\ Len(<<>>) = 0 /\ position - position = 0
      BY <1>3
    <3>2. \A k \in 1 .. Len(<<>>) : FALSE
      BY <3>1
    <3> QED
      BY <1>3, <3>1, <3>2 DEF Holds
  <2>2. NoEnd(position, position)
    BY <1>3 DEF NoEnd
  <2>3. Len(At(position).ran) = start + (drained + 1)
    BY <1>15
  <2>4. ReadsOn(position, <<>>, position, queued, drained + 1)
    BY <1>2, <1>13, <2>1, <2>2, <2>3 DEF ReadsOn
  <2>5. position <= arrived /\ queued \in Nat /\ drained + 1 \in Nat /\ closing \in BOOLEAN
    BY PlayedBefore
  <2> QED
    BY <1>3, <2>4, <2>5 DEF Piped
<1>18. /\ r.gate = Gate(Alias(u), u.live) /\ r.gate.valid = v.live
  <2>1. Alias(u) = Alias(v)
    BY <1>13 DEF Alias
  <2> HIDE DEF u, v
  <2> QED
    BY <1>12, <1>13, <2>1, GateFields
<1>19. Ran(r.merged, seen, r.gate.valid, SubSeq(ran, 1, start) \o played)
  BY <1>12, <1>18 DEF beats
<1>20. drained + 1 = Len(played) + 1 /\ drained + 1 <= Len(played) + 1
  BY <1>1, <1>11
<1> QED
  BY <1>8, <1>16, <1>17, <1>18, <1>19, <1>20 DEF PlayedOne

(* The replay client's part of a beat, whatever state it is in.              *)
LEMMA ReplayPlays ==
    ASSUME GameInv, Arrived, ViewerInv, NEW x, PlaysFrom(x), Len(played) < available
    PROVE  \E y : PlayedOne(y, UpdateReplay(Merged(<<>>, seen)),
                            IF Plays THEN SubSeq(pipe, FirstBeat + 1, Len(pipe)) ELSE pipe,
                            IF Plays THEN drained + 1 ELSE drained,
                            closed \/ Ends)
<1> DEFINE m == Merged(<<>>, seen)
           r == UpdateReplay(m)
           p == IF Plays THEN SubSeq(pipe, FirstBeat + 1, Len(pipe)) ELSE pipe
           d == IF Plays THEN drained + 1 ELSE drained
           c == closed \/ Ends
<1>0. /\ drained \in Nat /\ queued \in Nat /\ Len(played) \in Nat /\ available \in Nat
      /\ closed \in BOOLEAN /\ closing \in BOOLEAN
  BY PlayedBefore DEF ViewerInv
<1> HIDE DEF m
<1>1. CASE closed
  <2>1. ~Plays /\ ~Ends
    BY <1>1 DEF Plays, Ends
  <2>2. r = [gate |-> replay, merged |-> m] /\ p = pipe /\ d = drained /\ c = TRUE
    BY <1>1, <2>1 DEF UpdateReplay
  <2> HIDE DEF r, p, d, c
  <2>3. PlayedOne(x, r, pipe, drained, TRUE)
    BY <1>1, <2>2, PlayedAfterEnd DEF m
  <2>4. PlayedOne(x, r, p, d, c)
    BY <2>2, <2>3
  <2> QED
    BY <2>4 DEF r, p, d, c, m
<1>2. CASE ~closed
  <2>1. drained = Len(played) /\ (closing \/ available <= queued)
    BY <1>2 DEF PlaysFrom
  <2>2. CASE closing /\ drained >= queued
    <3>1. Ends /\ ~Plays
      <4>1. drained < dispatched + 1
        BY <1>0, <2>1 DEF dispatched
      <4> QED
        BY <1>2, <2>2, <4>1 DEF Ends, Plays
    <3>2. r = EndStream(replay, m) /\ p = pipe /\ d = drained /\ c = TRUE
      BY <3>1 DEF UpdateReplay
    <3> HIDE DEF r, p, d, c
    <3>3. PlayedOne(x, r, pipe, drained, TRUE)
      BY <1>2, <2>2, <3>2, PlayedEnd DEF m
    <3>4. PlayedOne(x, r, p, d, c)
      BY <3>2, <3>3
    <3> QED
      BY <3>4 DEF r, p, d, c, m
  <2>3. CASE ~(closing /\ drained >= queued)
    <3>1. Plays /\ ~Ends
      <4>1. drained < dispatched + 1
        BY <1>0, <2>1 DEF dispatched
      <4>2. ~Ends
        BY <2>3 DEF Ends
      <4> QED
        BY <1>2, <4>1, <4>2 DEF Plays
    <3>2. drained < queued
      BY <1>0, <2>1, <2>3
    <3> DEFINE rest == SubSeq(pipe, FirstBeat + 1, Len(pipe))
               first == drained = 0
               segment == SubSeq(pipe, 1, FirstBeat - 1)
    <3>3. r = Drain(replay, m, first, segment)
          /\ p = rest /\ d = drained + 1 /\ c = FALSE
      BY <1>2, <3>1 DEF UpdateReplay
    <3> HIDE DEF r, p, d, c
    <3>4. CASE closing
      <4>1. PlayedOne(x, r, rest, drained + 1, FALSE)
        <5> HIDE DEF first
        <5> QED
          BY <1>2, <3>2, <3>3, <3>4, PlayedEndGame DEF m
      <4> HIDE DEF rest
      <4>2. PlayedOne(x, r, p, d, c)
        BY <3>3, <4>1
      <4> QED
        BY <4>2 DEF r, p, d, c, m
    <3>5. CASE ~closing
      <4>1. PlayedOne(position, r, rest, drained + 1, FALSE)
        BY <1>2, <3>2, <3>3, <3>5, PlayedBeat DEF m
      <4> HIDE DEF rest
      <4>2. PlayedOne(position, r, p, d, c)
        BY <3>3, <4>1
      <4> QED
        BY <4>2 DEF r, p, d, c, m
    <3> QED
      BY <3>4, <3>5
  <2> QED
    BY <2>2, <2>3
<1> QED
  BY <1>1, <1>2

(* The viewer's client reads its beat after the stream merged, and the sim   *)
(* runs the result.                                                          *)
ViewerDrains(merged, first, second, sim) ==
    /\ second = Drain(viewer, merged, first, Head(viewerPipe))
    /\ sim = RunBeat(decoded, second.merged.out)

(* The sim plays what the two clients merged.                                *)
LEMMA ViewerAddsNothing ==
    ASSUME ViewerInv, NEW merged, NEW live, NEW beats, Ran(merged, seen, live, beats),
           NEW first, NEW second, NEW sim, ViewerDrains(merged, first, second, sim),
           Len(played) < available
    PROVE  /\ second.gate = ViewerGate
           /\ sim.current = second.merged.last /\ second.merged.last \in Anyone
           /\ sim.ran = RanOf(merged, seen)
           /\ sim.ran \in Seq(Entry)
           /\ Lives(Append(beats, sim.ran), live)
<1>1. viewer = ViewerGate /\ decoded = seen
  BY DEF ViewerInv
<1> DEFINE segment == Head(viewerPipe)
<1>2. ViewerSays(segment)
  <2>1. viewerPipe \in Seq(Seq(Message)) /\ Len(viewerPipe) >= 1 /\ Len(viewerPipe) \in Nat
    BY DEF ViewerInv
  <2>2. segment = viewerPipe[1] /\ 1 \in 1 .. Len(viewerPipe)
    BY <2>1
  <2> QED
    BY <2>2 DEF ViewerInv
<1>3. second = Drain(ViewerGate, merged, first, segment) /\ sim = RunBeat(seen, second.merged.out)
  BY <1>1 DEF ViewerDrains
<1> HIDE DEF segment
<1>4. /\ second.gate = ViewerGate
      /\ Ran(second.merged, seen, live, beats)
      /\ RanOf(second.merged, seen) = RanOf(merged, seen)
  BY <1>2, <1>3, ViewerDrain
<1>5. sim = RunBeat(seen, second.merged.out)
  BY <1>3
<1> DEFINE after == second.merged
<1>6. /\ sim = [current |-> after.last, ran |-> sim.ran] /\ after.last \in Anyone
      /\ sim.ran \in Seq(Entry) /\ Lives(Append(beats, sim.ran), live)
  BY <1>4, <1>5 DEF Ran
<1>7. sim.ran = RanOf(merged, seen)
  BY <1>4, <1>5 DEF RanOf
<1>8. sim.current = after.last
  <2> DEFINE l == after.last
             b == sim.ran
  <2>1. sim = [current |-> l, ran |-> b]
    BY <1>6
  <2> HIDE DEF l, b
  <2>2. sim.current = l
    BY <2>1
  <2> QED
    BY <2>2 DEF l
<1> QED
  BY <1>4, <1>6, <1>7, <1>8

(* Running a beat of the playback keeps the invariant.                       *)
LEMMA DispatchKeepsReplay ==
    ASSUME GameInv, ReplayInv, Dispatch
    PROVE  GameInv' /\ ReplayInv'
<1> DEFINE r == UpdateReplay(Merged(<<>>, seen))
           first == dispatched = 0
           second == Drain(viewer, r.merged, first, Head(viewerPipe))
           sim == RunBeat(decoded, second.merged.out)
           p == IF Plays THEN SubSeq(pipe, FirstBeat + 1, Len(pipe)) ELSE pipe
           d == IF Plays THEN drained + 1 ELSE drained
           c == closed \/ Ends
<1>1. /\ start # -1
      /\ dispatched < available
      /\ replay' = r.gate
      /\ drained' = d
      /\ closed' = c
      /\ viewer' = second.gate
      /\ viewerPipe' = Tail(viewerPipe)
      /\ seen' = second.merged.last
      /\ decoded' = sim.current
      /\ played' = Append(played, sim.ran)
      /\ UNCHANGED <<gameVars, arrived, start, credited, available, issued>>
      /\ Start(p)
  BY DEF Dispatch
<1>2. Arrived /\ ViewerInv
  BY <1>1, PlayingOn
<1>3. PICK x : PlaysFrom(x)
  BY <1>1, PlayingOn
<1>4. Len(played) < available
  BY <1>1 DEF dispatched
<1>5. PICK y : PlayedOne(y, r, p, d, c)
  BY <1>2, <1>3, <1>4, ReplayPlays
<1>6. gates' = gates /\ last' = last /\ current' = current /\ ran' = ran /\ tape' = tape /\ over' = over
      /\ arrived' = arrived /\ start' = start /\ available' = available /\ issued' = issued
  BY <1>1 DEF gameVars
<1>7. GameInv'
  <2>1. over' \in BOOLEAN
    BY <1>6 DEF GameInv
  <2> QED
    BY <1>6, <2>1, GameStays
<1>8. Arrived'
  BY <1>2, <1>6 DEF Arrived
<1> DEFINE beats == SubSeq(ran, 1, start) \o played
           live == r.gate.valid
           beat == sim.ran
<1>9. /\ Ran(r.merged, seen, live, beats)
      /\ MatchesAt(Len(played) + 1, RanOf(r.merged, seen))
      /\ Piped(y, p, position, queued, d, closing, reading)
      /\ d <= Len(played) + 1
      /\ c \in BOOLEAN
      /\ IF c THEN closing /\ d = queued /\ live = {}
         ELSE d = Len(played) + 1 /\ r.gate = Gate(Alias(At(y)), At(y).live)
  BY <1>5 DEF PlayedOne
<1>10. beats \in Seq(Seq(Entry)) /\ Len(played) \in Nat /\ start \in Nat /\ start <= Len(ran)
       /\ (closing \/ available <= queued)
  BY <1>2, <1>3, PlayedBefore DEF PlaysFrom
<1> HIDE DEF r, p, d, c, first
<1>11. /\ second.gate = ViewerGate
       /\ sim.current = second.merged.last /\ second.merged.last \in Anyone
       /\ beat = RanOf(r.merged, seen)
       /\ beat \in Seq(Entry)
       /\ Lives(Append(beats, beat), live)
  <2> DEFINE m == r.merged
  <2>1. ViewerDrains(m, first, second, sim) /\ Ran(m, seen, live, beats)
    BY <1>9 DEF ViewerDrains
  <2> HIDE DEF second, sim, live, beats, m
  <2>2. /\ second.gate = ViewerGate
        /\ sim.current = second.merged.last /\ second.merged.last \in Anyone
        /\ sim.ran = RanOf(m, seen)
        /\ sim.ran \in Seq(Entry)
        /\ Lives(Append(beats, sim.ran), live)
    BY <1>2, <1>4, <2>1, ViewerAddsNothing
  <2> QED
    BY <2>2 DEF m
<1>12. played' = Append(played, beat) /\ played \in Seq(Seq(Entry))
  BY <1>1, <1>2 DEF ViewerInv
<1>13. seen' = decoded' /\ seen' \in Anyone /\ viewer' = ViewerGate
  BY <1>1, <1>11
<1> HIDE DEF second, sim, beat
<1>14. /\ played' \in Seq(Seq(Entry)) /\ Len(played') = Len(played) + 1
       /\ \A b \in DOMAIN played' : (b \in DOMAIN played /\ played'[b] = played[b])
                                    \/ (b = Len(played) + 1 /\ played'[b] = beat)
  <2> DEFINE T == Seq(Entry)
  <2>1. played \in Seq(T) /\ beat \in T /\ played' = Append(played, beat)
    BY <1>11, <1>12
  <2> HIDE DEF T
  <2>2. /\ played' \in Seq(T) /\ Len(played') = Len(played) + 1
        /\ \A b \in DOMAIN played' : (b \in DOMAIN played /\ played'[b] = played[b])
                                     \/ (b = Len(played) + 1 /\ played'[b] = beat)
    BY <2>1
  <2> QED
    BY <2>2 DEF T
<1>15. ViewerInv'
  <2>1. /\ viewerPipe \in Seq(Seq(Message)) /\ issued \in Nat /\ available \in Nat
        /\ available <= issued /\ Len(viewerPipe) = issued - Len(played)
        /\ \A n \in 1 .. Len(viewerPipe) : ViewerSays(viewerPipe[n])
    BY <1>2 DEF ViewerInv
  <2>2. Len(played') <= available' /\ available' <= issued' /\ issued' \in Nat /\ available' \in Nat
    BY <1>4, <1>6, <1>10, <1>14, <2>1
  <2>3. Len(viewerPipe) \in Nat /\ Len(viewerPipe) >= 1
    BY <1>4, <1>10, <2>1
  <2>4. /\ viewerPipe' \in Seq(Seq(Message)) /\ Len(viewerPipe') = Len(viewerPipe) - 1
        /\ \A n \in 1 .. Len(viewerPipe') : n + 1 \in 1 .. Len(viewerPipe) /\ viewerPipe'[n] = viewerPipe[n + 1]
    <3> DEFINE T == Seq(Message)
    <3>1. viewerPipe \in Seq(T) /\ viewerPipe' = Tail(viewerPipe)
      BY <1>1, <2>1
    <3> HIDE DEF T
    <3>2. /\ viewerPipe' \in Seq(T) /\ Len(viewerPipe') = Len(viewerPipe) - 1
          /\ \A n \in 1 .. Len(viewerPipe') : n + 1 \in 1 .. Len(viewerPipe) /\ viewerPipe'[n] = viewerPipe[n + 1]
      BY <2>3, <3>1
    <3> QED
      BY <3>2 DEF T
  <2>5. \A n \in 1 .. Len(viewerPipe') : ViewerSays(viewerPipe'[n])
    BY <2>1, <2>4
  <2>6. Len(viewerPipe') = issued' - Len(played')
    BY <1>6, <1>10, <1>14, <2>1, <2>4
  <2> QED
    BY <1>13, <1>14, <2>2, <2>4, <2>5, <2>6 DEF ViewerInv, ViewerGate, Gate, Anyone, Player, Entry, Message, Op, ViewerSays, Source, Order, Checksum
<1>16. /\ Piped(y, pipe', position', queued', drained', closing', reading')
       /\ LetsThrough(position', allowed')
       /\ queued' >= queued
       /\ closing => closing' /\ queued' = queued
  <2>1. reading => replay'.valid = At(y).live
    <3>1. reading => ~closing
      BY <1>9 DEF Piped
    <3>2. ~c => live = At(y).live
      BY <1>9, GateFields
    <3> QED
      BY <1>1, <1>9, <3>1, <3>2
  <2>2. Piped(y, p, position, queued, drained', closing, reading)
    BY <1>1, <1>9
  <2>3. start \in Int /\ over \in BOOLEAN /\ LetsThrough(position, allowed) /\ Start(p)
    BY <1>1, <1>3, <1>10 DEF GameInv, PlaysFrom
  <2> QED
    BY <1>2, <2>1, <2>2, <2>3, StartKeepsPiped
<1>17. /\ Piped(y, pipe, position, queued, drained, closing, reading)'
       /\ LetsThrough(position, allowed)'
  <2>1. At(y)' = At(y) /\ At(position)' = Course(tape)[position']
    BY <1>6 DEF At
  <2>2. Holds(pipe, y, position)' = Holds(pipe', y, position')
    BY <1>6 DEF Holds, Message, Op, Anyone, Player
  <2>3. NoEnd(y, position)' = NoEnd(y, position') /\ NoEnd(y, position - 1)' = NoEnd(y, position' - 1)
    BY <1>6 DEF NoEnd, Advance
  <2>4. ReadsOn(y, pipe, position, queued, drained)' = ReadsOn(y, pipe', position', queued', drained')
    BY <1>6, <2>1, <2>2, <2>3 DEF ReadsOn, Advance
  <2>5. AtTheEnd(y, pipe, position, queued, drained)' = AtTheEnd(y, pipe', position', queued', drained')
    BY <1>6 DEF AtTheEnd, EndGame, Advance
  <2>6. Piped(y, pipe, position, queued, drained, closing, reading)'
    BY <1>6, <1>16, <2>4, <2>5 DEF Piped
  <2>7. LetsThrough(position, allowed)'
    BY <1>6, <1>16, <2>1 DEF LetsThrough, At
  <2> QED
    BY <2>6, <2>7
<1>18. closing' \/ available' <= queued'
  <2>1. queued \in Nat /\ queued' \in Nat /\ available \in Nat
    BY <1>2, <1>9, <1>16 DEF Piped, ViewerInv
  <2> QED
    BY <1>6, <1>10, <1>16, <2>1
<1>19. Matches(played)'
  <2>1. \A b \in DOMAIN played : MatchesAt(b, played[b])
    BY <1>3 DEF PlaysFrom, Matches
  <2>2. MatchesAt(Len(played) + 1, beat)
    BY <1>9, <1>11
  <2>3. \A b \in DOMAIN played' : MatchesAt(b, played'[b])
    BY <1>14, <2>1, <2>2
  <2> QED
    BY <1>6, <2>3 DEF Matches, MatchesAt, OnlyEnds
<1>20. Lives(SubSeq(ran, 1, start) \o played, replay.valid)'
  <2>1. SubSeq(ran, 1, start) \o Append(played, beat) = Append(SubSeq(ran, 1, start) \o played, beat)
    <3> DEFINE T == Seq(Entry)
               s == SubSeq(ran, 1, start)
    <3>1. ran \in Seq(T) /\ played \in Seq(T) /\ beat \in T
      BY <1>11, <1>12, RanSoFar
    <3> HIDE DEF T
    <3>2. s \in Seq(T)
      <4>1. start \in Nat /\ start <= Len(ran)
        BY <1>10
      <4> QED
        BY <3>1, <4>1
    <3> HIDE DEF s
    <3>3. s \o Append(played, beat) = Append(s \o played, beat)
      BY <3>1, <3>2
    <3> QED
      BY <3>3 DEF s
  <2>2. Lives(Append(beats, beat), live)
    BY <1>11
  <2> QED
    BY <1>1, <1>6, <1>12, <2>1, <2>2
<1>21. /\ start' \in Nat /\ start' <= Len(ran') /\ drained' <= Len(played') /\ closed' \in BOOLEAN
       /\ IF closed' THEN closing' /\ drained' = queued' /\ replay'.valid = {}
          ELSE drained' = Len(played') /\ replay' = Gate(Alias(At(y)'), At(y)'.live)
  <2>1. At(y)' = At(y)
    BY <1>6 DEF At
  <2>2. c => closing' /\ d = queued' /\ replay'.valid = {}
    BY <1>1, <1>9, <1>16
  <2>3. ~c => d = Len(played') /\ replay' = Gate(Alias(At(y)'), At(y)'.live)
    BY <1>1, <1>9, <1>14, <2>1
  <2>4. closed' = c /\ drained' = d /\ c \in BOOLEAN
    BY <1>1, <1>9
  <2>5. IF closed' THEN closing' /\ drained' = queued' /\ replay'.valid = {}
        ELSE drained' = Len(played') /\ replay' = Gate(Alias(At(y)'), At(y)'.live)
    BY <2>2, <2>3, <2>4
  <2>6. start' \in Nat /\ start' <= Len(ran') /\ drained' <= Len(played')
    BY <1>1, <1>6, <1>9, <1>10, <1>14
  <2> QED
    BY <2>4, <2>5, <2>6
<1>22. PlaysFrom(y)'
  BY <1>17, <1>18, <1>19, <1>20, <1>21 DEF PlaysFrom, Gate, Alias
<1> QED
  BY <1>7, <1>8, <1>15, <1>22 DEF ReplayInv

-----------------------------------------------------------------------------
(* The theorems.                                                             *)

(* The inductive invariant.                                                  *)
PlaybackInv == GameInv /\ ReplayInv

(* It holds at first.                                                        *)
LEMMA InvBegins == Init => PlaybackInv
BY GameBegins, ReplayBegins DEF PlaybackInv

(* Every step keeps it.                                                      *)
LEMMA InvStays == PlaybackInv /\ [Next]_vars => PlaybackInv'
<1> SUFFICES ASSUME GameInv, ReplayInv, [Next]_vars
             PROVE  GameInv' /\ ReplayInv'
  BY DEF PlaybackInv
<1>1. ASSUME NEW kinds \in [Player -> Kind], NEW leavers \in SUBSET Player,
             GameBeat([p \in Player |-> Segment(kinds[p], p)], leavers)
      PROVE  GameInv' /\ ReplayInv'
  BY <1>1, GameKeepsReplay
<1>2. CASE GameOver
  BY <1>2, GameKeepsReplay
<1>3. ASSUME NEW n \in Chunk, Arrive(n)
      PROVE  GameInv' /\ ReplayInv'
  BY <1>3, GameKeepsReplay
<1>4. ASSUME NEW n \in 0 .. MaxSkip, SetUp(n)
      PROVE  GameInv' /\ ReplayInv'
  BY <1>4, SetUpKeepsReplay
<1>5. ASSUME NEW kind \in Kind, Issue(Segment(kind, NoSource))
      PROVE  GameInv' /\ ReplayInv'
  BY <1>5, IssueKeepsReplay
<1>6. CASE DoBeat
  BY <1>6, DoBeatKeepsReplay
<1>7. CASE Dispatch
  BY <1>7, DispatchKeepsReplay
<1>8. CASE ReplayThread
  BY <1>8, PollingKeepsReplay
<1>9. CASE UNCHANGED vars
  <2>1. /\ gates' = gates /\ last' = last /\ current' = current /\ ran' = ran /\ tape' = tape /\ over' = over
        /\ UNCHANGED <<arrived, start, readVars, available, viewVars, runVars>>
    BY <1>9 DEF vars, gameVars
  <2>2. over' \in BOOLEAN
    BY <2>1 DEF GameInv
  <2>3. GameInv'
    BY <2>1, <2>2, GameStays
  <2>4. Arrived' /\ ViewerInv'
    <3>1. UNCHANGED <<available, viewVars, seen, decoded, played>>
      BY <2>1 DEF runVars
    <3> QED
      BY <2>1, <3>1, ViewerStays DEF ReplayInv, Arrived
  <2>5. BeforePlay => BeforePlay'
    BY <2>1, BeforeStays
  <2>6. ASSUME NEW x, PlaysFrom(x)
        PROVE  PlaysFrom(x)'
    BY <2>1, <2>6, PlayStutters DEF readVars
  <2> QED
    BY <2>3, <2>4, <2>5, <2>6 DEF ReplayInv
<1> QED
  BY <1>1, <1>2, <1>3, <1>4, <1>5, <1>6, <1>7, <1>8, <1>9 DEF Next

(* A player's orders run under its own source, in the game and its playback, *)
(* and the manager and the sim of either never differ about the source: the  *)
(* one WriteSetCommandSourceMessage last announced is the one Sim is at.     *)
THEOREM SourcesStayInStep == Spec => []SourcesInStep
<1>1. PlaybackInv => SourcesInStep
  <2> SUFFICES ASSUME PlaybackInv PROVE SourcesInStep
    OBVIOUS
  <2>1. last = current /\ seen = decoded
    BY DEF PlaybackInv, GameInv, ReplayInv, ViewerInv
  <2>2. \A b \in DOMAIN ran : Own(ran[b])
    BY RanSoFar DEF PlaybackInv
  <2> QED
    BY <2>1, <2>2 DEF SourcesInStep, Own
<1> QED
  BY <1>1, InvBegins, InvStays, PTL DEF Spec

(* CReplayClient's playback runs the beats the game ran, from wherever it is *)
(* set up, while the record is still being written and past its end, and     *)
(* each source ends once, for any number of players and beats.               *)
THEOREM PlaybackRunsAlways == Spec => []PlaybackRunsTheGame
<1>1. PlaybackInv => PlaybackRunsTheGame
  <2> SUFFICES ASSUME PlaybackInv PROVE PlaybackRunsTheGame
    OBVIOUS
  <2>1. ASSUME BeforePlay
        PROVE  PlaybackRunsTheGame
    <3>1. ran \in Seq(Seq(Entry)) /\ start = -1 /\ played = <<>>
      BY <2>1, RanSoFar DEF PlaybackInv, BeforePlay
    <3> DEFINE beats == SubSeq(ran, 1, start) \o played
    <3>2. DOMAIN beats = {} /\ DOMAIN played = {}
      BY <3>1
    <3> HIDE DEF beats
    <3>3. \A s \in Player : EndsOnce(s, beats)
      BY <3>2 DEF EndsOnce
    <3> QED
      BY <3>2, <3>3 DEF PlaybackRunsTheGame, EachSourceEndsOnce, beats
  <2>2. ASSUME NEW x, PlaysFrom(x)
        PROVE  PlaybackRunsTheGame
    BY <2>2 DEF PlaysFrom, Lives, Matches, MatchesAt, OnlyEnds, PlaybackRunsTheGame, EachSourceEndsOnce
  <2> QED
    BY <2>1, <2>2 DEF PlaybackInv, ReplayInv
<1> QED
  BY <1>1, InvBegins, InvStays, PTL DEF Spec
=============================================================================
