----------------------------- MODULE RejoinProofs -----------------------------
(***************************************************************************)
(* Proofs about Rejoin, for any players, beats, leads and numbers of       *)
(* crashes, while no link is slower than the recording's way round         *)
(* (Prompt): the types, that players run the same messages, that a beat is *)
(* taken once and whole, and that every peer can go back to the cut.       *)
(***************************************************************************)
EXTENDS Rejoin, FiniteSetTheorems, WellFoundedInduction, NaturalsInduction, TLAPS

(***************************************************************************)
(* Numbers.                                                                *)
(***************************************************************************)

(* A set of numbers that is not empty has a least one.                       *)
LEMMA LeastNumber ==
    ASSUME NEW T \in SUBSET Nat, T # {}
    PROVE  \E n \in T : \A m \in T : n <= m
  <1> DEFINE R == OpToRel(<, Nat)
  <1>1. IsWellFoundedOn(R, Nat)
    BY NatLessThanWellFounded
  <1>2. \A x, y \in Nat : x < y <=> <<x, y>> \in R
    BY DEF OpToRel
  <1> HIDE DEF R
  <1>3. PICK n \in T : \A m \in T : ~(<<m, n>> \in R)
    BY <1>1, WFMin
  <1>4. ASSUME NEW m \in T PROVE n <= m
    <2>1. n \in Nat /\ m \in Nat /\ ~(m < n)
      BY <1>2, <1>3
    <2> QED BY <2>1
  <1> QED BY <1>4

(* Induction over the numbers, stated of a set.                              *)
LEMMA Induct ==
    ASSUME NEW T \in SUBSET Nat, 0 \in T, \A n \in T : n + 1 \in T
    PROVE  T = Nat
  <1> SUFFICES ASSUME Nat \ T # {} PROVE FALSE
    OBVIOUS
  <1>1. PICK n \in Nat \ T : \A m \in Nat \ T : n <= m
    BY LeastNumber
  <1>2. n # 0 /\ n - 1 \in Nat /\ ~(n <= n - 1)
    BY <1>1
  <1>3. n - 1 \in T
    BY <1>1, <1>2
  <1> QED BY <1>3

(* How far a test reaches that holds of no number without holding of those   *)
(* before it: the numbers from a + 1 to n that pass it are counted.          *)
LEMMA CountedReach ==
    ASSUME NEW a \in Nat, NEW n \in Nat, NEW S, S \subseteq a + 1 .. n,
           \A b \in S : \A d \in a + 1 .. b : d \in S
    PROVE  /\ a + Cardinality(S) \in Nat
           /\ a <= a + Cardinality(S)
           /\ a + Cardinality(S) = a \/ a + Cardinality(S) \in S
           /\ \A b \in S : b <= a + Cardinality(S)
  <1> DEFINE Out == {b \in Nat : a < b /\ b \notin S}
  <1>1. Out \in SUBSET Nat /\ Out # {}
    <2>1. n + a + 1 \in Out
      OBVIOUS
    <2> QED BY <2>1
  <1>2. PICK u \in Out : \A m \in Out : u <= m
    <2> HIDE DEF Out
    <2> QED BY <1>1, LeastNumber
  <1>3. u \in Nat /\ a < u /\ u \notin S
    BY <1>2
  <1>4. S = a + 1 .. u - 1
    <2>1. ASSUME NEW b \in S PROVE b \in a + 1 .. u - 1
      <3>1. b \in Nat /\ a < b
        OBVIOUS
      <3>2. b < u
        <4>1. SUFFICES ASSUME u <= b PROVE FALSE
          BY <1>3, <3>1
        <4>2. u \in a + 1 .. b
          BY <1>3, <3>1, <4>1
        <4> QED BY <1>3, <4>2
      <3> QED BY <1>3, <3>1, <3>2
    <2>2. ASSUME NEW b \in a + 1 .. u - 1 PROVE b \in S
      <3>1. b \in Nat /\ a < b /\ ~(u <= b)
        BY <1>3
      <3>2. b \notin Out
        BY <1>2, <3>1
      <3> QED BY <3>1, <3>2
    <2> QED BY <2>1, <2>2
  <1>5. Cardinality(S) = u - 1 - a
    <2>1. a + 1 \in Int /\ u - 1 \in Int
      BY <1>3
    <2>2. Cardinality(a + 1 .. u - 1) = IF a + 1 > u - 1 THEN 0 ELSE u - 1 - (a + 1) + 1
      BY <2>1, FS_Interval
    <2> QED BY <1>3, <1>4, <2>2
  <1>6. a + Cardinality(S) = u - 1
    BY <1>3, <1>5
  <1> QED BY <1>3, <1>4, <1>6

-----------------------------------------------------------------------------
(***************************************************************************)
(* Where a reader is in a stream, and where messages lead it.              *)
(***************************************************************************)

Orders == Seq(Item)
Beats == Seq(Orders)
StreamMsg == [op : {"Order", "Advance"}, item : Item]

(* The beats it has whole, and what it has of the next one.                  *)
Place == [beats : Beats, part : Orders]

At(i, x) == [beats |-> stream[i][x], part |-> open[i][x]]

(* The messages of a stream name the beat they belong to.                    *)
Takes(p, msg, q) ==
    /\ msg.item.beat = Len(p.beats) + 1
    /\ \/ /\ msg.op = "Order"
          /\ q.beats = p.beats /\ q.part = Append(p.part, msg.item)
       \/ /\ msg.op = "Advance"
          /\ q.beats = Append(p.beats, Append(p.part, msg.item)) /\ q.part = <<>>

(* Reading the messages msgs one after another leads from p to q.            *)
Leads(p, msgs, q) ==
    /\ msgs \in Seq(StreamMsg)
    /\ \E at \in [0 .. Len(msgs) -> Place] :
         /\ at[0] = p
         /\ at[Len(msgs)] = q
         /\ \A n \in 1 .. Len(msgs) : Takes(at[n - 1], msgs[n], at[n])

(* What messages lead from and to are places in a stream.                    *)
LEMMA LeadsEnds ==
    ASSUME NEW p, NEW q, NEW msgs, Leads(p, msgs, q)
    PROVE  p \in Place /\ q \in Place
  <1>1. 0 \in 0 .. Len(msgs) /\ Len(msgs) \in 0 .. Len(msgs)
    BY DEF Leads
  <1> QED BY <1>1 DEF Leads

(* No message leads nowhere.                                                 *)
LEMMA LeadsEmpty ==
    ASSUME NEW p \in Place
    PROVE  Leads(p, <<>>, p)
  <1> DEFINE at == [n \in 0 .. 0 |-> p]
  <1>1. /\ Len(<<>>) = 0
        /\ 1 .. 0 = {}
        /\ at \in [0 .. 0 -> Place]
        /\ at[0] = p
        /\ <<>> \in Seq(StreamMsg)
    OBVIOUS
  <1> HIDE DEF at
  <1> QED BY <1>1 DEF Leads

(* No messages lead nowhere.                                                 *)
LEMMA LeadsNowhere ==
    ASSUME NEW p, NEW q, Leads(p, <<>>, q)
    PROVE  p = q
  <1>1. Len(<<>>) = 0
    OBVIOUS
  <1> QED BY <1>1 DEF Leads

(* One more message.                                                         *)
LEMMA LeadsAppend ==
    ASSUME NEW p, NEW q, NEW r \in Place, NEW msgs, NEW msg \in StreamMsg,
           Leads(p, msgs, q), Takes(q, msg, r)
    PROVE  Leads(p, Append(msgs, msg), r)
  <1> DEFINE len == Len(msgs)
             longer == Append(msgs, msg)
  <1>1. PICK at \in [0 .. len -> Place] :
             /\ at[0] = p
             /\ at[len] = q
             /\ \A n \in 1 .. len : Takes(at[n - 1], msgs[n], at[n])
    BY DEF Leads
  <1> DEFINE on == [n \in 0 .. len + 1 |-> IF n <= len THEN at[n] ELSE r]
  <1>2. /\ len \in Nat
        /\ longer \in Seq(StreamMsg)
        /\ Len(longer) = len + 1
        /\ longer[len + 1] = msg
        /\ \A m \in 1 .. len : longer[m] = msgs[m]
    BY DEF Leads
  <1>3. on \in [0 .. len + 1 -> Place]
    BY <1>1, <1>2
  <1>4. /\ on[0] = p
        /\ on[len + 1] = r
        /\ \A m \in 0 .. len : on[m] = at[m]
    BY <1>1, <1>2
  <1>5. ASSUME NEW m \in 1 .. len + 1
        PROVE  Takes(on[m - 1], longer[m], on[m])
    <2>1. CASE m \in 1 .. len
      <3>1. m \in 0 .. len /\ m - 1 \in 0 .. len
        BY <1>2, <2>1
      <3>2. on[m] = at[m] /\ on[m - 1] = at[m - 1]
        BY <1>4, <3>1
      <3> QED BY <1>1, <1>2, <2>1, <3>2
    <2>2. CASE m = len + 1
      <3>1. m - 1 = len /\ len \in 0 .. len
        BY <1>2, <2>2
      <3>2. on[m - 1] = q /\ on[m] = r
        BY <1>1, <1>4, <2>2, <3>1
      <3> QED BY <1>2, <2>2, <3>2
    <2> QED BY <1>2, <2>1, <2>2
  <1> HIDE DEF on, longer
  <1> QED BY <1>2, <1>3, <1>4, <1>5 DEF Leads, longer

(* The first message is read.                                                *)
LEMMA LeadsTail ==
    ASSUME NEW p, NEW q, NEW msgs, Leads(p, msgs, q), msgs # <<>>
    PROVE  /\ Head(msgs) \in StreamMsg
           /\ \E r \in Place : Takes(p, Head(msgs), r) /\ Leads(r, Tail(msgs), q)
  <1> DEFINE len == Len(msgs)
             rest == Tail(msgs)
  <1>1. PICK at \in [0 .. len -> Place] :
             /\ at[0] = p
             /\ at[len] = q
             /\ \A n \in 1 .. len : Takes(at[n - 1], msgs[n], at[n])
    BY DEF Leads
  <1> DEFINE on == [m \in 0 .. len - 1 |-> at[m + 1]]
  <1>2. /\ len \in Nat
        /\ len >= 1
        /\ Len(rest) = len - 1
        /\ rest \in Seq(StreamMsg)
        /\ Head(msgs) = msgs[1]
        /\ Head(msgs) \in StreamMsg
        /\ \A m \in 1 .. len - 1 : rest[m] = msgs[m + 1] /\ m + 1 \in 1 .. len
    BY DEF Leads
  <1>3. 1 \in 1 .. len /\ 1 \in 0 .. len /\ 0 \in 0 .. len - 1 /\ len - 1 \in 0 .. len - 1
    BY <1>2
  <1>4. Takes(p, Head(msgs), at[1]) /\ at[1] \in Place
    <2>1. Takes(at[1 - 1], msgs[1], at[1])
      BY <1>1, <1>3
    <2>2. 1 - 1 = 0
      OBVIOUS
    <2> QED BY <1>1, <1>2, <1>3, <2>1, <2>2
  <1>5. on \in [0 .. len - 1 -> Place]
    BY <1>1, <1>2
  <1>6. on[0] = at[1]
    BY <1>3
  <1>7. on[len - 1] = q
    <2>1. len - 1 + 1 = len
      BY <1>2
    <2> QED BY <1>1, <1>3, <2>1
  <1>8. ASSUME NEW m \in 1 .. len - 1
        PROVE  Takes(on[m - 1], rest[m], on[m])
    <2>1. /\ m \in 0 .. len - 1
          /\ m - 1 \in 0 .. len - 1
          /\ m - 1 + 1 = m
          /\ m + 1 - 1 = m
          /\ m + 1 \in 1 .. len
      BY <1>2
    <2>2. on[m] = at[m + 1] /\ on[m - 1] = at[m]
      BY <2>1
    <2>3. Takes(at[m], msgs[m + 1], at[m + 1])
      BY <1>1, <2>1
    <2> QED BY <1>2, <2>2, <2>3
  <1> HIDE DEF on, rest
  <1>9. Leads(at[1], rest, q)
    BY <1>2, <1>5, <1>6, <1>7, <1>8 DEF Leads
  <1> QED BY <1>2, <1>4, <1>9 DEF rest

(* The first beats of T are those of S.                                      *)
Agrees(S, T) == Len(S) <= Len(T) /\ \A b \in 1 .. Len(S) : S[b] = T[b]

(* A stream agrees with itself.                                              *)
LEMMA AgreesWithItself == ASSUME NEW S \in Beats PROVE Agrees(S, S)
  BY DEF Agrees, Beats

(* A beginning of a beginning is a beginning.                                *)
LEMMA AgreesOn ==
    ASSUME NEW S \in Beats, NEW T \in Beats, NEW U \in Beats, Agrees(S, T), Agrees(T, U)
    PROVE  Agrees(S, U)
  <1>1. Len(S) \in Nat /\ Len(T) \in Nat /\ Len(U) \in Nat
    BY DEF Beats
  <1> QED BY <1>1 DEF Agrees

(* A beginning as long as the whole is the whole.                            *)
LEMMA SameBeats ==
    ASSUME NEW S \in Beats, NEW T \in Beats, Agrees(S, T), Len(T) <= Len(S)
    PROVE  S = T
  <1>1. Len(S) \in Nat /\ Len(T) \in Nat
    BY DEF Beats
  <1>2. Len(S) = Len(T) /\ \A b \in 1 .. Len(S) : S[b] = T[b]
    BY <1>1 DEF Agrees
  <1>3. S = [b \in 1 .. Len(S) |-> S[b]] /\ T = [b \in 1 .. Len(T) |-> T[b]]
    BY DEF Beats
  <1> QED BY <1>2, <1>3

(* A message adds a beat or part of one.                                     *)
LEMMA TakesOn ==
    ASSUME NEW p \in Place, NEW q \in Place, NEW msg \in StreamMsg, Takes(p, msg, q)
    PROVE  /\ Agrees(p.beats, q.beats)
           /\ Len(p.beats) \in Nat /\ Len(q.beats) \in Nat /\ msg.item.beat = Len(p.beats) + 1
           /\ Len(q.beats) <= msg.item.beat
           /\ Len(q.beats) = msg.item.beat => q.part = <<>>
  <1>1. p.beats \in Beats /\ q.beats \in Beats /\ p.part \in Orders /\ msg.item \in Item
    BY DEF Place, StreamMsg
  <1>2. Len(p.beats) \in Nat /\ msg.item.beat = Len(p.beats) + 1
    BY <1>1 DEF Beats, Takes
  <1>3. CASE q.beats = p.beats
    BY <1>1, <1>2, <1>3, AgreesWithItself
  <1>4. CASE q.beats = Append(p.beats, Append(p.part, msg.item)) /\ q.part = <<>>
    <2>1. Append(p.part, msg.item) \in Orders
      BY <1>1 DEF Orders
    <2>2. /\ Len(q.beats) = Len(p.beats) + 1
          /\ \A b \in 1 .. Len(p.beats) : q.beats[b] = p.beats[b]
      <3> DEFINE o == Append(p.part, msg.item)
      <3> HIDE DEF o
      <3>1. o \in Orders /\ q.beats = Append(p.beats, o)
        BY <1>4, <2>1 DEF o
      <3> QED BY <1>1, <3>1 DEF Beats
    <2> QED BY <1>2, <1>4, <2>2 DEF Agrees
  <1> QED BY <1>3, <1>4 DEF Takes

(* Along the way beats are only added.                                       *)
LEMMA WayAgrees ==
    ASSUME NEW msgs \in Seq(StreamMsg), NEW at \in [0 .. Len(msgs) -> Place],
           \A n \in 1 .. Len(msgs) : Takes(at[n - 1], msgs[n], at[n]),
           NEW m \in 0 .. Len(msgs)
    PROVE  Agrees(at[m].beats, at[Len(msgs)].beats)
  <1> DEFINE len == Len(msgs)
             Good == {n \in Nat : m + n <= len => Agrees(at[m].beats, at[m + n].beats)}
  <1>1. len \in Nat /\ m \in Nat /\ m <= len
    OBVIOUS
  <1>2. \A n \in 0 .. len : at[n] \in Place /\ at[n].beats \in Beats
    BY DEF Place
  <1>3. 0 \in Good
    <2>1. Agrees(at[m].beats, at[m].beats)
      BY <1>2, AgreesWithItself
    <2> QED BY <1>1, <2>1
  <1>4. ASSUME NEW n \in Good PROVE n + 1 \in Good
    <2> SUFFICES ASSUME m + (n + 1) <= len PROVE Agrees(at[m].beats, at[m + (n + 1)].beats)
      OBVIOUS
    <2>1. /\ n \in Nat /\ m + n <= len /\ m + n \in 0 .. len /\ m + (n + 1) \in 1 .. len
          /\ m + (n + 1) \in 0 .. len /\ m + (n + 1) - 1 = m + n
      BY <1>1
    <2>2. Agrees(at[m].beats, at[m + n].beats)
      BY <2>1
    <2>3. Takes(at[m + n], msgs[m + (n + 1)], at[m + (n + 1)])
      BY <2>1
    <2>4. msgs[m + (n + 1)] \in StreamMsg
      BY <2>1
    <2>5. Agrees(at[m + n].beats, at[m + (n + 1)].beats)
      BY <1>2, <2>1, <2>3, <2>4, TakesOn
    <2> QED BY <1>2, <2>1, <2>2, <2>5, AgreesOn
  <1>5. Good = Nat
    <2>1. Good \in SUBSET Nat
      OBVIOUS
    <2> HIDE DEF Good
    <2> QED BY <1>3, <1>4, <2>1, Induct
  <1>6. len - m \in Nat /\ m + (len - m) = len
    BY <1>1
  <1>7. len - m \in Good
    BY <1>5, <1>6
  <1>8. m + (len - m) <= len
    BY <1>1, <1>6
  <1>9. Agrees(at[m].beats, at[m + (len - m)].beats)
    BY <1>7, <1>8
  <1> QED BY <1>6, <1>9

(* What messages lead on from is a beginning of what they lead to.           *)
LEMMA LeadsAgree ==
    ASSUME NEW p, NEW q, NEW msgs, Leads(p, msgs, q)
    PROVE  Agrees(p.beats, q.beats)
  <1>1. msgs \in Seq(StreamMsg)
    BY DEF Leads
  <1>2. PICK at \in [0 .. Len(msgs) -> Place] :
             /\ at[0] = p
             /\ at[Len(msgs)] = q
             /\ \A n \in 1 .. Len(msgs) : Takes(at[n - 1], msgs[n], at[n])
    BY DEF Leads
  <1>3. 0 \in 0 .. Len(msgs)
    BY <1>1
  <1> QED BY <1>1, <1>2, <1>3, WayAgrees

(* What is left of the way after the first c messages.                       *)
LEMMA LeadsRest ==
    ASSUME NEW msgs \in Seq(StreamMsg), NEW at \in [0 .. Len(msgs) -> Place],
           \A n \in 1 .. Len(msgs) : Takes(at[n - 1], msgs[n], at[n]),
           NEW c \in 0 .. Len(msgs)
    PROVE  Leads(at[c], SubSeq(msgs, c + 1, Len(msgs)), at[Len(msgs)])
  <1> DEFINE len == Len(msgs)
             rest == SubSeq(msgs, c + 1, len)
             on == [m \in 0 .. len - c |-> at[m + c]]
  <1>1. len \in Nat /\ c \in Nat /\ c <= len /\ len - c \in Nat
    OBVIOUS
  <1>2. /\ Len(rest) = len - c
        /\ rest \in Seq(StreamMsg)
        /\ \A m \in 1 .. len - c : rest[m] = msgs[m + c]
    BY <1>1
  <1>3. on \in [0 .. len - c -> Place]
    BY <1>1
  <1>4. on[0] = at[c] /\ on[len - c] = at[len]
    BY <1>1
  <1>5. ASSUME NEW m \in 1 .. len - c PROVE Takes(on[m - 1], rest[m], on[m])
    <2>1. /\ m \in 0 .. len - c /\ m - 1 \in 0 .. len - c
          /\ m - 1 + c = m + c - 1 /\ m + c \in 1 .. len
      BY <1>1
    <2>2. on[m] = at[m + c] /\ on[m - 1] = at[m + c - 1]
      BY <2>1
    <2> QED BY <1>2, <2>1, <2>2
  <1> HIDE DEF on, rest
  <1>6. Leads(at[c], rest, at[len])
    BY <1>2, <1>3, <1>4, <1>5 DEF Leads
  <1> QED BY <1>6 DEF rest

(* Messages of beats through the first c, of which st has all.                *)
Through(msgs, b) == {n \in 1 .. Len(msgs) : \A m \in 1 .. n : msgs[m].item.beat <= b}

(* Where the messages of beats through b end.                                *)
LEMMA ThroughIs ==
    ASSUME NEW msgs \in Seq(StreamMsg), NEW b \in Nat
    PROVE  LET c == Cardinality(Through(msgs, b))
           IN  /\ c \in 0 .. Len(msgs)
               /\ c > 0 => msgs[c].item.beat <= b
               /\ c < Len(msgs) => msgs[c + 1].item.beat > b
  <1> DEFINE C == Through(msgs, b)
             c == Cardinality(C)
  <1>1. Len(msgs) \in Nat
    OBVIOUS
  <1>2. C \subseteq 0 + 1 .. Len(msgs)
    BY DEF Through
  <1>3. ASSUME NEW n \in C, NEW d \in 0 + 1 .. n PROVE d \in C
    BY <1>1 DEF Through
  <1>4. /\ 0 + c \in Nat
        /\ 0 + c = 0 \/ 0 + c \in C
        /\ \A n \in C : n <= 0 + c
    <2> HIDE DEF C
    <2> QED BY <1>1, <1>2, <1>3, CountedReach
  <1>5. c \in Nat /\ (c = 0 \/ c \in C) /\ \A n \in C : n <= c
    <2>1. IsFiniteSet(0 + 1 .. Len(msgs))
      BY <1>1, FS_Interval
    <2>2. c \in Nat
      BY <1>2, <2>1, FS_Subset, FS_CardinalityType
    <2> HIDE DEF c, C
    <2> QED BY <1>4, <2>2
  <1> HIDE DEF c
  <1>6. c \in 0 .. Len(msgs)
    BY <1>1, <1>2, <1>5
  <1>7. c > 0 => msgs[c].item.beat <= b
    BY <1>5 DEF Through
  <1>8. ASSUME c < Len(msgs), ~(msgs[c + 1].item.beat > b) PROVE FALSE
    <2>1. c + 1 \in 1 .. Len(msgs) /\ ~(c + 1 <= c)
      BY <1>1, <1>6, <1>8
    <2>2. msgs[c + 1].item.beat \in Nat
      <3>1. msgs[c + 1] \in StreamMsg
        BY <2>1
      <3> QED BY <3>1 DEF StreamMsg, Item
    <2>3. \A m \in 1 .. c : msgs[m].item.beat <= b
      BY <1>5 DEF Through
    <2>4. \A m \in 1 .. c + 1 : msgs[m].item.beat <= b
      BY <1>6, <1>8, <2>2, <2>3
    <2>5. c + 1 \in C
      BY <2>1, <2>4 DEF Through
    <2> QED BY <1>5, <2>1, <2>5
  <1> QED BY <1>6, <1>7, <1>8 DEF c

(* A reader that already has the beats st skips the messages of those beats  *)
(* and goes on from there.                                                   *)
LEMMA LeadsSkip ==
    ASSUME NEW p, NEW q, NEW msgs, Leads(p, msgs, q),
           NEW st \in Beats, Agrees(st, q.beats), Len(p.beats) < Len(st)
    PROVE  Leads([beats |-> st, part |-> <<>>],
                 SubSeq(msgs, Cardinality(Through(msgs, Len(st))) + 1, Len(msgs)), q)
  <1> DEFINE len == Len(msgs)
             c == Cardinality(Through(msgs, Len(st)))
  <1>1. msgs \in Seq(StreamMsg) /\ len \in Nat /\ Len(st) \in Nat
    BY DEF Leads, Beats
  <1>2. PICK at \in [0 .. len -> Place] :
             /\ at[0] = p
             /\ at[len] = q
             /\ \A n \in 1 .. len : Takes(at[n - 1], msgs[n], at[n])
    BY DEF Leads
  <1>3. /\ c \in 0 .. len
        /\ c > 0 => msgs[c].item.beat <= Len(st)
        /\ c < len => msgs[c + 1].item.beat > Len(st)
    BY <1>1, ThroughIs
  <1> HIDE DEF c
  <1>4. /\ at[c] \in Place /\ at[c].beats \in Beats /\ at[c].part \in Orders
        /\ Len(at[c].beats) \in Nat /\ q.beats \in Beats /\ Len(q.beats) \in Nat
    BY <1>1, <1>2, <1>3 DEF Place, Beats
  <1>5. ASSUME c > 0
        PROVE  /\ Len(at[c].beats) <= msgs[c].item.beat
               /\ Len(at[c].beats) = msgs[c].item.beat => at[c].part = <<>>
               /\ msgs[c].item.beat \in Nat
    <2>1. c \in 1 .. len /\ c \in 0 .. len /\ c - 1 \in 0 .. len
      BY <1>1, <1>3, <1>5
    <2>2. Takes(at[c - 1], msgs[c], at[c]) /\ msgs[c] \in StreamMsg
      BY <1>1, <1>2, <2>1
    <2>3. msgs[c].item.beat \in Nat
      BY <2>2 DEF StreamMsg, Item
    <2> QED BY <1>2, <2>1, <2>2, <2>3, TakesOn
  <1>6. ASSUME c < len PROVE Len(st) <= Len(at[c].beats)
    <2>1. c + 1 \in 1 .. len /\ c + 1 \in 0 .. len /\ c + 1 - 1 = c
      BY <1>1, <1>3, <1>6
    <2>2. Takes(at[c], msgs[c + 1], at[c + 1])
      <3>1. Takes(at[(c + 1) - 1], msgs[c + 1], at[c + 1])
        BY <1>2, <2>1
      <3>2. (c + 1) - 1 = c
        BY <1>1, <1>3
      <3> QED BY <3>1, <3>2
    <2>3. msgs[c + 1].item.beat = Len(at[c].beats) + 1
      BY <2>2 DEF Takes
    <2>4. msgs[c + 1].item.beat > Len(st)
      BY <1>3, <1>6
    <2> QED BY <1>1, <1>4, <2>3, <2>4
  <1>7. Len(st) <= Len(at[c].beats)
    <2>1. CASE c = len
      BY <1>2, <2>1 DEF Agrees
    <2> QED BY <1>1, <1>3, <1>6, <2>1
  <1>8. c > 0
    <2>1. SUFFICES ASSUME c = 0 PROVE FALSE
      BY <1>1, <1>3
    <2> QED BY <1>1, <1>2, <1>4, <1>7, <2>1
  <1>9. Len(at[c].beats) = Len(st) /\ at[c].part = <<>>
    BY <1>1, <1>3, <1>4, <1>5, <1>7, <1>8
  <1>10. Agrees(at[c].beats, q.beats)
    BY <1>1, <1>2, <1>3, WayAgrees
  <1>11. st = at[c].beats
    <2>1. Agrees(st, at[c].beats)
      BY <1>9, <1>10, <1>1 DEF Agrees
    <2> QED BY <1>1, <1>4, <1>9, <2>1, SameBeats
  <1>12. at[c] = [beats |-> st, part |-> <<>>]
    BY <1>4, <1>9, <1>11 DEF Place
  <1>13. Leads(at[c], SubSeq(msgs, c + 1, len), q)
    BY <1>1, <1>2, <1>3, LeadsRest
  <1> QED BY <1>12, <1>13 DEF c

(* What a message does to a reader, whatever beat it names.                  *)
Adds(p, msg, q) ==
    \/ msg.op = "Order" /\ q.beats = p.beats /\ q.part = Append(p.part, msg.item)
    \/ msg.op = "Advance" /\ q.beats = Append(p.beats, Append(p.part, msg.item)) /\ q.part = <<>>

(* The first message is read.                                                *)
LEMMA LeadsRead ==
    ASSUME NEW p, NEW q, NEW msgs, Leads(p, msgs, q), msgs # <<>>,
           NEW r \in Place, Adds(p, Head(msgs), r)
    PROVE  /\ Leads(r, Tail(msgs), q)
           /\ Head(msgs).item.beat = Len(p.beats) + 1
  <1>1. PICK s \in Place : Takes(p, Head(msgs), s) /\ Leads(s, Tail(msgs), q)
    BY LeadsTail
  <1>2. s.beats = r.beats /\ s.part = r.part
    BY <1>1 DEF Takes, Adds
  <1>3. s = r
    BY <1>2 DEF Place
  <1> QED BY <1>1, <1>3 DEF Takes

-----------------------------------------------------------------------------
(***************************************************************************)
(* Types.                                                                  *)
(***************************************************************************)

Msg == StreamMsg \cup [op : {"Cut"}, cut : Nat]

Report == [dispatched : Nat, queued : [Client -> Nat], beats : [Client -> Beats],
           orders : Orders]

Types ==
    /\ stream \in [Client -> [Client -> Beats]]
    /\ open \in [Client -> [Client -> Orders]]
    /\ dispatched \in [Client -> Nat]
    /\ available \in [Client -> Nat]
    /\ ack \in [Client -> [Client -> [Client -> Nat]]]
    /\ told \in [Client -> [Client -> [Client -> Nat]]]
    /\ link \in [Client -> [Client -> Seq(Msg)]]
    /\ lost \subseteq Peer
    /\ serves \in [Peer -> Nat]
    /\ phase \in {"Up", "Asking", "CatchingUp"}
    /\ report \in [Peer -> Report \cup {NoReport}]
    /\ cut \in Nat
    /\ crashes \in Nat
    /\ orders \in Nat
    /\ crashes + orders <= MaxEvents

(* What is assumed of the constants.                                         *)
LEMMA PeersAre ==
    /\ Restarter \in Client
    /\ Peer \subseteq Client
    /\ Restarter \notin Peer
    /\ \A i \in Client : i # Restarter => i \in Peer
    /\ Recorder \in Peer /\ Recorder \in Client
    /\ MaxBeat \in Nat /\ MaxBeat >= 1 /\ MaxEvents \in Nat /\ Talkers \subseteq Peer
    /\ IsFiniteSet(Client)
  BY RejoinAssumption DEF Peer

(* A stream has a length.                                                    *)
LEMMA QueuedType ==
    ASSUME Types, NEW i \in Client, NEW x \in Client
    PROVE  Queued(i, x) \in Nat
  BY DEF Types, Queued, Beats

(* What is held of a stream is a place in it.                                *)
LEMMA AtType ==
    ASSUME Types, NEW i \in Client, NEW x \in Client
    PROVE  At(i, x) \in Place
  BY DEF Types, At, Place

(* What a player says is a message of its stream.                            *)
LEMMA SaidType ==
    ASSUME Types, NEW i, NEW q \in Nat
    PROVE  /\ Said(i, q) \in Item
           /\ OrderMsg(Said(i, q)) \in StreamMsg /\ AdvanceMsg(Said(i, q)) \in StreamMsg
           /\ OrderMsg(Said(i, q)) \in Msg /\ AdvanceMsg(Said(i, q)) \in Msg
  <1>1. Said(i, q) \in Item
    BY DEF Types, Said, RunOf, Item
  <1> QED BY <1>1 DEF OrderMsg, AdvanceMsg, StreamMsg, Msg

(* A message sent is added to the links it goes out on, and to no other.     *)
LEMMA BroadcastIs ==
    ASSUME Types, NEW i \in Client, NEW msg \in Msg, link' = Broadcast(link, i, msg)
    PROVE  /\ link' \in [Client -> [Client -> Seq(Msg)]]
           /\ \A j, k \in Client : j # i => link'[j][k] = link[j][k]
           /\ \A k \in Client : Reaches(i, k) /\ ~Pending(i, k) =>
                link'[i][k] = Append(link[i][k], msg)
           /\ \A k \in Client : ~(Reaches(i, k) /\ ~Pending(i, k)) => link'[i][k] = link[i][k]
  <1> DEFINE row == [k \in Client |->
                IF Reaches(i, k) /\ ~Pending(i, k) THEN Append(link[i][k], msg) ELSE link[i][k]]
  <1>1. link' = [link EXCEPT ![i] = row]
    BY DEF Broadcast
  <1>2. ASSUME NEW k \in Client PROVE link[i][k] \in Seq(Msg) /\ Append(link[i][k], msg) \in Seq(Msg)
    BY DEF Types
  <1>3. row \in [Client -> Seq(Msg)]
    BY <1>2
  <1>4. /\ link' \in [Client -> [Client -> Seq(Msg)]]
        /\ link'[i] = row
        /\ \A j \in Client : j # i => link'[j] = link[j]
    <2> HIDE DEF row
    <2>1. PICK M : M = [Client -> Seq(Msg)]
      OBVIOUS
    <2>2. link \in [Client -> M] /\ row \in M
      BY <1>3, <2>1 DEF Types
    <2>3. link' \in [Client -> M] /\ link'[i] = row /\ \A j \in Client : j # i => link'[j] = link[j]
      BY <1>1, <2>2
    <2> QED BY <2>1, <2>3
  <1> QED BY <1>4

(* A message read is gone from its link, and no other is.                    *)
LEMMA RestIs ==
    ASSUME Types, NEW i \in Client, NEW k \in Client, link[k][i] # <<>>, link' = Rest(i, k)
    PROVE  /\ link' \in [Client -> [Client -> Seq(Msg)]]
           /\ link'[k][i] = Tail(link[k][i])
           /\ \A j, l \in Client : j # k \/ l # i => link'[j][l] = link[j][l]
           /\ Head(link[k][i]) \in Msg
  <1>1. link[k][i] \in Seq(Msg)
    BY DEF Types
  <1>2. Tail(link[k][i]) \in Seq(Msg) /\ Head(link[k][i]) \in Msg
    BY <1>1
  <1> QED BY <1>2 DEF Types, Rest

(* What telling an ack changes.                                              *)
LEMMA TellIs ==
    ASSUME Types, NEW i \in Client, NEW x \in Client, NEW b \in Nat, told' = Tell(told, i, x, b)
    PROVE  /\ told' \in [Client -> [Client -> [Client -> Nat]]]
           /\ \A j, k, y \in Client : j # i \/ y # x \/ ~Reaches(i, k) => told'[j][k][y] = told[j][k][y]
           /\ \A k \in Client : told'[i][k][x] = told[i][k][x] \/ told'[i][k][x] = b
  <1> DEFINE row == [k \in Client |->
        IF Reaches(i, k) THEN [told[i][k] EXCEPT ![x] = Most(@, b)] ELSE told[i][k]]
  <1>1. told' = [told EXCEPT ![i] = row]
    BY DEF Tell
  <1>2. ASSUME NEW k \in Client
        PROVE  /\ row[k] \in [Client -> Nat]
               /\ \A y \in Client : y # x \/ ~Reaches(i, k) => row[k][y] = told[i][k][y]
               /\ row[k][x] = told[i][k][x] \/ row[k][x] = b
    <2>1. told[i][k] \in [Client -> Nat] /\ told[i][k][x] \in Nat
      BY DEF Types
    <2>2. CASE Reaches(i, k)
      <3> DEFINE m == Most(told[i][k][x], b)
      <3>1. m \in Nat /\ (m = told[i][k][x] \/ m = b)
        BY <2>1 DEF Most
      <3>2. row[k] = [told[i][k] EXCEPT ![x] = m]
        BY <2>2
      <3> HIDE DEF row, m
      <3> QED BY <2>1, <2>2, <3>1, <3>2
    <2>3. CASE ~Reaches(i, k)
      <3>1. row[k] = told[i][k]
        BY <2>3
      <3> HIDE DEF row
      <3> QED BY <2>1, <3>1
    <2> QED BY <2>2, <2>3
  <1>3. row \in [Client -> [Client -> Nat]]
    <2>1. \A k \in Client : row[k] \in [Client -> Nat]
      BY <1>2
    <2> QED BY <2>1
  <1>4. /\ told' \in [Client -> [Client -> [Client -> Nat]]]
        /\ told'[i] = row
        /\ \A j \in Client : j # i => told'[j] = told[j]
    <2>1. told \in [Client -> [Client -> [Client -> Nat]]]
      BY DEF Types
    <2> HIDE DEF row
    <2> QED BY <1>1, <1>3, <2>1
  <1> HIDE DEF row
  <1>5. \A k \in Client : told'[i][k] = row[k]
    BY <1>4
  <1>6. \A j, k, y \in Client : j # i => told'[j][k][y] = told[j][k][y]
    BY <1>4
  <1>7. \A k, y \in Client : y # x \/ ~Reaches(i, k) => told'[i][k][y] = told[i][k][y]
    BY <1>2, <1>5
  <1>8. \A k \in Client : told'[i][k][x] = told[i][k][x] \/ told'[i][k][x] = b
    BY <1>2, <1>5
  <1> QED BY <1>4, <1>6, <1>7, <1>8

(* mAvailableBeat steps to the last beat everybody acked, and no further.    *)
LEMMA AvailableIs ==
    ASSUME Types, ack' \in [Client -> [Client -> [Client -> Nat]]], NEW i \in Client,
           StepAvailable(i)
    PROVE  /\ available' \in [Client -> Nat]
           /\ \A j \in Client : j # i => available'[j] = available[j]
           /\ available[i] <= available'[i]
           /\ available'[i] = available[i] \/ (available'[i] <= MaxBeat /\ AckedByAll(ack'[i], available'[i]))
           /\ \A b \in Nat : b <= MaxBeat /\ AckedByAll(ack'[i], b) => b <= available'[i]
  <1> DEFINE a == available[i]
             S == {b \in a + 1 .. MaxBeat : AckedByAll(ack'[i], b)}
  <1>1. a \in Nat /\ MaxBeat \in Nat
    BY PeersAre DEF Types
  <1>2. ASSUME NEW b \in Nat, AckedByAll(ack'[i], b), NEW d \in Nat, d <= b
        PROVE  AckedByAll(ack'[i], d)
    <2>1. \A k, x \in Client : ack'[i][k][x] \in Nat
      OBVIOUS
    <2> QED BY <1>2, <2>1 DEF AckedByAll
  <1>3. S \subseteq a + 1 .. MaxBeat /\ \A b \in S : \A d \in a + 1 .. b : d \in S
    BY <1>1, <1>2
  <1>4. available' = [available EXCEPT ![i] = a + Cardinality(S)]
    BY DEF StepAvailable
  <1>5. /\ a + Cardinality(S) \in Nat
        /\ a <= a + Cardinality(S)
        /\ a + Cardinality(S) = a \/ a + Cardinality(S) \in S
        /\ \A b \in S : b <= a + Cardinality(S)
    <2> HIDE DEF a, S
    <2> QED BY <1>1, <1>3, CountedReach
  <1> DEFINE n == a + Cardinality(S)
  <1>6. available' \in [Client -> Nat] /\ available'[i] = n
        /\ \A j \in Client : j # i => available'[j] = available[j]
    <2>1. n \in Nat /\ available' = [available EXCEPT ![i] = n]
      BY <1>4, <1>5
    <2> HIDE DEF n
    <2> QED BY <2>1 DEF Types
  <1>7. ASSUME NEW b \in Nat, b <= MaxBeat, AckedByAll(ack'[i], b) PROVE b <= n
    <2>1. CASE b <= a
      BY <1>1, <1>5, <2>1
    <2>2. CASE a < b
      <3>1. b \in S
        BY <1>1, <1>7, <2>2
      <3> QED BY <1>5, <3>1
    <2> QED BY <1>1, <2>1, <2>2
  <1>8. n = a \/ (n <= MaxBeat /\ AckedByAll(ack'[i], n))
    BY <1>1, <1>5
  <1>9. a <= n
    BY <1>5
  <1> HIDE DEF n, S
  <1> QED BY <1>6, <1>7, <1>8, <1>9

(***************************************************************************)
(* What each action does to the streams and the links.                     *)
(***************************************************************************)

(* Nothing is held that was not, but of stream x at i.                       *)
Only(i, x) ==
    /\ stream' \in [Client -> [Client -> Beats]]
    /\ open' \in [Client -> [Client -> Orders]]
    /\ \A j, y \in Client : j # i \/ y # x =>
         stream'[j][y] = stream[j][y] /\ open'[j][y] = open[j][y]

Control == UNCHANGED <<lost, serves, phase, report, cut, crashes>>

(* A player says one more message of its own stream.                         *)
Say(i, msg) ==
    /\ i \in Client
    /\ msg \in StreamMsg
    /\ msg.item = Said(i, Queued(i, i) + 1)
    /\ Adds(At(i, i), msg, At(i, i)')
    /\ Only(i, i)
    /\ link' = Broadcast(link, i, msg)
    /\ Control

Says(i) == Playing(i) /\ \E msg \in StreamMsg : Say(i, msg)

(* i reads the next message of k's stream.                                   *)
Hears(i, k) ==
    /\ i \in Client /\ k \in Client /\ i # k
    /\ Playing(i)
    /\ link[k][i] # <<>>
    /\ Head(link[k][i]) \in StreamMsg
    /\ Adds(At(i, k), Head(link[k][i]), At(i, k)')
    /\ Only(i, k)
    /\ link' = Rest(i, k)
    /\ Control

Quiet == UNCHANGED <<stream, open, link>> /\ Control

(* One entry of a table of tables is replaced.                               *)
LEMMA Replaced ==
    ASSUME NEW S, NEW f \in [Client -> [Client -> S]], NEW g, NEW i \in Client,
           NEW x \in Client, NEW v \in S, g = [f EXCEPT ![i][x] = v]
    PROVE  /\ g \in [Client -> [Client -> S]]
           /\ g[i][x] = v
           /\ \A j, y \in Client : j # i \/ y # x => g[j][y] = f[j][y]
  OBVIOUS

(* GiveOrder: a peer says it, while the restarter is away.                   *)
LEMMA GiveOrderSays ==
    ASSUME Types, NEW i \in Client, GiveOrder(i)
    PROVE  Says(i) /\ i \in Peer /\ phase # "Up"
  <1> DEFINE item == Said(i, Queued(i, i) + 1)
             more == Append(open[i][i], item)
  <1>1. /\ i \in Talkers /\ phase # "Up"
        /\ open' = [open EXCEPT ![i][i] = more]
        /\ link' = Broadcast(link, i, OrderMsg(item))
        /\ stream' = stream
        /\ Control
    BY DEF GiveOrder, peerVars, returnVars, Control
  <1>2. item \in Item /\ OrderMsg(item) \in StreamMsg /\ OrderMsg(item) \in Msg
    BY QueuedType, SaidType
  <1>3. more \in Orders
    BY <1>2 DEF Types, Orders
  <1>4. i \in Peer /\ Playing(i)
    BY <1>1, PeersAre DEF Playing
  <1> HIDE DEF more, item
  <1>5. /\ open' \in [Client -> [Client -> Orders]]
        /\ open'[i][i] = more
        /\ \A j, y \in Client : j # i \/ y # i => open'[j][y] = open[j][y]
    <2>1. open \in [Client -> [Client -> Orders]]
      BY DEF Types
    <2> QED BY <1>1, <1>3, <2>1, Replaced
  <1>6. Only(i, i)
    BY <1>1, <1>5 DEF Only, Types
  <1>7. OrderMsg(item).op = "Order" /\ OrderMsg(item).item = item
    BY DEF OrderMsg
  <1>8. Adds(At(i, i), OrderMsg(item), At(i, i)')
    BY <1>1, <1>5, <1>7 DEF Adds, At, more
  <1>9. Say(i, OrderMsg(item))
    BY <1>1, <1>2, <1>6, <1>7, <1>8 DEF Say, item
  <1> QED BY <1>1, <1>2, <1>4, <1>9 DEF Says

(* The beat of a stream that is being taken ends.                            *)
LEMMA EndBeatIs ==
    ASSUME Types, NEW i \in Client, NEW x \in Client, NEW msg \in StreamMsg,
           msg.op = "Advance", EndBeat(i, x, msg.item)
    PROVE  /\ Only(i, x)
           /\ Adds(At(i, x), msg, At(i, x)')
           /\ Queued(i, x)' = Queued(i, x) + 1
  <1> DEFINE beat == Append(open[i][x], msg.item)
             more == Append(stream[i][x], beat)
  <1>1. msg.item \in Item
    BY DEF StreamMsg
  <1>2. open[i][x] \in Orders /\ stream[i][x] \in Beats
    BY DEF Types
  <1>3. beat \in Orders
    BY <1>1, <1>2 DEF Orders
  <1>4. more \in Beats /\ Len(more) = Len(stream[i][x]) + 1
    <2> HIDE DEF beat
    <2> QED BY <1>2, <1>3 DEF Beats
  <1>5. <<>> \in Orders
    BY DEF Orders
  <1>6. stream' = [stream EXCEPT ![i][x] = more] /\ open' = [open EXCEPT ![i][x] = <<>>]
    BY DEF EndBeat
  <1> HIDE DEF more
  <1>7. /\ stream' \in [Client -> [Client -> Beats]]
        /\ stream'[i][x] = more
        /\ \A j, y \in Client : j # i \/ y # x => stream'[j][y] = stream[j][y]
    <2>1. stream \in [Client -> [Client -> Beats]] /\ more \in Beats
      BY <1>4 DEF Types
    <2> QED BY <1>6, <2>1, Replaced
  <1>8. /\ open' \in [Client -> [Client -> Orders]]
        /\ open'[i][x] = <<>>
        /\ \A j, y \in Client : j # i \/ y # x => open'[j][y] = open[j][y]
    <2>1. open \in [Client -> [Client -> Orders]]
      BY DEF Types
    <2> QED BY <1>5, <1>6, <2>1, Replaced
  <1>9. Only(i, x)
    BY <1>7, <1>8 DEF Only
  <1>10. Adds(At(i, x), msg, At(i, x)')
    BY <1>7, <1>8 DEF Adds, At, more
  <1>11. Queued(i, x)' = Queued(i, x) + 1
    BY <1>4, <1>7 DEF Queued
  <1> QED BY <1>9, <1>10, <1>11

(* Issue: the player says it, and its stream is a beat longer.               *)
LEMMA IssueSays ==
    ASSUME Types, NEW i \in Client, Issue(i)
    PROVE  Says(i) /\ Queued(i, i)' = Queued(i, i) + 1
  <1> DEFINE msg == AdvanceMsg(Said(i, Queued(i, i) + 1))
  <1>1. msg \in StreamMsg /\ msg.op = "Advance" /\ msg.item = Said(i, Queued(i, i) + 1)
    BY QueuedType, SaidType DEF AdvanceMsg
  <1>2. /\ Playing(i)
        /\ EndBeat(i, i, msg.item)
        /\ link' = Broadcast(link, i, msg)
        /\ Control
    BY <1>1 DEF Issue, peerVars, returnVars, envVars, Control
  <1> HIDE DEF msg
  <1>3. Only(i, i) /\ Adds(At(i, i), msg, At(i, i)') /\ Queued(i, i)' = Queued(i, i) + 1
    BY <1>1, <1>2, EndBeatIs
  <1>4. Say(i, msg)
    BY <1>1, <1>2, <1>3 DEF Say
  <1> QED BY <1>1, <1>2, <1>3, <1>4 DEF Says

(* ReceiveOrder: nothing but the unfinished beat changes.                    *)
LEMMA ReceiveOrderHears ==
    ASSUME Types, NEW i \in Client, NEW k \in Client, ReceiveOrder(i, k)
    PROVE  Hears(i, k) /\ UNCHANGED <<stream, ack, told, dispatched, orders>>
  <1> DEFINE msg == Head(link[k][i])
             more == Append(open[i][k], msg.item)
  <1>1. /\ Playing(i) /\ i # k /\ link[k][i] # <<>> /\ msg.op = "Order"
        /\ open' = [open EXCEPT ![i][k] = more]
        /\ link' = Rest(i, k)
        /\ Control
        /\ UNCHANGED <<stream, ack, told, dispatched, orders>>
    BY DEF ReceiveOrder, Reads, peerVars, returnVars, envVars, Control
  <1>2. msg \in Msg
    BY <1>1, RestIs
  <1> HIDE DEF msg
  <1>3. msg \in StreamMsg /\ msg.item \in Item
    BY <1>1, <1>2 DEF Msg, StreamMsg
  <1>4. more \in Orders
    BY <1>3 DEF Types, Orders
  <1> HIDE DEF more
  <1>5. /\ open' \in [Client -> [Client -> Orders]]
        /\ open'[i][k] = more
        /\ \A j, y \in Client : j # i \/ y # k => open'[j][y] = open[j][y]
    <2>1. open \in [Client -> [Client -> Orders]]
      BY DEF Types
    <2> QED BY <1>1, <1>4, <2>1, Replaced
  <1>6. Only(i, k)
    BY <1>1, <1>5 DEF Only, Types
  <1>7. Adds(At(i, k), msg, At(i, k)')
    BY <1>1, <1>5 DEF Adds, At, more
  <1> QED BY <1>1, <1>3, <1>6, <1>7 DEF Hears, msg

(* ReceiveAdvance: the stream is a beat longer.                              *)
LEMMA ReceiveAdvanceHears ==
    ASSUME Types, NEW i \in Client, NEW k \in Client, ReceiveAdvance(i, k)
    PROVE  Hears(i, k) /\ Queued(i, k)' = Queued(i, k) + 1 /\ Head(link[k][i]).item.beat \in Nat
  <1> DEFINE msg == Head(link[k][i])
  <1>1. /\ Playing(i) /\ i # k /\ link[k][i] # <<>> /\ msg.op = "Advance"
        /\ EndBeat(i, k, msg.item)
        /\ link' = Rest(i, k)
        /\ Control
    BY DEF ReceiveAdvance, Reads, peerVars, returnVars, envVars, Control
  <1>2. msg \in Msg
    BY <1>1, RestIs
  <1> HIDE DEF msg
  <1>3. msg \in StreamMsg /\ msg.item \in Item /\ msg.item.beat \in Nat
    BY <1>1, <1>2 DEF Msg, StreamMsg, Item
  <1>4. Only(i, k) /\ Adds(At(i, k), msg, At(i, k)') /\ Queued(i, k)' = Queued(i, k) + 1
    BY <1>1, <1>3, EndBeatIs
  <1> QED BY <1>1, <1>3, <1>4 DEF Hears, msg

(* A client that serves the restarter drops its unfinished beat and reports. *)
Serves(k) ==
    /\ open' \in [Client -> [Client -> Orders]]
    /\ open'[k][Restarter] = <<>>
    /\ \A j, y \in Client : j # k \/ y # Restarter => open'[j][y] = open[j][y]
    /\ report' \in [Peer -> Report \cup {NoReport}]
    /\ report'[k] = Backlog(k) /\ Backlog(k) \in Report
    /\ \A j \in Peer : j # k => report'[j] = report[j]

(* A backlog is a report.                                                    *)
LEMMA BacklogType ==
    ASSUME Types, NEW k \in Peer
    PROVE  Backlog(k) \in Report
  <1>1. k \in Client
    BY PeersAre
  <1>2. \A x \in Client : Queued(k, x) \in Nat
    BY <1>1, QueuedType
  <1>3. [x \in Client |-> Queued(k, x)] \in [Client -> Nat]
    BY <1>2
  <1>4. dispatched[k] \in Nat /\ stream[k] \in [Client -> Beats] /\ open[k][k] \in Orders
    BY <1>1 DEF Types
  <1> QED BY <1>3, <1>4 DEF Backlog, Report

(* SendBacklog: what it drops, reports and tells.                            *)
LEMMA SendBacklogIs ==
    ASSUME Types, NEW k \in Peer, NEW t \in [Client -> [Client -> [Client -> Nat]]],
           SendBacklog(k, t)
    PROVE  /\ Serves(k)
           /\ told' \in [Client -> [Client -> [Client -> Nat]]]
           /\ \A j, l \in Client : j # k \/ l # Restarter => told'[j][l] = t[j][l]
  <1>1. k \in Client /\ Restarter \in Client
    BY PeersAre
  <1>2. <<>> \in Orders
    BY DEF Orders
  <1>3. /\ open' \in [Client -> [Client -> Orders]]
        /\ open'[k][Restarter] = <<>>
        /\ \A j, y \in Client : j # k \/ y # Restarter => open'[j][y] = open[j][y]
    <2>1. open \in [Client -> [Client -> Orders]]
      BY DEF Types
    <2>2. open' = [open EXCEPT ![k][Restarter] = <<>>]
      BY DEF SendBacklog
    <2> QED BY <1>1, <1>2, <2>1, <2>2, Replaced
  <1>4. /\ report' \in [Peer -> Report \cup {NoReport}]
        /\ report'[k] = Backlog(k) /\ Backlog(k) \in Report
        /\ \A j \in Peer : j # k => report'[j] = report[j]
    <2>1. report \in [Peer -> Report \cup {NoReport}]
      BY DEF Types
    <2>2. report' = [report EXCEPT ![k] = Backlog(k)]
      BY DEF SendBacklog
    <2>3. Backlog(k) \in Report
      BY BacklogType
    <2> QED BY <2>1, <2>2, <2>3
  <1> DEFINE v == [x \in Client |-> Most(t[k][Restarter][x], Queued(k, x))]
  <1>5. told' = [t EXCEPT ![k][Restarter] = v]
    BY DEF SendBacklog
  <1>6. v \in [Client -> Nat]
    <2>1. ASSUME NEW x \in Client PROVE Most(t[k][Restarter][x], Queued(k, x)) \in Nat
      <3>1. t[k][Restarter][x] \in Nat /\ Queued(k, x) \in Nat
        BY <1>1, QueuedType
      <3> QED BY <3>1 DEF Most
    <2> QED BY <2>1
  <1>7. /\ told' \in [Client -> [Client -> [Client -> Nat]]]
        /\ \A j, l \in Client : j # k \/ l # Restarter => told'[j][l] = t[j][l]
    <2> HIDE DEF v
    <2> QED BY <1>1, <1>5, <1>6, Replaced
  <1> QED BY <1>3, <1>4, <1>7 DEF Serves

(* No acks are acks of nothing.                                              *)
LEMMA NothingType == Nothing \in [Client -> Nat] /\ \A x \in Client : Nothing[x] = 0
  BY DEF Nothing

Tables(S) == [Client -> [Client -> S]]

(* Both directions of the link between the restarter and k are given v.      *)
Both(f, k, v) == [f EXCEPT ![Restarter][k] = v, ![k][Restarter] = v]

(* The two entries of a table that are about k and the restarter.            *)
LEMMA BothReplaced ==
    ASSUME NEW S, NEW f \in Tables(S), NEW k \in Peer, NEW v \in S
    PROVE  /\ Both(f, k, v) \in Tables(S)
           /\ Both(f, k, v)[Restarter][k] = v /\ Both(f, k, v)[k][Restarter] = v
           /\ \A j, l \in Client : ~(j = k /\ l = Restarter) /\ ~(j = Restarter /\ l = k)
                => Both(f, k, v)[j][l] = f[j][l]
  <1> DEFINE g == Both(f, k, v)
  <1>0. f \in [Client -> [Client -> S]]
    BY DEF Tables
  <1>1. k \in Client /\ Restarter \in Client /\ k # Restarter
    BY PeersAre
  <1> DEFINE h == [f EXCEPT ![Restarter][k] = v]
  <1>2. /\ h \in [Client -> [Client -> S]]
        /\ h[Restarter][k] = v
        /\ \A j, l \in Client : j # Restarter \/ l # k => h[j][l] = f[j][l]
    BY <1>0, <1>1
  <1>3. g = [h EXCEPT ![k][Restarter] = v]
    BY DEF Both
  <1> HIDE DEF g, h
  <1>4. /\ g \in [Client -> [Client -> S]]
        /\ g[k][Restarter] = v
        /\ \A j, l \in Client : j # k \/ l # Restarter => g[j][l] = h[j][l]
    <2>1. h \in [Client -> [Client -> S]]
      BY <1>2
    <2> DEFINE row == [h[k] EXCEPT ![Restarter] = v]
    <2>2. g = [h EXCEPT ![k] = row]
      BY <1>3
    <2>3. /\ row \in [Client -> S] /\ row[Restarter] = v
          /\ \A l \in Client : l # Restarter => row[l] = h[k][l]
      BY <1>1, <2>1
    <2> HIDE DEF row
    <2>5. row \in [Client -> S]
      BY <2>3
    <2>6. g[k] = row
      BY <1>1, <2>1, <2>2
    <2>7. \A j \in Client : j # k => g[j] = h[j]
      BY <1>1, <2>1, <2>2
    <2>8. g \in [Client -> [Client -> S]]
      BY <1>1, <2>1, <2>2, <2>5
    <2>4. g[k][Restarter] = v
      BY <2>3, <2>6
    <2>9. \A l \in Client : l # Restarter => g[k][l] = h[k][l]
      BY <2>3, <2>6
    <2>10. ASSUME NEW j \in Client, NEW l \in Client, j # k \/ l # Restarter
           PROVE  g[j][l] = h[j][l]
      BY <2>7, <2>9, <2>10
    <2> QED BY <2>4, <2>8, <2>10
  <1>5. g[Restarter][k] = v
    BY <1>1, <1>2, <1>4
  <1>6. \A j, l \in Client : ~(j = k /\ l = Restarter) /\ ~(j = Restarter /\ l = k)
          => g[j][l] = f[j][l]
    BY <1>2, <1>4
  <1> QED BY <1>4, <1>5, <1>6 DEF g, Tables

(* TakeSeat, by what it changes.                                             *)
LEMMA TakeSeatIs ==
    ASSUME Types, NEW k \in Client, TakeSeat(k)
    PROVE  /\ k \in Peer /\ k \in lost /\ phase = "Asking" /\ lost' = lost \ {k}
           /\ UNCHANGED <<stream, dispatched, ack, phase, cut, crashes, orders>>
           /\ link' \in [Client -> [Client -> Seq(Msg)]]
           /\ link'[Restarter][k] = <<>> /\ link'[k][Restarter] = <<>>
           /\ \A j, l \in Client : ~(j = k /\ l = Restarter) /\ ~(j = Restarter /\ l = k)
                => link'[j][l] = link[j][l]
           /\ told' \in [Client -> [Client -> [Client -> Nat]]]
           /\ \A x \in Client : told'[Restarter][k][x] = 0
           /\ \A j, l \in Client : ~(j = k /\ l = Restarter) /\ ~(j = Restarter /\ l = k)
                => told'[j][l] = told[j][l]
           /\ k = Recorder =>
                /\ UNCHANGED <<open, report>>
                /\ serves' \in [Peer -> Nat] /\ serves'[k] = serves[k] + 1
                /\ \A j \in Peer : j # k => serves'[j] = serves[j]
           /\ k # Recorder => Serves(k) /\ serves' = serves
  <1> DEFINE t == [told EXCEPT ![Restarter][k] = Nothing, ![k][Restarter] = Nothing]
  <1>1. /\ k \in lost /\ phase = "Asking" /\ lost' = lost \ {k}
        /\ UNCHANGED <<stream, dispatched, ack, phase, cut, crashes, orders>>
        /\ link' = [link EXCEPT ![Restarter][k] = <<>>, ![k][Restarter] = <<>>]
    BY DEF TakeSeat, envVars
  <1>2. /\ k = Recorder => /\ serves' = [serves EXCEPT ![k] = @ + 1]
                           /\ told' = t
                           /\ UNCHANGED <<open, report>>
        /\ k # Recorder => SendBacklog(k, t) /\ UNCHANGED serves
    BY DEF TakeSeat
  <1>3. k \in Peer /\ k # Restarter /\ Restarter \in Client
    BY <1>1, PeersAre DEF Types
  <1>4. /\ link' \in [Client -> [Client -> Seq(Msg)]]
        /\ link'[Restarter][k] = <<>> /\ link'[k][Restarter] = <<>>
        /\ \A j, l \in Client : ~(j = k /\ l = Restarter) /\ ~(j = Restarter /\ l = k)
             => link'[j][l] = link[j][l]
    <2> DEFINE none == <<>>
               all == Seq(Msg)
    <2>1. link \in Tables(all) /\ none \in all
      BY DEF Types, Tables
    <2>2. link' = Both(link, k, none)
      BY <1>1 DEF Both
    <2> HIDE DEF none, all
    <2>3. /\ Both(link, k, none) \in Tables(all)
          /\ Both(link, k, none)[Restarter][k] = none
          /\ Both(link, k, none)[k][Restarter] = none
          /\ \A j, l \in Client : ~(j = k /\ l = Restarter) /\ ~(j = Restarter /\ l = k)
               => Both(link, k, none)[j][l] = link[j][l]
      BY <1>3, <2>1, BothReplaced
    <2>4. /\ link' \in Tables(all)
          /\ link'[Restarter][k] = none /\ link'[k][Restarter] = none
          /\ \A j, l \in Client : ~(j = k /\ l = Restarter) /\ ~(j = Restarter /\ l = k)
               => link'[j][l] = link[j][l]
      BY <2>2, <2>3
    <2> QED BY <2>4 DEF Tables, none, all
  <1>5. /\ t \in [Client -> [Client -> [Client -> Nat]]]
        /\ t[Restarter][k] = Nothing
        /\ \A j, l \in Client : ~(j = k /\ l = Restarter) /\ ~(j = Restarter /\ l = k)
             => t[j][l] = told[j][l]
    <2>1. told \in Tables([Client -> Nat]) /\ Nothing \in [Client -> Nat]
      BY NothingType DEF Types, Tables
    <2>2. t = Both(told, k, Nothing)
      BY DEF Both
    <2> HIDE DEF t
    <2>3. Both(told, k, Nothing) \in Tables([Client -> Nat])
      BY <1>3, <2>1, BothReplaced
    <2>4. /\ Both(told, k, Nothing)[Restarter][k] = Nothing
          /\ \A j, l \in Client : ~(j = k /\ l = Restarter) /\ ~(j = Restarter /\ l = k)
               => Both(told, k, Nothing)[j][l] = told[j][l]
      BY <1>3, <2>1, BothReplaced
    <2> QED BY <2>2, <2>3, <2>4 DEF Tables
  <1> HIDE DEF t
  <1>6. CASE k = Recorder
    <2>1. told' = t /\ serves' = [serves EXCEPT ![k] = @ + 1] /\ UNCHANGED <<open, report>>
      BY <1>2, <1>6
    <2>2. /\ serves' \in [Peer -> Nat] /\ serves'[k] = serves[k] + 1
          /\ \A j \in Peer : j # k => serves'[j] = serves[j]
      <3>1. serves \in [Peer -> Nat]
        BY DEF Types
      <3> QED BY <1>3, <2>1, <3>1
    <2>3. \A x \in Client : told'[Restarter][k][x] = 0
      BY <1>5, <2>1, NothingType
    <2>4. \A j, l \in Client : ~(j = k /\ l = Restarter) /\ ~(j = Restarter /\ l = k)
             => told'[j][l] = told[j][l]
      BY <1>5, <2>1
    <2>5. told' \in [Client -> [Client -> [Client -> Nat]]]
      BY <1>5, <2>1
    <2> QED BY <1>1, <1>3, <1>4, <1>6, <2>1, <2>2, <2>3, <2>4, <2>5
  <1>7. CASE k # Recorder
    <2>1. SendBacklog(k, t) /\ serves' = serves
      BY <1>2, <1>7
    <2>2. /\ Serves(k)
          /\ told' \in [Client -> [Client -> [Client -> Nat]]]
          /\ \A j, l \in Client : j # k \/ l # Restarter => told'[j][l] = t[j][l]
      BY <1>3, <1>5, <2>1, SendBacklogIs
    <2>3. \A x \in Client : told'[Restarter][k][x] = 0
      BY <1>3, <1>5, <2>2, NothingType
    <2>4. \A j, l \in Client : ~(j = k /\ l = Restarter) /\ ~(j = Restarter /\ l = k)
             => told'[j][l] = told[j][l]
      BY <1>5, <2>2
    <2> QED BY <1>1, <1>3, <1>4, <1>7, <2>1, <2>2, <2>3, <2>4
  <1> QED BY <1>6, <1>7

(* Serve, by what it changes.                                                *)
LEMMA ServeIs ==
    ASSUME Types, NEW k \in Client, Serve(k)
    PROVE  /\ k \in Peer /\ serves[k] > 0
           /\ serves' \in [Peer -> Nat] /\ serves'[k] = serves[k] - 1
           /\ \A j \in Peer : j # k => serves'[j] = serves[j]
           /\ Serves(k)
           /\ told' \in [Client -> [Client -> [Client -> Nat]]]
           /\ \A j, l \in Client : j # k \/ l # Restarter => told'[j][l] = told[j][l]
           /\ UNCHANGED <<stream, dispatched, ack, link, lost, phase, cut, crashes, orders>>
  <1>1. /\ k \in Peer /\ serves[k] > 0
        /\ serves' = [serves EXCEPT ![k] = @ - 1]
        /\ SendBacklog(k, told)
        /\ UNCHANGED <<stream, dispatched, ack, link, lost, phase, cut, crashes, orders>>
    BY DEF Serve, envVars
  <1>2. /\ serves' \in [Peer -> Nat] /\ serves'[k] = serves[k] - 1
        /\ \A j \in Peer : j # k => serves'[j] = serves[j]
    BY <1>1 DEF Types
  <1>3. told \in [Client -> [Client -> [Client -> Nat]]]
    BY DEF Types
  <1> QED BY <1>1, <1>2, <1>3, SendBacklogIs

(* What a cut says.                                                          *)
LEMMA CutMsgIs ==
    ASSUME NEW c \in Nat
    PROVE  CutMsg(c) \in Msg /\ CutMsg(c).op = "Cut" /\ CutMsg(c).cut = c
  BY DEF CutMsg, Msg

(* The end of the old stream, once everybody has reported.                   *)
LEMMA OldStreamEndIs ==
    ASSUME Types, \A k \in Peer : report[k] \in Report
    PROVE  /\ OldStreamEnd \in Nat
           /\ \A k \in Peer : OldStreamEnd <= report[k].queued[Restarter]
           /\ \E k \in Peer : OldStreamEnd = report[k].queued[Restarter]
  <1> DEFINE S == {report[k].queued[Restarter] : k \in Peer}
  <1>1. \A k \in Peer : report[k].queued[Restarter] \in Nat
    BY PeersAre DEF Report
  <1>2. S \in SUBSET Nat /\ S # {}
    BY <1>1, PeersAre
  <1>3. \E n \in S : \A m \in S : n <= m
    <2> HIDE DEF S
    <2> QED BY <1>2, LeastNumber
  <1>4. LeastOf(S) \in S /\ \A b \in S : LeastOf(S) <= b
    <2> HIDE DEF S
    <2> QED BY <1>3 DEF LeastOf
  <1> QED BY <1>1, <1>4 DEF OldStreamEnd

(* Settle, by what it changes.                                               *)
LEMMA SettleIs ==
    ASSUME Types, Settle, OldStreamEnd \in Nat
    PROVE  /\ phase = "Asking" /\ \A k \in Peer : report[k] # NoReport
           /\ phase' = "CatchingUp" /\ cut' = OldStreamEnd
           /\ link' \in [Client -> [Client -> Seq(Msg)]]
           /\ \A k \in Peer : link'[Restarter][k] = Append(link[Restarter][k], CutMsg(OldStreamEnd))
           /\ \A j, l \in Client : j # Restarter \/ l \notin Peer => link'[j][l] = link[j][l]
           /\ UNCHANGED <<stream, open, dispatched, ack, told, lost, serves, report, crashes, orders>>
  <1> DEFINE end == OldStreamEnd
             row == [k \in Client |-> IF k \in Peer THEN Append(link[Restarter][k], CutMsg(end))
                                      ELSE link[Restarter][k]]
  <1>1. /\ phase = "Asking" /\ \A k \in Peer : report[k] # NoReport
        /\ phase' = "CatchingUp" /\ cut' = end
        /\ link' = [link EXCEPT ![Restarter] = row]
        /\ UNCHANGED <<stream, open, dispatched, ack, told, lost, serves, report, crashes, orders>>
    BY DEF Settle, streamVars, peerVars, envVars
  <1>2. Restarter \in Client /\ link \in [Client -> [Client -> Seq(Msg)]] /\ Peer \subseteq Client
    BY PeersAre DEF Types
  <1>3. row \in [Client -> Seq(Msg)]
    <2>1. ASSUME NEW k \in Client
          PROVE  link[Restarter][k] \in Seq(Msg) /\ Append(link[Restarter][k], CutMsg(end)) \in Seq(Msg)
      BY <1>2, CutMsgIs
    <2> QED BY <2>1
  <1>4. /\ \A k \in Peer : row[k] = Append(link[Restarter][k], CutMsg(end))
        /\ \A k \in Client : k \notin Peer => row[k] = link[Restarter][k]
    BY <1>2
  <1> HIDE DEF row
  <1>5. /\ link' \in [Client -> [Client -> Seq(Msg)]]
        /\ link'[Restarter] = row
        /\ \A j \in Client : j # Restarter => link'[j] = link[j]
    BY <1>1, <1>2, <1>3
  <1>6. \A j, l \in Client : j # Restarter \/ l \notin Peer => link'[j][l] = link[j][l]
    BY <1>2, <1>4, <1>5
  <1>7. \A k \in Peer : link'[Restarter][k] = Append(link[Restarter][k], CutMsg(end))
    BY <1>4, <1>5
  <1> QED BY <1>1, <1>5, <1>6, <1>7

(* A client that can goes back to the cut.                                   *)
GoesBack(k) ==
    LET end == Head(link[Restarter][k]).cut
    IN  dispatched[k] <= end /\ end <= Queued(k, Restarter)

(* ReceiveCut, by what it changes where the peer can go back and where not.  *)
LEMMA ReceiveCutIs ==
    ASSUME Types, NEW k \in Client, ReceiveCut(k)
    PROVE  LET end == Head(link[Restarter][k]).cut
           IN  /\ k \in Peer /\ link[Restarter][k] # <<>>
               /\ Head(link[Restarter][k]).op = "Cut" /\ end \in Nat
               /\ link' = Rest(k, Restarter)
               /\ UNCHANGED <<dispatched, told, orders>> /\ Control
               /\ GoesBack(k) =>
                    /\ Only(k, Restarter)
                    /\ stream'[k][Restarter] = SubSeq(stream[k][Restarter], 1, end)
                    /\ open'[k][Restarter] = <<>>
                    /\ ack' \in [Client -> [Client -> [Client -> Nat]]]
                    /\ \A i, j, x \in Client : i # k \/ x # Restarter => ack'[i][j][x] = ack[i][j][x]
                    /\ \A j \in Client : /\ ack'[k][j][Restarter] <= end
                                         /\ ack'[k][j][Restarter] <= ack[k][j][Restarter]
               /\ ~GoesBack(k) => UNCHANGED <<stream, open, ack>>
  <1> DEFINE end == Head(link[Restarter][k]).cut
             back == SubSeq(stream[k][Restarter], 1, end)
             rows == [j \in Client |-> [ack[k][j] EXCEPT ![Restarter] = Least(ack[k][j][Restarter], end)]]
  <1>1. /\ k \in Peer /\ k # Restarter /\ link[Restarter][k] # <<>>
        /\ Head(link[Restarter][k]).op = "Cut"
        /\ link' = Rest(k, Restarter)
        /\ UNCHANGED <<dispatched, told, orders>> /\ Control
    BY DEF ReceiveCut, Reads, peerVars, returnVars, envVars, Control
  <1>2. Restarter \in Client
    BY PeersAre
  <1>3. end \in Nat
    <2>1. Head(link[Restarter][k]) \in Msg
      BY <1>1, <1>2, RestIs
    <2> QED BY <1>1, <2>1 DEF Msg, StreamMsg
  <1>4. ASSUME ~GoesBack(k) PROVE UNCHANGED <<stream, open, ack>>
    BY <1>4 DEF ReceiveCut, GoesBack, streamVars
  <1>5. ASSUME GoesBack(k)
        PROVE  /\ Only(k, Restarter)
               /\ stream'[k][Restarter] = back
               /\ open'[k][Restarter] = <<>>
               /\ ack' \in [Client -> [Client -> [Client -> Nat]]]
               /\ \A i, j, x \in Client : i # k \/ x # Restarter => ack'[i][j][x] = ack[i][j][x]
               /\ \A j \in Client : /\ ack'[k][j][Restarter] <= end
                                    /\ ack'[k][j][Restarter] <= ack[k][j][Restarter]
    <2>1. /\ stream' = [stream EXCEPT ![k][Restarter] = back]
          /\ open' = [open EXCEPT ![k][Restarter] = <<>>]
          /\ ack' = [ack EXCEPT ![k] = rows]
      BY <1>5 DEF ReceiveCut, GoesBack
    <2>2. /\ stream \in [Client -> [Client -> Beats]]
          /\ open \in [Client -> [Client -> Orders]]
          /\ ack \in [Client -> [Client -> [Client -> Nat]]]
      BY DEF Types
    <2>3. back \in Beats
      <3>1. stream[k][Restarter] \in Beats /\ end <= Len(stream[k][Restarter])
        BY <1>2, <1>5, <2>2 DEF GoesBack, Queued
      <3> HIDE DEF end
      <3> QED BY <1>3, <3>1 DEF Beats
    <2>4. <<>> \in Orders
      BY DEF Orders
    <2>5. ASSUME NEW j \in Client
          PROVE  /\ rows[j] \in [Client -> Nat]
                 /\ rows[j][Restarter] <= end /\ rows[j][Restarter] <= ack[k][j][Restarter]
                 /\ \A x \in Client : x # Restarter => rows[j][x] = ack[k][j][x]
      <3> DEFINE n == Least(ack[k][j][Restarter], end)
      <3>1. ack[k][j] \in [Client -> Nat] /\ ack[k][j][Restarter] \in Nat
        BY <1>2, <2>2
      <3>2. n \in Nat /\ n <= end /\ n <= ack[k][j][Restarter]
        BY <1>3, <3>1 DEF Least
      <3>3. rows[j] = [ack[k][j] EXCEPT ![Restarter] = n]
        OBVIOUS
      <3> HIDE DEF rows, n, end
      <3> QED BY <1>2, <3>1, <3>2, <3>3
    <2>6. \A j \in Client : rows[j] \in [Client -> Nat]
      BY <2>5
    <2>7. rows \in [Client -> [Client -> Nat]]
      BY <2>6
    <2> HIDE DEF rows, back
    <2>8. /\ stream' \in [Client -> [Client -> Beats]]
          /\ stream'[k][Restarter] = back
          /\ \A j, y \in Client : j # k \/ y # Restarter => stream'[j][y] = stream[j][y]
      <3>1. stream' = [stream EXCEPT ![k][Restarter] = back] /\ back \in Beats
        BY <2>1, <2>3
      <3>2. k \in Client /\ Restarter \in Client
        BY <1>2
      <3>3. stream' \in [Client -> [Client -> Beats]]
        BY <2>2, <3>1, <3>2, Replaced
      <3>4. stream'[k][Restarter] = back
        BY <2>2, <3>1, <3>2, Replaced
      <3>5. \A j, y \in Client : j # k \/ y # Restarter => stream'[j][y] = stream[j][y]
        BY <2>2, <3>1, <3>2, Replaced
      <3> QED BY <3>3, <3>4, <3>5
    <2>9. /\ open' \in [Client -> [Client -> Orders]]
          /\ open'[k][Restarter] = <<>>
          /\ \A j, y \in Client : j # k \/ y # Restarter => open'[j][y] = open[j][y]
      <3> DEFINE none == <<>>
      <3>1. open' = [open EXCEPT ![k][Restarter] = none] /\ none \in Orders
        BY <2>1, <2>4
      <3> HIDE DEF none
      <3>2. k \in Client /\ Restarter \in Client
        BY <1>2
      <3>3. open' \in [Client -> [Client -> Orders]]
        BY <2>2, <3>1, <3>2, Replaced
      <3>4. open'[k][Restarter] = none
        BY <2>2, <3>1, <3>2, Replaced
      <3>5. \A j, y \in Client : j # k \/ y # Restarter => open'[j][y] = open[j][y]
        BY <2>2, <3>1, <3>2, Replaced
      <3> QED BY <3>3, <3>4, <3>5 DEF none
    <2>10. ack'[k] = rows
      BY <2>1, <2>2
    <2>11. \A i \in Client : i # k => ack'[i] = ack[i]
      BY <2>1, <2>2
    <2>12. ack' \in [Client -> [Client -> [Client -> Nat]]]
      BY <2>1, <2>2, <2>7
    <2>13. \A i, j, x \in Client : i # k \/ x # Restarter => ack'[i][j][x] = ack[i][j][x]
      BY <2>5, <2>10, <2>11
    <2>14. \A j \in Client : /\ ack'[k][j][Restarter] <= end
                             /\ ack'[k][j][Restarter] <= ack[k][j][Restarter]
      BY <2>5, <2>10
    <2>15. Only(k, Restarter)
      BY <2>8, <2>9 DEF Only
    <2> QED BY <2>8, <2>9, <2>12, <2>13, <2>14, <2>15
  <1> HIDE DEF end, back
  <1> QED BY <1>1, <1>3, <1>4, <1>5 DEF end, back

(* Everything the restarter held, and everything on its way to it, is gone.  *)
LEMMA CrashIs ==
    ASSUME Types, Crash
    PROVE  LET R == Restarter
           IN  /\ crashes + orders < MaxEvents
               /\ crashes > 0 => phase # "Up" /\ \A k \in Peer : serves[k] = 0
               /\ crashes' = crashes + 1 /\ phase' = "Asking" /\ cut' = 0 /\ lost' = Peer
               /\ report' = [k \in Peer |-> NoReport]
               /\ stream' \in [Client -> [Client -> Beats]]
               /\ open' \in [Client -> [Client -> Orders]]
               /\ \A x \in Client : stream'[R][x] = <<>>
               /\ \A i, x \in Client : i # R => stream'[i][x] = stream[i][x] /\ open'[i][x] = open[i][x]
               /\ dispatched' \in [Client -> Nat] /\ dispatched'[R] = 0
               /\ \A i \in Client : i # R => dispatched'[i] = dispatched[i]
               /\ available' \in [Client -> Nat] /\ available'[R] = 0
               /\ \A i \in Client : i # R => available'[i] = available[i]
               /\ ack' \in [Client -> [Client -> [Client -> Nat]]]
               /\ \A k, x \in Client : ack'[R][k][x] = 0
               /\ \A i \in Client : i # R => ack'[i] = ack[i]
               /\ link' \in [Client -> [Client -> Seq(Msg)]]
               /\ \A k \in Client : link'[k][R] = <<>>
               /\ \A j, k \in Client : k # R => link'[j][k] = link[j][k]
               /\ told' \in [Client -> [Client -> [Client -> Nat]]]
               /\ \A k, x \in Client : told'[k][R][x] = 0
               /\ \A j, k \in Client : k # R => told'[j][k] = told[j][k]
               /\ UNCHANGED <<serves, orders>>
  <1> DEFINE R == Restarter
  <1>1. R \in Client
    BY PeersAre
  <1>2. /\ crashes + orders < MaxEvents
        /\ crashes > 0 => phase # "Up" /\ \A k \in Peer : serves[k] = 0
        /\ crashes' = crashes + 1 /\ phase' = "Asking" /\ cut' = 0 /\ lost' = Peer
        /\ report' = [k \in Peer |-> NoReport]
        /\ UNCHANGED <<serves, orders>>
    BY DEF Crash
  <1>3. /\ stream \in [Client -> [Client -> Beats]]
        /\ open \in [Client -> [Client -> Orders]]
        /\ dispatched \in [Client -> Nat] /\ available \in [Client -> Nat]
        /\ ack \in [Client -> [Client -> [Client -> Nat]]]
        /\ told \in [Client -> [Client -> [Client -> Nat]]]
        /\ link \in [Client -> [Client -> Seq(Msg)]]
    BY DEF Types
  <1> DEFINE none == [x \in Client |-> <<>>]
             noacks == [k \in Client |-> Nothing]
  <1>4. none \in [Client -> Beats] /\ none \in [Client -> Orders] /\ \A x \in Client : none[x] = <<>>
    BY DEF Beats, Orders
  <1>5. noacks \in [Client -> [Client -> Nat]] /\ \A k, x \in Client : noacks[k][x] = 0
    BY NothingType
  <1>6. /\ stream' = [stream EXCEPT ![R] = none]
        /\ open' = [open EXCEPT ![R] = none]
        /\ dispatched' = [dispatched EXCEPT ![R] = 0]
        /\ available' = [available EXCEPT ![R] = 0]
        /\ ack' = [ack EXCEPT ![R] = noacks]
        /\ link' = [k \in Client |-> [link[k] EXCEPT ![R] = <<>>]]
        /\ told' = [k \in Client |-> [told[k] EXCEPT ![R] = Nothing]]
    BY DEF Crash
  <1> HIDE DEF none, noacks
  <1>7. /\ stream' \in [Client -> [Client -> Beats]]
        /\ \A x \in Client : stream'[R][x] = <<>>
        /\ \A i, x \in Client : i # R => stream'[i][x] = stream[i][x]
    <2>1. stream' \in [Client -> [Client -> Beats]]
      BY <1>1, <1>3, <1>4, <1>6
    <2>2. stream'[R] = none /\ \A i \in Client : i # R => stream'[i] = stream[i]
      BY <1>1, <1>3, <1>6
    <2> QED BY <1>4, <2>1, <2>2
  <1>8. /\ open' \in [Client -> [Client -> Orders]]
        /\ \A i, x \in Client : i # R => open'[i][x] = open[i][x]
    <2>1. open' \in [Client -> [Client -> Orders]]
      BY <1>1, <1>3, <1>4, <1>6
    <2>2. \A i \in Client : i # R => open'[i] = open[i]
      BY <1>1, <1>3, <1>6
    <2> QED BY <2>1, <2>2
  <1>9. /\ dispatched' \in [Client -> Nat] /\ dispatched'[R] = 0
        /\ \A i \in Client : i # R => dispatched'[i] = dispatched[i]
    BY <1>1, <1>3, <1>6
  <1>10. /\ available' \in [Client -> Nat] /\ available'[R] = 0
         /\ \A i \in Client : i # R => available'[i] = available[i]
    BY <1>1, <1>3, <1>6
  <1>11. /\ ack' \in [Client -> [Client -> [Client -> Nat]]]
         /\ \A k, x \in Client : ack'[R][k][x] = 0
         /\ \A i \in Client : i # R => ack'[i] = ack[i]
    <2>1. ack' \in [Client -> [Client -> [Client -> Nat]]]
      BY <1>1, <1>3, <1>5, <1>6
    <2>2. ack'[R] = noacks /\ \A i \in Client : i # R => ack'[i] = ack[i]
      BY <1>1, <1>3, <1>6
    <2> QED BY <1>5, <2>1, <2>2
  <1>12. /\ link' \in [Client -> [Client -> Seq(Msg)]]
         /\ \A k \in Client : link'[k][R] = <<>>
         /\ \A j, k \in Client : k # R => link'[j][k] = link[j][k]
    <2>1. ASSUME NEW k \in Client
          PROVE  /\ link'[k] = [link[k] EXCEPT ![R] = <<>>]
                 /\ link'[k] \in [Client -> Seq(Msg)]
                 /\ link'[k][R] = <<>>
                 /\ \A j \in Client : j # R => link'[k][j] = link[k][j]
      <3>1. link'[k] = [link[k] EXCEPT ![R] = <<>>] /\ link[k] \in [Client -> Seq(Msg)]
        BY <1>3, <1>6
      <3>2. <<>> \in Seq(Msg)
        OBVIOUS
      <3> QED BY <1>1, <3>1, <3>2
    <2>2. link' \in [Client -> [Client -> Seq(Msg)]]
      <3>1. link' = [k \in Client |-> link'[k]] /\ \A k \in Client : link'[k] \in [Client -> Seq(Msg)]
        BY <1>6, <2>1
      <3> QED BY <3>1
    <2> QED BY <2>1, <2>2
  <1>13. /\ told' \in [Client -> [Client -> [Client -> Nat]]]
         /\ \A k, x \in Client : told'[k][R][x] = 0
         /\ \A j, k \in Client : k # R => told'[j][k] = told[j][k]
    <2>1. ASSUME NEW k \in Client
          PROVE  /\ told'[k] \in [Client -> [Client -> Nat]]
                 /\ told'[k][R] = Nothing
                 /\ \A j \in Client : j # R => told'[k][j] = told[k][j]
      <3>1. told'[k] = [told[k] EXCEPT ![R] = Nothing] /\ told[k] \in [Client -> [Client -> Nat]]
        BY <1>3, <1>6
      <3> QED BY <1>1, <3>1, NothingType
    <2>2. told' \in [Client -> [Client -> [Client -> Nat]]]
      <3>1. told' = [k \in Client |-> told'[k]] /\ \A k \in Client : told'[k] \in [Client -> [Client -> Nat]]
        BY <1>6, <2>1
      <3> QED BY <3>1
    <2> QED BY <2>1, <2>2, NothingType
  <1> QED BY <1>2, <1>7, <1>8, <1>9, <1>10, <1>11, <1>12, <1>13

(* The reports FinishCatchUp goes by.                                        *)
Reported ==
    /\ \A k \in Peer :
         report[k] \in Report /\ \A x \in Client : report[k].queued[x] = Len(report[k].beats[x])
    /\ cut <= report[Recorder].queued[Restarter]

(* What the restarter pieces together is a stream.                           *)
LEMMA RebuiltType ==
    ASSUME Types, Reported, NEW x \in Client
    PROVE  Rebuilt(x) \in Beats /\ RebuiltOrders(x) \in Orders
  <1>1. Recorder \in Peer /\ (x # Restarter => x \in Peer)
    BY PeersAre
  <1>2. /\ report[Recorder].beats[x] \in Beats
        /\ x # Restarter => /\ report[x].beats[x] \in Beats /\ report[x].orders \in Orders
                            /\ report[x].queued[x] \in Nat
                            /\ report[x].queued[x] = Len(report[x].beats[x])
        /\ report[Recorder].queued[x] \in Nat
        /\ report[Recorder].queued[x] = Len(report[Recorder].beats[x])
    BY <1>1 DEF Report, Reported
  <1>3. cut \in Nat
    BY DEF Types
  <1>4. RebuiltOrders(x) \in Orders
    <2>1. <<>> \in Orders
      BY DEF Orders
    <2> QED BY <1>2, <2>1 DEF RebuiltOrders
  <1>5. Rebuilt(x) \in Beats
    <2> DEFINE B == report[Recorder].beats[x]
               S == report[x].beats[x]
    <2>1. CASE x = Restarter
      <3>1. Rebuilt(x) = SubSeq(B, 1, cut)
        BY <2>1 DEF Rebuilt
      <3>2. SubSeq(B, 1, cut) \in Beats
        <4>1. cut <= Len(B)
          BY <1>2, <2>1 DEF Reported
        <4> HIDE DEF B
        <4>2. B \in Beats
          BY <1>2 DEF B
        <4> QED BY <1>3, <4>1, <4>2 DEF Beats
      <3> QED BY <3>1, <3>2
    <2>2. CASE x = Recorder /\ x # Restarter
      BY <1>2, <2>2 DEF Rebuilt
    <2>3. CASE x # Recorder /\ x # Restarter
      <3> DEFINE T == SubSeq(S, RecordedThrough(x) + 1, report[x].queued[x])
      <3>1. Rebuilt(x) = B \o T
        BY <2>3 DEF Rebuilt
      <3>2. RecordedThrough(x) \in Nat
        BY <1>2 DEF RecordedThrough
      <3>3. PICK a, b \in Nat : a = RecordedThrough(x) + 1 /\ b = report[x].queued[x]
        BY <1>2, <2>3, <3>2
      <3>4. S \in Beats /\ T = SubSeq(S, a, b) /\ a >= 1 /\ b <= Len(S)
        BY <1>2, <2>3, <3>2, <3>3
      <3>5. T \in Beats
        <4> HIDE DEF S
        <4> QED BY <3>3, <3>4 DEF Beats
      <3> HIDE DEF T
      <3> QED BY <1>2, <3>1, <3>5 DEF Beats
    <2> QED BY <2>1, <2>2, <2>3
  <1> QED BY <1>4, <1>5

(* The covered messages are counted from the first on.                       *)
LEMMA SkipType ==
    ASSUME NEW msgs \in Seq(Msg), NEW n \in Nat
    PROVE  Skip(msgs, n) \in Seq(Msg)
  <1>1. PICK a, b \in Nat : a = n + 1 /\ b = Len(msgs)
    OBVIOUS
  <1> QED BY <1>1 DEF Skip

(* FinishCatchUp, by what it changes.                                        *)
LEMMA FinishCatchUpIs ==
    ASSUME Types, Prompt, Reported, FinishCatchUp
    PROVE  LET R == Restarter
           IN  /\ phase = "CatchingUp" /\ phase' = "Up"
               /\ \A k \in Peer : ~CutUnderWay(k)
               /\ stream' \in [Client -> [Client -> Beats]]
               /\ \A x \in Client : stream'[R][x] = Rebuilt(x)
               /\ open' \in [Client -> [Client -> Orders]]
               /\ \A x \in Client : open'[R][x] = RebuiltOrders(x)
               /\ \A i, x \in Client : i # R => stream'[i][x] = stream[i][x] /\ open'[i][x] = open[i][x]
               /\ dispatched' \in [Client -> Nat] /\ dispatched'[R] = report[Recorder].dispatched
               /\ \A i \in Client : i # R => dispatched'[i] = dispatched[i]
               /\ ack' \in [Client -> [Client -> [Client -> Nat]]]
               /\ \A k, x \in Client : ack'[R][k][x] = Len(Rebuilt(x))
               /\ \A i \in Client : i # R => ack'[i] = ack[i]
               /\ told' \in [Client -> [Client -> [Client -> Nat]]]
               /\ \A x \in Client : told'[R][R][x] = 0
               /\ \A i, k \in Client : i # R /\ k # R => told'[i][k] = told[i][k]
               /\ link' \in [Client -> [Client -> Seq(Msg)]]
               /\ \A k \in Peer : link'[k][R] = Skip(link[k][R], Cardinality(CoveredOf(k)))
               /\ \A j, k \in Client : j = R \/ k # R => link'[j][k] = link[j][k]
               /\ report' = [k \in Peer |-> NoReport] /\ cut' = 0
               /\ UNCHANGED <<lost, serves, crashes, orders>>
  <1> DEFINE R == Restarter
             rebuilt == [x \in Client |-> Rebuilt(x)]
             rebuiltOrders == [x \in Client |-> RebuiltOrders(x)]
             ended == [x \in Client |-> Len(rebuilt[x])]
             all == [k \in Client |-> ended]
             ownTold == [k \in Client |-> IF k \in Peer THEN ended ELSE Nothing]
             toldRow(i) == [told[i] EXCEPT ![R] =
                              [x \in Client |-> IF @[x] > ended[x] THEN @[x] ELSE 0]]
  <1>1. R \in Client /\ Recorder \in Peer /\ R \notin Peer /\ Peer \subseteq Client
    BY PeersAre
  <1>2. /\ phase = "CatchingUp" /\ phase' = "Up"
        /\ \A k \in Peer : ~CutUnderWay(k)
        /\ report' = [k \in Peer |-> NoReport] /\ cut' = 0
        /\ UNCHANGED <<lost, serves, crashes, orders>>
    BY DEF FinishCatchUp, peerVars, envVars
  <1>3. /\ stream' = [stream EXCEPT ![R] = rebuilt]
        /\ open' = [open EXCEPT ![R] = rebuiltOrders]
        /\ dispatched' = [dispatched EXCEPT ![R] = report[Recorder].dispatched]
        /\ ack' = [ack EXCEPT ![R] = all]
        /\ told' = [i \in Client |-> IF i = R THEN ownTold ELSE toldRow(i)]
    BY DEF FinishCatchUp
  <1>4. PICK arrived \in Arrivals : link' = [k \in Client |->
            IF k \in Peer THEN [link[k] EXCEPT ![R] = Skip(@, arrived[k])] ELSE link[k]]
    BY DEF FinishCatchUp
  <1>5. /\ stream \in [Client -> [Client -> Beats]]
        /\ open \in [Client -> [Client -> Orders]]
        /\ dispatched \in [Client -> Nat]
        /\ ack \in [Client -> [Client -> [Client -> Nat]]]
        /\ told \in [Client -> [Client -> [Client -> Nat]]]
        /\ link \in [Client -> [Client -> Seq(Msg)]]
    BY DEF Types
  <1>6. \A x \in Client : Rebuilt(x) \in Beats /\ RebuiltOrders(x) \in Orders
    BY RebuiltType
  <1>7. rebuilt \in [Client -> Beats] /\ \A x \in Client : rebuilt[x] = Rebuilt(x)
    BY <1>6
  <1>8. rebuiltOrders \in [Client -> Orders] /\ \A x \in Client : rebuiltOrders[x] = RebuiltOrders(x)
    BY <1>6
  <1>9. /\ ended \in [Client -> Nat] /\ \A x \in Client : ended[x] = Len(Rebuilt(x))
    <2>1. ASSUME NEW x \in Client PROVE Len(rebuilt[x]) \in Nat /\ Len(rebuilt[x]) = Len(Rebuilt(x))
      <3> HIDE DEF rebuilt
      <3> QED BY <1>6, <1>7 DEF Beats
    <2> HIDE DEF rebuilt
    <2> QED BY <2>1
  <1> HIDE DEF rebuilt, rebuiltOrders, ended
  <1>10. all \in [Client -> [Client -> Nat]] /\ \A k \in Client : all[k] = ended
    BY <1>9
  <1>11. ownTold \in [Client -> [Client -> Nat]] /\ ownTold[R] = Nothing
    BY <1>1, <1>9, NothingType
  <1>12. ASSUME NEW i \in Client
         PROVE  /\ toldRow(i) \in [Client -> [Client -> Nat]]
                /\ \A k \in Client : k # R => toldRow(i)[k] = told[i][k]
    <2> DEFINE late == [x \in Client |-> IF told[i][R][x] > ended[x] THEN told[i][R][x] ELSE 0]
    <2>1. late \in [Client -> Nat]
      BY <1>1, <1>5
    <2>2. toldRow(i) = [told[i] EXCEPT ![R] = late] /\ told[i] \in [Client -> [Client -> Nat]]
      BY <1>5
    <2> HIDE DEF late, toldRow
    <2> QED BY <1>1, <2>1, <2>2
  <1> HIDE DEF all, ownTold, toldRow
  <1>13. /\ stream' \in [Client -> [Client -> Beats]]
         /\ \A x \in Client : stream'[R][x] = Rebuilt(x)
         /\ \A i, x \in Client : i # R => stream'[i][x] = stream[i][x]
    <2>1. stream' \in [Client -> [Client -> Beats]]
      BY <1>1, <1>3, <1>5, <1>7
    <2>2. stream'[R] = rebuilt /\ \A i \in Client : i # R => stream'[i] = stream[i]
      BY <1>1, <1>3, <1>5
    <2> QED BY <1>7, <2>1, <2>2
  <1>14. /\ open' \in [Client -> [Client -> Orders]]
         /\ \A x \in Client : open'[R][x] = RebuiltOrders(x)
         /\ \A i, x \in Client : i # R => open'[i][x] = open[i][x]
    <2>1. open' \in [Client -> [Client -> Orders]]
      BY <1>1, <1>3, <1>5, <1>8
    <2>2. open'[R] = rebuiltOrders /\ \A i \in Client : i # R => open'[i] = open[i]
      BY <1>1, <1>3, <1>5
    <2> QED BY <1>8, <2>1, <2>2
  <1>15. /\ dispatched' \in [Client -> Nat] /\ dispatched'[R] = report[Recorder].dispatched
         /\ \A i \in Client : i # R => dispatched'[i] = dispatched[i]
    <2>1. report[Recorder].dispatched \in Nat
      BY <1>1 DEF Report, Reported
    <2> QED BY <1>1, <1>3, <1>5, <2>1
  <1>16. /\ ack' \in [Client -> [Client -> [Client -> Nat]]]
         /\ \A k, x \in Client : ack'[R][k][x] = Len(Rebuilt(x))
         /\ \A i \in Client : i # R => ack'[i] = ack[i]
    <2>1. ack' \in [Client -> [Client -> [Client -> Nat]]]
      BY <1>1, <1>3, <1>5, <1>10
    <2>2. ack'[R] = all /\ \A i \in Client : i # R => ack'[i] = ack[i]
      BY <1>1, <1>3, <1>5
    <2> QED BY <1>9, <1>10, <2>1, <2>2
  <1>17. /\ told' \in [Client -> [Client -> [Client -> Nat]]]
         /\ \A x \in Client : told'[R][R][x] = 0
         /\ \A i, k \in Client : i # R /\ k # R => told'[i][k] = told[i][k]
    <2>1. told' \in [Client -> [Client -> [Client -> Nat]]]
      BY <1>3, <1>11, <1>12
    <2>2. told'[R] = ownTold /\ \A i \in Client : i # R => told'[i] = toldRow(i)
      BY <1>1, <1>3
    <2> QED BY <1>11, <1>12, <2>1, <2>2, NothingType
  <1>18. \A k \in Peer : arrived[k] \in Nat /\ arrived[k] = Cardinality(CoveredOf(k))
    BY PeersAre DEF Arrivals
  <1>19. ASSUME NEW k \in Peer
         PROVE  /\ link'[k] \in [Client -> Seq(Msg)]
                /\ link'[k][R] = Skip(link[k][R], Cardinality(CoveredOf(k)))
                /\ \A j \in Client : j # R => link'[k][j] = link[k][j]
    <2> DEFINE rest == Skip(link[k][R], arrived[k])
    <2>1. link[k] \in [Client -> Seq(Msg)] /\ link[k][R] \in Seq(Msg)
      BY <1>1, <1>5
    <2>2. rest \in Seq(Msg)
      BY <1>18, <2>1, SkipType
    <2>3. link'[k] = [link[k] EXCEPT ![R] = rest]
      BY <1>1, <1>4
    <2>4. rest = Skip(link[k][R], Cardinality(CoveredOf(k)))
      BY <1>18
    <2> HIDE DEF rest
    <2> QED BY <1>1, <2>1, <2>2, <2>3, <2>4
  <1>20. link'[R] = link[R] /\ \A k \in Client : k # R => k \in Peer
    BY <1>1, <1>4, PeersAre
  <1>21. link' \in [Client -> [Client -> Seq(Msg)]]
    <2>1. \A k \in Client : link'[k] \in [Client -> Seq(Msg)]
      BY <1>1, <1>5, <1>19, <1>20
    <2>2. link' = [k \in Client |-> link'[k]]
      BY <1>4
    <2> QED BY <2>1, <2>2
  <1>22. \A j, k \in Client : j = R \/ k # R => link'[j][k] = link[j][k]
    BY <1>19, <1>20
  <1> QED BY <1>2, <1>13, <1>14, <1>15, <1>16, <1>17, <1>19, <1>21, <1>22

(***************************************************************************)
(* What each action does to the acks.                                      *)
(***************************************************************************)

(* The greater of two numbers is one of them.                                *)
LEMMA MostIs ==
    ASSUME NEW a \in Nat, NEW b \in Nat
    PROVE  Most(a, b) \in Nat /\ (Most(a, b) = a \/ Most(a, b) = b)
  BY DEF Most

(* One ack is replaced.                                                      *)
LEMMA AckReplaced ==
    ASSUME NEW f \in [Client -> [Client -> [Client -> Nat]]], NEW g,
           NEW i \in Client, NEW j \in Client, NEW x \in Client, NEW n \in Nat,
           g = [f EXCEPT ![i][j][x] = n]
    PROVE  /\ g \in [Client -> [Client -> [Client -> Nat]]]
           /\ g[i][j][x] = n
           /\ \A k, l, y \in Client : k # i \/ l # j \/ y # x => g[k][l][y] = f[k][l][y]
  <1> DEFINE row == [f[i][j] EXCEPT ![x] = n]
             rows == [f[i] EXCEPT ![j] = row]
  <1>1. /\ row \in [Client -> Nat] /\ row[x] = n
        /\ \A y \in Client : y # x => row[y] = f[i][j][y]
    OBVIOUS
  <1>2. g = [f EXCEPT ![i] = rows]
    OBVIOUS
  <1> HIDE DEF row
  <1>3. rows \in [Client -> [Client -> Nat]]
    BY <1>1
  <1>4. rows[j] = row /\ \A l \in Client : l # j => rows[l] = f[i][l]
    OBVIOUS
  <1> HIDE DEF rows
  <1>5. g \in [Client -> [Client -> [Client -> Nat]]]
    BY <1>2, <1>3
  <1>6. g[i] = rows
    BY <1>2
  <1>7. \A k \in Client : k # i => g[k] = f[k]
    BY <1>2
  <1>8. g[i][j][x] = n
    BY <1>1, <1>4, <1>6
  <1>9. ASSUME NEW k \in Client, NEW l \in Client, NEW y \in Client, k # i \/ l # j \/ y # x
        PROVE  g[k][l][y] = f[k][l][y]
    <2>1. CASE k # i
      BY <1>7, <2>1
    <2>2. CASE k = i /\ l # j
      BY <1>4, <1>6, <2>2
    <2>3. CASE k = i /\ l = j /\ y # x
      BY <1>1, <1>4, <1>6, <2>3
    <2> QED BY <1>9, <2>1, <2>2, <2>3
  <1> QED BY <1>5, <1>8, <1>9

(* Issue: the one ack it raises, and who is told.                            *)
LEMMA IssueAcks ==
    ASSUME Types, NEW i \in Client, Issue(i)
    PROVE  /\ ack' \in [Client -> [Client -> [Client -> Nat]]]
           /\ ack'[i][i][i] = ack[i][i][i] \/ ack'[i][i][i] = Queued(i, i) + 1
           /\ \A k, l, y \in Client : k # i \/ l # i \/ y # i => ack'[k][l][y] = ack[k][l][y]
           /\ told' \in [Client -> [Client -> [Client -> Nat]]]
           /\ \A j, k \in Client : j = Restarter \/ k # Restarter => told'[j][k] = told[j][k]
           /\ UNCHANGED <<dispatched, available, orders>>
  <1> DEFINE q == Queued(i, i) + 1
             n == Most(ack[i][i][i], q)
             row == [k \in Client |-> IF Pending(i, k) THEN [told[i][k] EXCEPT ![i] = q] ELSE told[i][k]]
  <1>1. q \in Nat /\ ack \in [Client -> [Client -> [Client -> Nat]]]
        /\ told \in [Client -> [Client -> [Client -> Nat]]]
    BY QueuedType DEF Types
  <1>2. ack' = [ack EXCEPT ![i][i][i] = n]
    BY DEF Issue
  <1>3. told' = [told EXCEPT ![i] = row] /\ UNCHANGED <<dispatched, available, orders>>
    BY DEF Issue, beatVars, envVars
  <1> HIDE DEF q
  <1>4. n \in Nat /\ (n = ack[i][i][i] \/ n = q)
    BY <1>1, MostIs
  <1> HIDE DEF n
  <1>5. /\ ack' \in [Client -> [Client -> [Client -> Nat]]]
        /\ ack'[i][i][i] = n
        /\ \A k, l, y \in Client : k # i \/ l # i \/ y # i => ack'[k][l][y] = ack[k][l][y]
    BY <1>1, <1>2, <1>4, AckReplaced
  <1>6. row \in [Client -> [Client -> Nat]]
    BY <1>1
  <1>7. \A k \in Client : i = Restarter \/ k # Restarter => row[k] = told[i][k]
    BY DEF Pending
  <1> HIDE DEF row
  <1>8. told' \in [Client -> [Client -> [Client -> Nat]]]
    BY <1>1, <1>3, <1>6
  <1>9. told'[i] = row /\ \A j \in Client : j # i => told'[j] = told[j]
    BY <1>1, <1>3
  <1>10. \A j, k \in Client : j = Restarter \/ k # Restarter => told'[j][k] = told[j][k]
    BY <1>7, <1>9
  <1> QED BY <1>3, <1>4, <1>5, <1>8, <1>10 DEF q

(* ReceiveAdvance: the two acks it raises, and what is told.                 *)
LEMMA ReceiveAdvanceAcks ==
    ASSUME Types, NEW i \in Client, NEW k \in Client, ReceiveAdvance(i, k)
    PROVE  /\ ack' \in [Client -> [Client -> [Client -> Nat]]]
           /\ ack'[i][i][k] = ack[i][i][k] \/ ack'[i][i][k] = Queued(i, k) + 1
           /\ \A j, l, y \in Client :
                ~(j = i /\ l = i /\ y = k) /\ ~(j = i /\ l = k /\ y = k) => ack'[j][l][y] = ack[j][l][y]
           /\ told' \in [Client -> [Client -> [Client -> Nat]]]
           /\ \A j, l, y \in Client : j # i \/ y # k \/ ~Reaches(i, l) => told'[j][l][y] = told[j][l][y]
           /\ \A l \in Client : told'[i][l][k] = told[i][l][k] \/ told'[i][l][k] = Queued(i, k) + 1
           /\ UNCHANGED <<dispatched, orders>>
  <1> DEFINE q == Queued(i, k) + 1
             b == Head(link[k][i]).item.beat
             n == Most(ack[i][i][k], q)
             m == Most(ack[i][k][k], b)
             first == [ack EXCEPT ![i][i][k] = n]
  <1>1. q \in Nat /\ ack \in [Client -> [Client -> [Client -> Nat]]]
    <2>1. q \in Nat
      BY QueuedType
    <2> QED BY <2>1 DEF Types
  <1>2. b \in Nat
    BY ReceiveAdvanceHears
  <1>3. i # k /\ told' = Tell(told, i, k, q) /\ UNCHANGED <<dispatched, orders>>
    BY DEF ReceiveAdvance, Reads, envVars
  <1>4. ack' = [ack EXCEPT ![i][i][k] = Most(@, q), ![i][k][k] = Most(@, b)]
    BY DEF ReceiveAdvance
  <1> HIDE DEF q, b
  <1>5. n \in Nat /\ (n = ack[i][i][k] \/ n = q) /\ m \in Nat
    <2>1. ack[i][i][k] \in Nat /\ ack[i][k][k] \in Nat
      BY <1>1
    <2> QED BY <1>1, <1>2, <2>1, MostIs
  <1>6. ack' = [first EXCEPT ![i][k][k] = m]
    BY <1>1, <1>3, <1>4
  <1> HIDE DEF n, m
  <1>7. /\ first \in [Client -> [Client -> [Client -> Nat]]]
        /\ first[i][i][k] = n
        /\ \A j, l, y \in Client : j # i \/ l # i \/ y # k => first[j][l][y] = ack[j][l][y]
    BY <1>1, <1>5, AckReplaced
  <1> HIDE DEF first
  <1>8. /\ ack' \in [Client -> [Client -> [Client -> Nat]]]
        /\ ack'[i][k][k] = m
        /\ \A j, l, y \in Client : j # i \/ l # k \/ y # k => ack'[j][l][y] = first[j][l][y]
    BY <1>5, <1>6, <1>7, AckReplaced
  <1>9. /\ told' \in [Client -> [Client -> [Client -> Nat]]]
        /\ \A j, l, y \in Client : j # i \/ y # k \/ ~Reaches(i, l) => told'[j][l][y] = told[j][l][y]
        /\ \A l \in Client : told'[i][l][k] = told[i][l][k] \/ told'[i][l][k] = q
    BY <1>1, <1>3, TellIs
  <1>10. ack'[i][i][k] = n
    BY <1>3, <1>7, <1>8
  <1>11. \A j, l, y \in Client :
           ~(j = i /\ l = i /\ y = k) /\ ~(j = i /\ l = k /\ y = k) => ack'[j][l][y] = ack[j][l][y]
    BY <1>7, <1>8
  <1> QED BY <1>3, <1>5, <1>8, <1>9, <1>10, <1>11 DEF q

(* ReceiveAcks: what it takes from what was told.                            *)
LEMMA ReceiveAcksIs ==
    ASSUME Types, NEW i \in Client, NEW k \in Client, ReceiveAcks(i, k)
    PROVE  /\ told[k][i] # Nothing
           /\ Quiet /\ UNCHANGED <<dispatched, orders>>
           /\ ack' \in [Client -> [Client -> [Client -> Nat]]]
           /\ \A x \in Client : ack'[i][k][x] = ack[i][k][x] \/ ack'[i][k][x] = told[k][i][x]
           /\ \A j, l, y \in Client : j # i \/ l # k => ack'[j][l][y] = ack[j][l][y]
           /\ told' \in [Client -> [Client -> [Client -> Nat]]]
           /\ \A x \in Client : told'[k][i][x] = 0
           /\ \A j, l, y \in Client : j # k \/ l # i => told'[j][l][y] = told[j][l][y]
  <1> DEFINE row == [x \in Client |-> Most(ack[i][k][x], told[k][i][x])]
  <1>1. /\ told[k][i] # Nothing
        /\ ack' = [ack EXCEPT ![i][k] = row]
        /\ told' = [told EXCEPT ![k][i] = Nothing]
        /\ Quiet /\ UNCHANGED <<dispatched, orders>>
    BY DEF ReceiveAcks, streamVars, peerVars, returnVars, envVars, Quiet, Control
  <1>2. ack \in [Client -> [Client -> [Client -> Nat]]] /\ told \in [Client -> [Client -> [Client -> Nat]]]
    BY DEF Types
  <1>3. ASSUME NEW x \in Client
        PROVE  row[x] \in Nat /\ (row[x] = ack[i][k][x] \/ row[x] = told[k][i][x])
    <2>1. ack[i][k][x] \in Nat /\ told[k][i][x] \in Nat
      BY <1>2
    <2> QED BY <2>1, MostIs
  <1>4. row \in [Client -> Nat]
    <2>1. \A x \in Client : row[x] \in Nat
      BY <1>3
    <2> QED BY <2>1
  <1> HIDE DEF row
  <1>5. /\ ack' \in [Client -> [Client -> [Client -> Nat]]]
        /\ ack'[i][k] = row
        /\ \A j, l \in Client : j # i \/ l # k => ack'[j][l] = ack[j][l]
    <2>1. PICK M : M = [Client -> Nat]
      OBVIOUS
    <2>2. ack \in [Client -> [Client -> M]] /\ row \in M
      BY <1>2, <1>4, <2>1
    <2>3. ack' = [ack EXCEPT ![i][k] = row]
      BY <1>1
    <2>4. /\ ack' \in [Client -> [Client -> M]]
          /\ ack'[i][k] = row
          /\ \A j, l \in Client : j # i \/ l # k => ack'[j][l] = ack[j][l]
      BY <2>2, <2>3, Replaced
    <2> QED BY <2>1, <2>4
  <1>6. /\ told' \in [Client -> [Client -> [Client -> Nat]]]
        /\ told'[k][i] = Nothing
        /\ \A j, l \in Client : j # k \/ l # i => told'[j][l] = told[j][l]
    <2>1. PICK M, none : M = [Client -> Nat] /\ none = Nothing
      OBVIOUS
    <2>2. told \in [Client -> [Client -> M]] /\ none \in M
      BY <1>2, <2>1, NothingType
    <2>3. told' = [told EXCEPT ![k][i] = none]
      BY <1>1, <2>1
    <2>4. /\ told' \in [Client -> [Client -> M]]
          /\ told'[k][i] = none
          /\ \A j, l \in Client : j # k \/ l # i => told'[j][l] = told[j][l]
      BY <2>2, <2>3, Replaced
    <2> QED BY <2>1, <2>4
  <1>7. \A x \in Client : told'[k][i][x] = 0
    BY <1>6, NothingType
  <1> QED BY <1>1, <1>3, <1>5, <1>6, <1>7

(* The same, part by part.                                                   *)
StreamTypes ==
    /\ stream \in [Client -> [Client -> Beats]]
    /\ open \in [Client -> [Client -> Orders]]
    /\ dispatched \in [Client -> Nat]

WireTypes ==
    /\ ack \in [Client -> [Client -> [Client -> Nat]]]
    /\ told \in [Client -> [Client -> [Client -> Nat]]]
    /\ link \in [Client -> [Client -> Seq(Msg)]]

SeatTypes ==
    /\ lost \subseteq Peer
    /\ serves \in [Peer -> Nat]
    /\ phase \in {"Up", "Asking", "CatchingUp"}
    /\ report \in [Peer -> Report \cup {NoReport}]
    /\ cut \in Nat

CountTypes == crashes \in Nat /\ orders \in Nat /\ crashes + orders <= MaxEvents

TypesBut == StreamTypes /\ WireTypes /\ SeatTypes /\ CountTypes

(* Types of what is not touched are kept.                                    *)
LEMMA SeatTypesKept ==
    ASSUME Types, UNCHANGED <<lost, serves, phase, report, cut>>
    PROVE  SeatTypes'
  BY DEF Types, SeatTypes

(* So are those of the counts,                                               *)
LEMMA CountTypesKept ==
    ASSUME Types, UNCHANGED <<crashes, orders>>
    PROVE  CountTypes'
  BY DEF Types, CountTypes

(* and of the streams.                                                       *)
LEMMA StreamTypesKept ==
    ASSUME Types, UNCHANGED <<stream, open, dispatched>>
    PROVE  StreamTypes'
  BY DEF Types, StreamTypes

(* Who says something keeps the types,                                       *)
LEMMA SaysTypes ==
    ASSUME Types, NEW i \in Client, Says(i)
    PROVE  /\ stream' \in [Client -> [Client -> Beats]]
           /\ open' \in [Client -> [Client -> Orders]]
           /\ link' \in [Client -> [Client -> Seq(Msg)]]
           /\ Control
  <1>1. PICK msg \in StreamMsg : Say(i, msg)
    BY DEF Says
  <1>2. msg \in Msg
    BY DEF Msg
  <1>3. link' \in [Client -> [Client -> Seq(Msg)]]
    BY <1>1, <1>2, BroadcastIs DEF Say
  <1> QED BY <1>1, <1>3 DEF Say, Only

(* and so does who hears something.                                          *)
LEMMA HearsTypes ==
    ASSUME Types, NEW i \in Client, NEW k \in Client, Hears(i, k)
    PROVE  /\ stream' \in [Client -> [Client -> Beats]]
           /\ open' \in [Client -> [Client -> Orders]]
           /\ link' \in [Client -> [Client -> Seq(Msg)]]
           /\ Control
  <1>1. link' \in [Client -> [Client -> Seq(Msg)]]
    BY RestIs DEF Hears
  <1> QED BY <1>1 DEF Hears, Only

(* A step keeps the types, if a return finds every report made.              *)
LEMMA TypesStep ==
    ASSUME Types, FinishCatchUp => Prompt /\ Reported, [Next]_vars
    PROVE  Types'
  <1>1. ASSUME NEW i \in Client, GiveOrder(i) PROVE TypesBut' /\ available' \in [Client -> Nat]
    <2>1. /\ stream' \in [Client -> [Client -> Beats]]
          /\ open' \in [Client -> [Client -> Orders]]
          /\ link' \in [Client -> [Client -> Seq(Msg)]]
          /\ Control
      BY <1>1, GiveOrderSays, SaysTypes
    <2>2. UNCHANGED <<dispatched, available, ack, told>> /\ crashes + orders < MaxEvents
          /\ orders' = orders + 1
      BY <1>1 DEF GiveOrder, beatVars
    <2>3. StreamTypes'
      BY <2>1, <2>2 DEF Types, StreamTypes
    <2>4. WireTypes'
      BY <2>1, <2>2 DEF Types, WireTypes
    <2>5. SeatTypes'
      BY <2>1, SeatTypesKept DEF Control
    <2>6. CountTypes'
      <3>1. crashes \in Nat /\ orders \in Nat /\ MaxEvents \in Nat /\ crashes' = crashes
        BY <2>1, PeersAre DEF Types, Control
      <3> QED BY <2>2, <3>1 DEF CountTypes
    <2> QED BY <2>2, <2>3, <2>4, <2>5, <2>6 DEF Types, TypesBut
  <1>2. ASSUME NEW i \in Client, Issue(i) PROVE TypesBut' /\ available' \in [Client -> Nat]
    <2>1. /\ stream' \in [Client -> [Client -> Beats]]
          /\ open' \in [Client -> [Client -> Orders]]
          /\ link' \in [Client -> [Client -> Seq(Msg)]]
          /\ Control
      BY <1>2, IssueSays, SaysTypes
    <2>2. /\ ack' \in [Client -> [Client -> [Client -> Nat]]]
          /\ told' \in [Client -> [Client -> [Client -> Nat]]]
          /\ UNCHANGED <<dispatched, available, orders>>
      BY <1>2, IssueAcks
    <2>3. StreamTypes'
      BY <2>1, <2>2 DEF Types, StreamTypes
    <2>4. WireTypes'
      BY <2>1, <2>2 DEF WireTypes
    <2>5. SeatTypes' /\ CountTypes'
      BY <2>1, <2>2, SeatTypesKept, CountTypesKept DEF Control
    <2> QED BY <2>2, <2>3, <2>4, <2>5 DEF Types, TypesBut
  <1>3. ASSUME NEW i \in Client, Dispatch(i) PROVE TypesBut' /\ available' \in [Client -> Nat]
    <2>1. /\ dispatched' = [dispatched EXCEPT ![i] = @ + 1]
          /\ UNCHANGED <<stream, open, available, ack, told, link>>
          /\ UNCHANGED <<lost, serves, phase, report, cut, crashes, orders>>
      BY <1>3 DEF Dispatch, streamVars, wireVars, peerVars, returnVars, envVars
    <2>2. dispatched' \in [Client -> Nat]
      <3>1. dispatched \in [Client -> Nat]
        BY DEF Types
      <3> QED BY <2>1, <3>1
    <2>3. StreamTypes' /\ WireTypes'
      BY <2>1, <2>2 DEF Types, StreamTypes, WireTypes
    <2>4. SeatTypes' /\ CountTypes'
      BY <2>1, SeatTypesKept, CountTypesKept
    <2> QED BY <2>1, <2>3, <2>4 DEF Types, TypesBut
  <1>4. ASSUME NEW i \in Client, DoBeat(i) PROVE TypesBut' /\ available' \in [Client -> Nat]
    <2>1. StepAvailable(i)
      BY <1>4 DEF DoBeat
    <2>2. ASSUME NEW k \in Client, ReceiveOrder(i, k) PROVE TypesBut'
      <3>1. /\ stream' \in [Client -> [Client -> Beats]]
            /\ open' \in [Client -> [Client -> Orders]]
            /\ link' \in [Client -> [Client -> Seq(Msg)]]
            /\ Control
            /\ UNCHANGED <<ack, told, dispatched, orders>>
        BY <2>2, ReceiveOrderHears, HearsTypes
      <3>2. StreamTypes' /\ WireTypes'
        BY <3>1 DEF Types, StreamTypes, WireTypes
      <3>3. SeatTypes' /\ CountTypes'
        BY <3>1, SeatTypesKept, CountTypesKept DEF Control
      <3> QED BY <3>2, <3>3 DEF TypesBut
    <2>3. ASSUME NEW k \in Client, ReceiveAdvance(i, k) PROVE TypesBut'
      <3>1. /\ stream' \in [Client -> [Client -> Beats]]
            /\ open' \in [Client -> [Client -> Orders]]
            /\ link' \in [Client -> [Client -> Seq(Msg)]]
            /\ Control
        BY <2>3, ReceiveAdvanceHears, HearsTypes
      <3>2. /\ ack' \in [Client -> [Client -> [Client -> Nat]]]
            /\ told' \in [Client -> [Client -> [Client -> Nat]]]
            /\ UNCHANGED <<dispatched, orders>>
        BY <2>3, ReceiveAdvanceAcks
      <3>3. StreamTypes' /\ WireTypes'
        BY <3>1, <3>2 DEF Types, StreamTypes, WireTypes
      <3>4. SeatTypes' /\ CountTypes'
        BY <3>1, <3>2, SeatTypesKept, CountTypesKept DEF Control
      <3> QED BY <3>3, <3>4 DEF TypesBut
    <2>4. ASSUME NEW k \in Client, ReceiveAcks(i, k) PROVE TypesBut'
      <3>1. /\ Quiet /\ UNCHANGED <<dispatched, orders>>
            /\ ack' \in [Client -> [Client -> [Client -> Nat]]]
            /\ told' \in [Client -> [Client -> [Client -> Nat]]]
        BY <2>4, ReceiveAcksIs
      <3>2. WireTypes'
        BY <3>1 DEF Types, WireTypes, Quiet
      <3>3. StreamTypes' /\ SeatTypes' /\ CountTypes'
        BY <3>1, StreamTypesKept, SeatTypesKept, CountTypesKept DEF Quiet, Control
      <3> QED BY <3>2, <3>3 DEF TypesBut
    <2>5. ASSUME TakeSeat(i) PROVE TypesBut'
      <3>1. /\ lost' = lost \ {i}
            /\ UNCHANGED <<stream, dispatched, ack, phase, cut, crashes, orders>>
            /\ link' \in [Client -> [Client -> Seq(Msg)]]
            /\ told' \in [Client -> [Client -> [Client -> Nat]]]
        BY <2>5, TakeSeatIs
      <3>2. /\ open' \in [Client -> [Client -> Orders]]
            /\ serves' \in [Peer -> Nat]
            /\ report' \in [Peer -> Report \cup {NoReport}]
        <4>1. CASE i = Recorder
          <5>1. UNCHANGED <<open, report>> /\ serves' \in [Peer -> Nat]
            BY <2>5, <4>1, TakeSeatIs
          <5> QED BY <5>1 DEF Types
        <4>2. CASE i # Recorder
          <5>1. Serves(i) /\ serves' = serves
            BY <2>5, <4>2, TakeSeatIs
          <5> QED BY <5>1 DEF Types, Serves
        <4> QED BY <4>1, <4>2
      <3>3. StreamTypes'
        BY <3>1, <3>2 DEF Types, StreamTypes
      <3>4. WireTypes'
        BY <3>1 DEF Types, WireTypes
      <3>5. SeatTypes'
        BY <3>1, <3>2 DEF Types, SeatTypes
      <3> QED BY <3>1, <3>3, <3>4, <3>5, CountTypesKept DEF TypesBut
    <2>6. ASSUME Serve(i) PROVE TypesBut'
      <3>1. /\ serves' \in [Peer -> Nat]
            /\ Serves(i)
            /\ told' \in [Client -> [Client -> [Client -> Nat]]]
            /\ UNCHANGED <<stream, dispatched, ack, link, lost, phase, cut, crashes, orders>>
        BY <2>6, ServeIs
      <3>2. StreamTypes'
        BY <3>1 DEF Types, StreamTypes, Serves
      <3>3. WireTypes'
        BY <3>1 DEF Types, WireTypes
      <3>4. SeatTypes'
        BY <3>1 DEF Types, SeatTypes, Serves
      <3> QED BY <3>1, <3>2, <3>3, <3>4, CountTypesKept DEF TypesBut
    <2>7. ASSUME ReceiveCut(i) PROVE TypesBut'
      <3>1. i \in Peer /\ link[Restarter][i] # <<>> /\ link' = Rest(i, Restarter)
            /\ UNCHANGED <<dispatched, told, orders>> /\ Control
        BY <2>7, ReceiveCutIs
      <3>2. link' \in [Client -> [Client -> Seq(Msg)]]
        BY <3>1, RestIs, PeersAre
      <3>3. /\ stream' \in [Client -> [Client -> Beats]]
            /\ open' \in [Client -> [Client -> Orders]]
            /\ ack' \in [Client -> [Client -> [Client -> Nat]]]
        <4>1. CASE GoesBack(i)
          BY <2>7, <4>1, ReceiveCutIs DEF Only
        <4>2. CASE ~GoesBack(i)
          <5>1. UNCHANGED <<stream, open, ack>>
            BY <2>7, <4>2, ReceiveCutIs
          <5> QED BY <5>1 DEF Types
        <4> QED BY <4>1, <4>2
      <3>4. StreamTypes'
        BY <3>1, <3>3 DEF Types, StreamTypes
      <3>5. WireTypes'
        BY <3>1, <3>2, <3>3 DEF Types, WireTypes
      <3>6. SeatTypes' /\ CountTypes'
        BY <3>1, SeatTypesKept, CountTypesKept DEF Control
      <3> QED BY <3>4, <3>5, <3>6 DEF TypesBut
    <2>8. ASSUME Settle PROVE TypesBut'
      <3>1. \A k \in Peer : report[k] \in Report
        <4>1. \A k \in Peer : report[k] # NoReport
          BY <2>8 DEF Settle
        <4> QED BY <4>1 DEF Types
      <3>2. OldStreamEnd \in Nat
        BY <3>1, OldStreamEndIs
      <3>3. /\ phase' = "CatchingUp" /\ cut' \in Nat
            /\ link' \in [Client -> [Client -> Seq(Msg)]]
            /\ UNCHANGED <<stream, open, dispatched, ack, told, lost, serves, report, crashes, orders>>
        BY <2>8, <3>2, SettleIs
      <3>4. StreamTypes' /\ CountTypes'
        BY <3>3, StreamTypesKept, CountTypesKept
      <3>5. WireTypes'
        BY <3>3 DEF Types, WireTypes
      <3>6. SeatTypes'
        BY <3>3 DEF Types, SeatTypes
      <3> QED BY <3>4, <3>5, <3>6 DEF TypesBut
    <2>9. ASSUME FinishCatchUp PROVE TypesBut'
      <3>1. Prompt /\ Reported
        BY <2>9
      <3>2. /\ stream' \in [Client -> [Client -> Beats]]
            /\ open' \in [Client -> [Client -> Orders]]
            /\ dispatched' \in [Client -> Nat]
            /\ ack' \in [Client -> [Client -> [Client -> Nat]]]
            /\ told' \in [Client -> [Client -> [Client -> Nat]]]
            /\ link' \in [Client -> [Client -> Seq(Msg)]]
        BY <2>9, <3>1, FinishCatchUpIs
      <3>3. /\ phase' = "Up" /\ report' = [k \in Peer |-> NoReport] /\ cut' = 0
            /\ UNCHANGED <<lost, serves, crashes, orders>>
        BY <2>9, <3>1, FinishCatchUpIs
      <3>4. StreamTypes' /\ WireTypes'
        BY <3>2 DEF StreamTypes, WireTypes
      <3>5. SeatTypes'
        BY <3>3 DEF Types, SeatTypes
      <3> QED BY <3>3, <3>4, <3>5, CountTypesKept DEF TypesBut
    <2>10. ASSUME PullNothing(i) PROVE TypesBut'
      <3>1. /\ UNCHANGED <<stream, open, dispatched, ack, told, link>>
            /\ UNCHANGED <<lost, serves, phase, report, cut, crashes, orders>>
        BY <2>10 DEF PullNothing, streamVars, wireVars, peerVars, returnVars, envVars
      <3>2. StreamTypes' /\ WireTypes'
        BY <3>1 DEF Types, StreamTypes, WireTypes
      <3> QED BY <3>1, <3>2, SeatTypesKept, CountTypesKept DEF TypesBut
    <2>11. TypesBut'
      BY <1>4, <2>2, <2>3, <2>4, <2>5, <2>6, <2>7, <2>8, <2>9, <2>10 DEF DoBeat
    <2>12. available' \in [Client -> Nat]
      <3>1. ack' \in [Client -> [Client -> [Client -> Nat]]]
        BY <2>11 DEF TypesBut, WireTypes
      <3> QED BY <2>1, <3>1, AvailableIs
    <2> QED BY <2>11, <2>12
  <1>5. ASSUME Crash PROVE TypesBut' /\ available' \in [Client -> Nat]
    <2>1. /\ stream' \in [Client -> [Client -> Beats]]
          /\ open' \in [Client -> [Client -> Orders]]
          /\ dispatched' \in [Client -> Nat]
          /\ available' \in [Client -> Nat]
          /\ ack' \in [Client -> [Client -> [Client -> Nat]]]
          /\ told' \in [Client -> [Client -> [Client -> Nat]]]
          /\ link' \in [Client -> [Client -> Seq(Msg)]]
      BY <1>5, CrashIs
    <2>2. /\ crashes + orders < MaxEvents
          /\ crashes' = crashes + 1 /\ phase' = "Asking" /\ cut' = 0 /\ lost' = Peer
          /\ report' = [k \in Peer |-> NoReport]
          /\ UNCHANGED <<serves, orders>>
      BY <1>5, CrashIs
    <2>3. StreamTypes' /\ WireTypes'
      BY <2>1 DEF StreamTypes, WireTypes
    <2>4. SeatTypes'
      BY <2>2 DEF Types, SeatTypes
    <2>5. CountTypes'
      <3>1. crashes \in Nat /\ orders \in Nat /\ MaxEvents \in Nat
        BY PeersAre DEF Types
      <3> QED BY <2>2, <3>1 DEF CountTypes
    <2> QED BY <2>1, <2>3, <2>4, <2>5 DEF TypesBut
  <1>6. ASSUME UNCHANGED vars PROVE TypesBut' /\ available' \in [Client -> Nat]
    <2>1. /\ UNCHANGED <<stream, open, dispatched, available, ack, told, link>>
          /\ UNCHANGED <<lost, serves, phase, report, cut, crashes, orders>>
      BY <1>6 DEF vars, streamVars, beatVars, wireVars, peerVars, returnVars, envVars
    <2>2. StreamTypes' /\ WireTypes' /\ available' \in [Client -> Nat]
      BY <2>1 DEF Types, StreamTypes, WireTypes
    <2> QED BY <2>1, <2>2, SeatTypesKept, CountTypesKept DEF TypesBut
  <1>7. TypesBut' /\ available' \in [Client -> Nat]
    BY <1>1, <1>2, <1>3, <1>4, <1>5, <1>6 DEF Next
  <1> QED BY <1>7 DEF Types, TypesBut, StreamTypes, WireTypes, SeatTypes, CountTypes

(***************************************************************************)
(* The invariant.                                                          *)
(***************************************************************************)

Away == phase # "Up"

(* k has given the restarter its seat and reported to it.                    *)
Served(k) == Away /\ k \notin lost /\ serves[k] = 0

(* Who is lost, who has still to serve and who has reported.                 *)
ReturnInv ==
    /\ phase # "Asking" => lost = {} /\ \A k \in Peer : serves[k] = 0
    /\ \A k \in Peer : serves[k] > 0 => k \notin lost /\ serves[k] = 1
    /\ \A k \in Peer : ~Served(k) => report[k] = NoReport
    /\ \A k \in Peer : Served(k) => report[k] \in Report
    /\ Away => crashes > 0
    /\ Away => \A x \in Client : stream[Restarter][x] = <<>>

(* Each message names its beat, and a beat is of one run.                    *)
Whole(T) ==
    \A b \in 1 .. Len(T) : \A m \in 1 .. Len(T[b]) :
        T[b][m].beat = b /\ T[b][m].run = T[b][Len(T[b])].run

(* A player's own stream.                                                    *)
OwnInv ==
    \A x \in Client : Playing(x) =>
        /\ Whole(stream[x][x])
        /\ \A m \in 1 .. Len(open[x][x]) : open[x][x][m] = Said(x, Queued(x, x) + 1)

(* What i holds of x's stream and what is on its way make x's own copy.      *)
FlowInv ==
    \A x, i \in Client : x # i /\ Playing(x) /\ Playing(i) =>
        Leads(At(i, x), link[x][i], At(x, x))

(* What k reported of its own stream.                                        *)
Held(k) == [beats |-> report[k].beats[k], part |-> report[k].orders]

(* What k reported is what it holds, less what its own stream gained since   *)
(* and more than what it gave up of the restarter's.                         *)
ReportInv(k) ==
    /\ \A x \in Client : report[k].queued[x] = Len(report[k].beats[x])
    /\ Leads(Held(k), link[k][Restarter], At(k, k))
    /\ \A x \in Peer : Agrees(report[k].beats[x], stream[x][x])
    /\ Agrees(stream[k][Restarter], report[k].beats[Restarter])
    /\ phase = "Asking" => stream[k][Restarter] = report[k].beats[Restarter]
    /\ open[k][Restarter] = <<>>

BacklogInv ==
    \A k \in Peer :
        /\ Served(k) => ReportInv(k)
        /\ Away /\ ~Served(k) => link[k][Restarter] = <<>>

(* k holds a beginning of T, the stream of the restarter's run before, or    *)
(* will when it has read what is still on its way.                           *)
OldWay(k, T) ==
    \/ \E q : Leads(At(k, Restarter), link[Restarter][k], q) /\ Agrees(q.beats, T)
    \/ /\ \E c \in Nat : link[Restarter][k] = <<CutMsg(c)>>
       /\ Agrees(stream[k][Restarter], T)
       /\ open[k][Restarter] = <<>>

OldInv == Away => \E T \in Beats : Whole(T) /\ \A k \in Peer : OldWay(k, T)

(* On the new link there is nothing but the cut.                             *)
SeatInv ==
    \A k \in Peer :
        /\ phase = "Asking" /\ k \notin lost => link[Restarter][k] = <<>>
        /\ phase = "CatchingUp" =>
             \/ link[Restarter][k] = <<CutMsg(cut)>>
             \/ link[Restarter][k] = <<>> /\ Queued(k, Restarter) = cut

StreamInv == ReturnInv /\ OwnInv /\ FlowInv /\ BacklogInv /\ OldInv /\ SeatInv

-----------------------------------------------------------------------------
(***************************************************************************)
(* The steps, by what they do to streams and links.                        *)
(***************************************************************************)

(* Every step is of one of these kinds.                                      *)
LEMMA StepKinds ==
    ASSUME Types, [Next]_vars
    PROVE  \/ \E i \in Client : Says(i)
           \/ \E i, k \in Client : Hears(i, k)
           \/ Quiet
           \/ \E k \in Peer : TakeSeat(k) \/ Serve(k) \/ ReceiveCut(k)
           \/ Settle
           \/ FinishCatchUp
           \/ Crash
  <1>1. ASSUME NEW i \in Client, GiveOrder(i) PROVE Says(i)
    BY <1>1, GiveOrderSays
  <1>2. ASSUME NEW i \in Client, Issue(i) PROVE Says(i)
    BY <1>2, IssueSays
  <1>3. ASSUME NEW i \in Client, Dispatch(i) PROVE Quiet
    BY <1>3 DEF Dispatch, streamVars, wireVars, peerVars, returnVars, envVars, Quiet, Control
  <1>4. ASSUME NEW i \in Client, NEW k \in Client, ReceiveOrder(i, k) \/ ReceiveAdvance(i, k)
        PROVE  Hears(i, k)
    BY <1>4, ReceiveOrderHears, ReceiveAdvanceHears
  <1>5. ASSUME NEW i \in Client, NEW k \in Client, ReceiveAcks(i, k) PROVE Quiet
    BY <1>5, ReceiveAcksIs
  <1>6. ASSUME NEW i \in Client, TakeSeat(i) PROVE i \in Peer
    BY <1>6, TakeSeatIs
  <1>7. ASSUME NEW i \in Client, Serve(i) PROVE i \in Peer
    BY <1>7, ServeIs
  <1>8. ASSUME NEW i \in Client, ReceiveCut(i) PROVE i \in Peer
    BY <1>8, ReceiveCutIs
  <1>9. ASSUME NEW i \in Client, PullNothing(i) PROVE Quiet
    BY <1>9 DEF PullNothing, streamVars, wireVars, peerVars, returnVars, envVars, Quiet, Control
  <1>10. ASSUME UNCHANGED vars PROVE Quiet
    BY <1>10 DEF vars, streamVars, wireVars, peerVars, returnVars, envVars, Quiet, Control
  <1>11. ASSUME NEW i \in Client, DoBeat(i)
         PROVE  \/ \E k \in Client : Hears(i, k)
                \/ Quiet
                \/ i \in Peer /\ (TakeSeat(i) \/ Serve(i) \/ ReceiveCut(i))
                \/ Settle
                \/ FinishCatchUp
    BY <1>4, <1>5, <1>6, <1>7, <1>8, <1>9, <1>11 DEF DoBeat
  <1> QED BY <1>1, <1>2, <1>3, <1>10, <1>11 DEF Next

(* What the peers hold of each other's streams is as it was.                 *)
PeersKept ==
    /\ phase' # "Up"
    /\ \A i, x \in Peer : /\ stream'[i][x] = stream[i][x] /\ open'[i][x] = open[i][x]
                          /\ link'[i][x] = link[i][x]

(* A cut that is read is all that was on its way.                            *)
LEMMA CutIsTheRest ==
    ASSUME Types, StreamInv, NEW k \in Peer, ReceiveCut(k)
    PROVE  /\ Away
           /\ link[Restarter][k] = <<CutMsg(Head(link[Restarter][k]).cut)>>
           /\ Tail(link[Restarter][k]) = <<>>
           /\ open[k][Restarter] = <<>>
           /\ Head(link[Restarter][k]).cut \in Nat
           /\ k \notin lost => phase = "CatchingUp" /\ Head(link[Restarter][k]).cut = cut
  <1> DEFINE msgs == link[Restarter][k]
  <1>1. k \in Client /\ k # Restarter /\ Restarter \in Client
    BY PeersAre
  <1>2. msgs # <<>> /\ Head(msgs).op = "Cut" /\ Head(msgs).cut \in Nat
    BY <1>1, ReceiveCutIs
  <1> HIDE DEF msgs
  <1>3. ASSUME NEW p, NEW q, Leads(p, msgs, q) PROVE FALSE
    <2>1. Head(msgs) \in StreamMsg
      BY <1>2, <1>3, LeadsTail
    <2> QED BY <1>2, <2>1 DEF StreamMsg
  <1>4. Away
    <2>1. SUFFICES ASSUME phase = "Up" PROVE FALSE
      BY DEF Away
    <2>2. Leads(At(k, Restarter), msgs, At(Restarter, Restarter))
      BY <1>1, <2>1 DEF StreamInv, FlowInv, Playing, msgs
    <2> QED BY <1>3, <2>2
  <1>5. PICK c \in Nat : msgs = <<CutMsg(c)>> /\ open[k][Restarter] = <<>>
    BY <1>3, <1>4 DEF StreamInv, OldInv, OldWay, msgs
  <1>6. Head(msgs) = CutMsg(c) /\ Tail(msgs) = <<>>
    BY <1>5
  <1>7. c = Head(msgs).cut
    BY <1>6, CutMsgIs
  <1>8. ASSUME k \notin lost PROVE phase = "CatchingUp" /\ c = cut
    <2>1. phase = "CatchingUp"
      BY <1>2, <1>4, <1>8 DEF Types, StreamInv, SeatInv, Away, msgs
    <2>2. msgs = <<CutMsg(cut)>>
      BY <1>2, <2>1 DEF StreamInv, SeatInv, msgs
    <2>3. Head(msgs) = CutMsg(cut) /\ cut \in Nat
      BY <2>2 DEF Types
    <2> QED BY <1>7, <2>1, <2>3, CutMsgIs
  <1> QED BY <1>2, <1>4, <1>5, <1>6, <1>7, <1>8 DEF msgs

(* The steps of a return keep what peers hold of each other.                 *)
LEMMA PeersAreKept ==
    ASSUME Types, StreamInv,
           \/ \E k \in Peer : TakeSeat(k) \/ Serve(k) \/ ReceiveCut(k)
           \/ Settle
           \/ Crash
    PROVE  PeersKept
  <1> USE PeersAre
  <1>1. ASSUME NEW k \in Peer, TakeSeat(k) PROVE PeersKept
    <2>1. phase' # "Up" /\ stream' = stream
      BY <1>1, TakeSeatIs
    <2>4. \A j, l \in Client : ~(j = k /\ l = Restarter) /\ ~(j = Restarter /\ l = k)
             => link'[j][l] = link[j][l]
      BY <1>1, TakeSeatIs
    <2>2. \A i, x \in Peer : link'[i][x] = link[i][x]
      BY <2>4
    <2>3. \A i, x \in Peer : open'[i][x] = open[i][x]
      <3>1. open' = open \/ Serves(k)
        BY <1>1, TakeSeatIs
      <3> QED BY <3>1 DEF Serves
    <2> QED BY <2>1, <2>2, <2>3 DEF PeersKept
  <1>2. ASSUME NEW k \in Peer, Serve(k) PROVE PeersKept
    <2>1. phase' = phase /\ stream' = stream /\ link' = link /\ Serves(k) /\ serves[k] > 0
      BY <1>2, ServeIs
    <2>2. phase # "Up"
      BY <2>1 DEF StreamInv, ReturnInv
    <2> QED BY <2>1, <2>2 DEF PeersKept, Serves
  <1>3. ASSUME NEW k \in Peer, ReceiveCut(k) PROVE PeersKept
    <2>1. Away
      BY <1>3, CutIsTheRest
    <2>2. Control /\ link[Restarter][k] # <<>> /\ link' = Rest(k, Restarter)
      BY <1>3, ReceiveCutIs
    <2>3. \A i, x \in Peer : link'[i][x] = link[i][x]
      BY <2>2, RestIs
    <2>4. \A i, x \in Peer : stream'[i][x] = stream[i][x] /\ open'[i][x] = open[i][x]
      <3>1. Only(k, Restarter) \/ UNCHANGED <<stream, open, ack>>
        BY <1>3, ReceiveCutIs
      <3> QED BY <3>1 DEF Only
    <2> QED BY <2>1, <2>2, <2>3, <2>4 DEF PeersKept, Control, Away
  <1>4. ASSUME Settle PROVE PeersKept
    <2>1. \A k \in Peer : report[k] \in Report
      <3>1. \A k \in Peer : report[k] # NoReport
        BY <1>4 DEF Settle
      <3> QED BY <3>1 DEF Types
    <2>2. OldStreamEnd \in Nat
      BY <2>1, OldStreamEndIs
    <2>3. phase' = "CatchingUp" /\ stream' = stream /\ open' = open
      BY <1>4, <2>2, SettleIs
    <2>4. \A i, x \in Peer : link'[i][x] = link[i][x]
      BY <1>4, <2>2, SettleIs
    <2> QED BY <2>3, <2>4 DEF PeersKept
  <1>5. ASSUME Crash PROVE PeersKept
    <2>1. phase' = "Asking"
      BY <1>5, CrashIs
    <2>2. \A i, x \in Peer : stream'[i][x] = stream[i][x] /\ open'[i][x] = open[i][x]
      BY <1>5, CrashIs
    <2>3. \A i, x \in Peer : link'[i][x] = link[i][x]
      BY <1>5, CrashIs
    <2> QED BY <2>1, <2>2, <2>3 DEF PeersKept
  <1> QED BY <1>1, <1>2, <1>3, <1>4, <1>5

(* Quiet steps, and those of the players, leave the return where it is.      *)
LEMMA ControlKeeps ==
    ASSUME Control
    PROVE  /\ Away' = Away
           /\ \A k \in Peer : Served(k)' = Served(k)
           /\ \A i \in Client : Playing(i)' = Playing(i)
           /\ \A i, k \in Client : Pending(i, k)' = Pending(i, k) /\ Reaches(i, k)' = Reaches(i, k)
           /\ \A i \in Client, q \in Nat : Said(i, q)' = Said(i, q)
  BY DEF Control, Away, Served, Playing, Pending, Reaches, Said, RunOf

(* Who is lost, serves and has reported stays in order.                      *)
LEMMA ReturnStep ==
    ASSUME Types, StreamInv, [Next]_vars
    PROVE  ReturnInv'
  <1> USE PeersAre
  <1>1. ReturnInv
    BY DEF StreamInv
  <1>2. ASSUME Control, \A x \in Client : stream'[Restarter][x] = stream[Restarter][x] \/ ~Away
        PROVE  ReturnInv'
    BY <1>1, <1>2 DEF ReturnInv, Control, Served, Away
  <1>3. ASSUME NEW i \in Client, Says(i) PROVE ReturnInv'
    <2>1. Control /\ Only(i, i) /\ Playing(i)
      BY <1>3 DEF Says, Say
    <2>2. \A x \in Client : stream'[Restarter][x] = stream[Restarter][x] \/ ~Away
      BY <2>1 DEF Only, Playing, Away
    <2> QED BY <1>2, <2>1, <2>2
  <1>4. ASSUME NEW i \in Client, NEW k \in Client, Hears(i, k) PROVE ReturnInv'
    <2>1. Control /\ Only(i, k) /\ Playing(i)
      BY <1>4 DEF Hears
    <2>2. \A x \in Client : stream'[Restarter][x] = stream[Restarter][x] \/ ~Away
      BY <2>1 DEF Only, Playing, Away
    <2> QED BY <1>2, <2>1, <2>2
  <1>5. ASSUME Quiet PROVE ReturnInv'
    BY <1>2, <1>5 DEF Quiet
  <1>6. ASSUME NEW k \in Peer, ReceiveCut(k) PROVE ReturnInv'
    <2>1. Control /\ (Only(k, Restarter) \/ UNCHANGED <<stream, open, ack>>)
      BY <1>6, ReceiveCutIs
    <2>2. \A x \in Client : stream'[Restarter][x] = stream[Restarter][x] \/ ~Away
      BY <2>1 DEF Only
    <2> QED BY <1>2, <2>1, <2>2
  <1>7. ASSUME NEW k \in Peer, TakeSeat(k) PROVE ReturnInv'
    <2>1. k \in lost /\ phase = "Asking" /\ lost' = lost \ {k}
          /\ UNCHANGED <<stream, phase, crashes>>
      BY <1>7, TakeSeatIs
    <2>2. serves[k] = 0 /\ report[k] = NoReport /\ serves[k] \in Nat
      BY <1>1, <2>1 DEF ReturnInv, Served, Types
    <2>3. CASE k = Recorder
      <3>1. /\ UNCHANGED report
            /\ serves' \in [Peer -> Nat] /\ serves'[k] = 1
            /\ \A j \in Peer : j # k => serves'[j] = serves[j]
        BY <1>7, <2>2, <2>3, TakeSeatIs
      <3>2. \A j \in Peer : j # k => Served(j)' = Served(j)
        BY <2>1, <3>1 DEF Served, Away
      <3>3. ~Served(k)'
        BY <3>1 DEF Served
      <3>4. \A j \in Peer : serves'[j] > 0 => j \notin lost' /\ serves'[j] = 1
        BY <1>1, <2>1, <3>1 DEF ReturnInv
      <3>5. \A j \in Peer : (~Served(j)' => report'[j] = NoReport) /\ (Served(j)' => report'[j] \in Report)
        BY <1>1, <2>2, <3>1, <3>2, <3>3 DEF ReturnInv
      <3> QED BY <1>1, <2>1, <3>4, <3>5 DEF ReturnInv, Away
    <2>4. CASE k # Recorder
      <3>1. Serves(k) /\ serves' = serves
        BY <1>7, <2>4, TakeSeatIs
      <3>2. \A j \in Peer : j # k => Served(j)' = Served(j)
        BY <2>1, <3>1 DEF Served, Away
      <3>3. Served(k)'
        BY <2>1, <2>2, <3>1 DEF Served, Away
      <3>4. \A j \in Peer : serves'[j] > 0 => j \notin lost' /\ serves'[j] = 1
        BY <1>1, <2>1, <3>1 DEF ReturnInv
      <3>5. \A j \in Peer : (~Served(j)' => report'[j] = NoReport) /\ (Served(j)' => report'[j] \in Report)
        BY <1>1, <3>1, <3>2, <3>3 DEF ReturnInv, Serves
      <3> QED BY <1>1, <2>1, <3>4, <3>5 DEF ReturnInv, Away
    <2> QED BY <2>3, <2>4
  <1>8. ASSUME NEW k \in Peer, Serve(k) PROVE ReturnInv'
    <2>1. /\ serves[k] > 0
          /\ serves' \in [Peer -> Nat] /\ serves'[k] = serves[k] - 1
          /\ \A j \in Peer : j # k => serves'[j] = serves[j]
          /\ Serves(k)
          /\ UNCHANGED <<stream, lost, phase, crashes>>
      BY <1>8, ServeIs
    <2>2. k \notin lost /\ serves'[k] = 0 /\ phase = "Asking"
      BY <1>1, <2>1 DEF ReturnInv
    <2>3. \A j \in Peer : j # k => Served(j)' = Served(j)
      BY <2>1 DEF Served, Away
    <2>4. Served(k)'
      BY <2>1, <2>2 DEF Served, Away
    <2>5. \A j \in Peer : serves'[j] > 0 => j \notin lost' /\ serves'[j] = 1
      BY <1>1, <2>1, <2>2 DEF ReturnInv
    <2>6. \A j \in Peer : (~Served(j)' => report'[j] = NoReport) /\ (Served(j)' => report'[j] \in Report)
      BY <1>1, <2>1, <2>3, <2>4 DEF ReturnInv, Serves
    <2> QED BY <1>1, <2>1, <2>2, <2>5, <2>6 DEF ReturnInv, Away
  <1>9. ASSUME Settle PROVE ReturnInv'
    <2>1. \A k \in Peer : report[k] # NoReport
      BY <1>9 DEF Settle
    <2>2. OldStreamEnd \in Nat
      <3>1. \A k \in Peer : report[k] \in Report
        BY <2>1 DEF Types
      <3> QED BY <3>1, OldStreamEndIs
    <2>3. /\ phase = "Asking" /\ phase' = "CatchingUp"
          /\ UNCHANGED <<stream, lost, serves, report, crashes>>
      BY <1>9, <2>2, SettleIs
    <2>4. \A k \in Peer : Served(k)
      BY <1>1, <2>1 DEF ReturnInv
    <2>5. lost = {} /\ \A k \in Peer : serves[k] = 0
      BY <2>4 DEF Served, Types
    <2>6. \A k \in Peer : Served(k)'
      BY <2>3, <2>5 DEF Served, Away
    <2> QED BY <1>1, <2>3, <2>4, <2>5, <2>6 DEF ReturnInv, Away
  <1>10. ASSUME FinishCatchUp PROVE ReturnInv'
    <2>1. /\ phase = "CatchingUp" /\ phase' = "Up"
          /\ report' = [k \in Peer |-> NoReport]
          /\ UNCHANGED <<lost, serves, crashes>>
      BY <1>10 DEF FinishCatchUp, peerVars, envVars
    <2>2. \A k \in Peer : ~Served(k)'
      BY <2>1 DEF Served, Away
    <2> QED BY <1>1, <2>1, <2>2 DEF ReturnInv, Away
  <1>11. ASSUME Crash PROVE ReturnInv'
    <2>1. /\ crashes > 0 => phase # "Up" /\ \A k \in Peer : serves[k] = 0
          /\ crashes' = crashes + 1 /\ phase' = "Asking" /\ lost' = Peer
          /\ report' = [k \in Peer |-> NoReport]
          /\ \A x \in Client : stream'[Restarter][x] = <<>>
          /\ UNCHANGED serves
      BY <1>11, CrashIs
    <2>2. \A k \in Peer : serves[k] = 0
      <3>1. CASE crashes > 0
        BY <2>1, <3>1
      <3>2. CASE ~(crashes > 0)
        BY <1>1, <3>2 DEF ReturnInv, Away
      <3> QED BY <3>1, <3>2
    <2>3. \A k \in Peer : ~Served(k)'
      BY <2>1 DEF Served
    <2>4. crashes' > 0
      BY <2>1 DEF Types
    <2> QED BY <2>1, <2>2, <2>3, <2>4 DEF ReturnInv
  <1> QED BY <1>3, <1>4, <1>5, <1>6, <1>7, <1>8, <1>9, <1>10, <1>11, StepKinds

(* A reader or writer's own stream, and those of others.                     *)
LEMMA OwnKept ==
    ASSUME StreamInv, PeersKept
    PROVE  OwnInv' /\ FlowInv'
  <1>1. \A x \in Client : Playing(x)' => x \in Peer /\ Playing(x)
    BY PeersAre DEF PeersKept, Playing
  <1>2. ASSUME NEW x \in Peer
        PROVE  /\ stream'[x][x] = stream[x][x] /\ open'[x][x] = open[x][x]
               /\ Queued(x, x)' = Queued(x, x)
               /\ \A q : Said(x, q)' = Said(x, q)
    BY PeersAre DEF PeersKept, Queued, Said, RunOf
  <1>3. OwnInv'
    BY <1>1, <1>2 DEF StreamInv, OwnInv
  <1>4. ASSUME NEW x \in Peer, NEW i \in Peer
        PROVE  At(i, x)' = At(i, x) /\ link'[x][i] = link[x][i] /\ At(x, x)' = At(x, x)
    BY DEF PeersKept, At
  <1>5. FlowInv'
    BY <1>1, <1>4, PeersAre DEF StreamInv, FlowInv
  <1> QED BY <1>3, <1>5

(* A beat ends with the run it began with.                                   *)
LEMMA WholeAppend ==
    ASSUME NEW T \in Beats, NEW part \in Orders, NEW item \in Item, Whole(T),
           item.beat = Len(T) + 1, \A m \in 1 .. Len(part) : part[m] = item
    PROVE  Whole(Append(T, Append(part, item)))
  <1> DEFINE beat == Append(part, item)
             more == Append(T, beat)
  <1>1. /\ beat \in Orders /\ Len(beat) = Len(part) + 1 /\ Len(part) \in Nat
        /\ \A m \in 1 .. Len(beat) : beat[m] = item
    BY DEF Orders
  <1>2. beat[Len(beat)] = item
    BY <1>1
  <1> HIDE DEF beat
  <1>3. /\ Len(T) \in Nat /\ Len(more) = Len(T) + 1
        /\ \A b \in 1 .. Len(T) : more[b] = T[b]
        /\ more[Len(T) + 1] = beat
    BY <1>1 DEF Beats
  <1> HIDE DEF more
  <1>4. ASSUME NEW b \in 1 .. Len(more), NEW m \in 1 .. Len(more[b])
        PROVE  more[b][m].beat = b /\ more[b][m].run = more[b][Len(more[b])].run
    <2>1. CASE b \in 1 .. Len(T)
      <3>1. more[b] = T[b]
        BY <1>3, <2>1
      <3> QED BY <2>1, <3>1 DEF Whole
    <2>2. CASE b = Len(T) + 1
      BY <1>1, <1>2, <1>3, <2>2
    <2> QED BY <1>3, <2>1, <2>2
  <1> QED BY <1>4 DEF Whole, more, beat

(* A beginning of whole beats is whole beats.                                *)
LEMMA WholeAgrees ==
    ASSUME NEW S \in Beats, NEW T \in Beats, Agrees(S, T), Whole(T)
    PROVE  Whole(S)
  <1>1. Len(S) \in Nat /\ Len(T) \in Nat /\ Len(S) <= Len(T)
    BY DEF Beats, Agrees
  <1>2. ASSUME NEW b \in 1 .. Len(S) PROVE b \in 1 .. Len(T) /\ S[b] = T[b]
    BY <1>1 DEF Agrees
  <1> QED BY <1>2 DEF Whole

(* A player says what belongs to the beat after its last.                    *)
LEMMA OwnSays ==
    ASSUME Types, StreamInv, NEW i \in Client, Says(i)
    PROVE  OwnInv'
  <1>1. PICK msg \in StreamMsg : Say(i, msg)
    BY DEF Says
  <1>2. /\ Playing(i) /\ Control /\ Only(i, i)
        /\ msg.item = Said(i, Queued(i, i) + 1)
        /\ Adds(At(i, i), msg, At(i, i)')
    BY <1>1 DEF Says, Say
  <1>3. ASSUME NEW x \in Client, x # i
        PROVE  /\ stream'[x][x] = stream[x][x] /\ open'[x][x] = open[x][x]
               /\ Queued(x, x)' = Queued(x, x) /\ Playing(x)' = Playing(x)
               /\ \A q : Said(x, q)' = Said(x, q)
    BY <1>2, <1>3 DEF Only, Queued, Control, Playing, Said, RunOf
  <1>4. /\ Whole(stream[i][i])
        /\ \A m \in 1 .. Len(open[i][i]) : open[i][i][m] = msg.item
    BY <1>2 DEF StreamInv, OwnInv
  <1>5. /\ stream[i][i] \in Beats /\ open[i][i] \in Orders /\ msg.item \in Item
        /\ msg.item.beat = Len(stream[i][i]) + 1
    BY <1>2 DEF Types, StreamMsg, Said, Queued
  <1>6. /\ At(i, i).beats = stream[i][i] /\ At(i, i).part = open[i][i]
        /\ At(i, i)'.beats = stream'[i][i] /\ At(i, i)'.part = open'[i][i]
    BY DEF At
  <1>7. CASE stream'[i][i] = stream[i][i] /\ open'[i][i] = Append(open[i][i], msg.item)
    <2>1. Said(i, Queued(i, i) + 1)' = msg.item
      BY <1>2, <1>7 DEF Said, RunOf, Control, Queued
    <2>2. \A m \in 1 .. Len(open'[i][i]) : open'[i][i][m] = msg.item
      <3> DEFINE part == open[i][i]
                 item == msg.item
      <3>1. part \in Seq(Item) /\ item \in Item /\ \A m \in 1 .. Len(part) : part[m] = item
        BY <1>4, <1>5 DEF Orders
      <3> HIDE DEF part, item
      <3>2. \A m \in 1 .. Len(Append(part, item)) : Append(part, item)[m] = item
        BY <3>1
      <3> QED BY <1>7, <3>2 DEF part, item
    <2>3. ASSUME NEW x \in Client, Playing(x)'
          PROVE  /\ Whole(stream'[x][x])
                 /\ \A m \in 1 .. Len(open'[x][x]) : open'[x][x][m] = Said(x, Queued(x, x) + 1)'
      <3>1. CASE x = i
        BY <1>4, <1>7, <2>1, <2>2, <3>1
      <3>2. CASE x # i
        BY <1>3, <2>3, <3>2 DEF StreamInv, OwnInv
      <3> QED BY <3>1, <3>2
    <2> QED BY <2>3 DEF OwnInv
  <1>8. CASE stream'[i][i] = Append(stream[i][i], Append(open[i][i], msg.item)) /\ open'[i][i] = <<>>
    <2>1. Whole(stream'[i][i])
      BY <1>4, <1>5, <1>8, WholeAppend
    <2>2. ASSUME NEW x \in Client, Playing(x)'
          PROVE  /\ Whole(stream'[x][x])
                 /\ \A m \in 1 .. Len(open'[x][x]) : open'[x][x][m] = Said(x, Queued(x, x) + 1)'
      <3>1. CASE x = i
        <4>1. 1 .. Len(open'[i][i]) = {}
          BY <1>8
        <4> QED BY <2>1, <3>1, <4>1
      <3>2. CASE x # i
        BY <1>3, <2>2, <3>2 DEF StreamInv, OwnInv
      <3> QED BY <3>1, <3>2
    <2> QED BY <2>2 DEF OwnInv
  <1> QED BY <1>2, <1>6, <1>7, <1>8 DEF Adds

(* What others say changes nothing of its own stream,                        *)
LEMMA OwnHears ==
    ASSUME Types, StreamInv, NEW i \in Client, NEW k \in Client, Hears(i, k)
    PROVE  OwnInv'
  <1>1. i # k /\ Only(i, k) /\ Control
    BY DEF Hears
  <1>2. ASSUME NEW x \in Client
        PROVE  /\ stream'[x][x] = stream[x][x] /\ open'[x][x] = open[x][x]
               /\ Queued(x, x)' = Queued(x, x) /\ Playing(x)' = Playing(x)
               /\ \A q : Said(x, q)' = Said(x, q)
    BY <1>1 DEF Only, Queued, Control, Playing, Said, RunOf
  <1> QED BY <1>2 DEF StreamInv, OwnInv

(* and a quiet step nothing of any.                                          *)
LEMMA OwnQuiet ==
    ASSUME StreamInv, Quiet
    PROVE  OwnInv' /\ FlowInv'
  <1>1. ASSUME NEW x \in Client
        PROVE  /\ Queued(x, x)' = Queued(x, x) /\ Playing(x)' = Playing(x)
               /\ \A q : Said(x, q)' = Said(x, q)
    BY DEF Quiet, Queued, Control, Playing, Said, RunOf
  <1>2. OwnInv'
    BY <1>1 DEF StreamInv, OwnInv, Quiet
  <1>3. \A i, x \in Client : At(i, x)' = At(i, x) /\ link'[i][x] = link[i][x]
    BY DEF Quiet, At
  <1> QED BY <1>1, <1>2, <1>3 DEF StreamInv, FlowInv

(* A message of a stream said to those it goes out to.                       *)
LEMMA SaysOn ==
    ASSUME Types, NEW i \in Client, NEW msg \in StreamMsg, Say(i, msg), NEW p, NEW k \in Client,
           Reaches(i, k), ~Pending(i, k), Leads(p, link[i][k], At(i, i))
    PROVE  Leads(p, link'[i][k], At(i, i)')
  <1>1. /\ msg.item = Said(i, Queued(i, i) + 1)
        /\ Adds(At(i, i), msg, At(i, i)')
        /\ Only(i, i)
        /\ link' = Broadcast(link, i, msg)
    BY DEF Say
  <1>2. At(i, i)' \in Place
    BY <1>1 DEF Only, At, Place
  <1>3. msg.item.beat = Len(At(i, i).beats) + 1
    BY <1>1 DEF Said, Queued, At
  <1>4. Takes(At(i, i), msg, At(i, i)')
    BY <1>1, <1>3 DEF Takes, Adds
  <1>5. msg \in Msg
    BY DEF Msg
  <1>6. link'[i][k] = Append(link[i][k], msg)
    BY <1>1, <1>5, BroadcastIs
  <1> QED BY <1>2, <1>4, <1>6, LeadsAppend

(* What is said follows what is on its way.                                  *)
LEMMA FlowSays ==
    ASSUME Types, StreamInv, NEW i \in Client, Says(i)
    PROVE  FlowInv'
  <1>1. PICK msg \in StreamMsg : Say(i, msg)
    BY DEF Says
  <1>2. /\ Playing(i) /\ Control /\ Only(i, i) /\ msg \in Msg
        /\ link' = Broadcast(link, i, msg)
    BY <1>1 DEF Says, Say, Msg
  <1>3. SUFFICES ASSUME NEW x \in Client, NEW j \in Client, x # j, Playing(x)', Playing(j)'
                 PROVE  Leads(At(j, x)', link'[x][j], At(x, x)')
    BY DEF FlowInv
  <1>4. Playing(x) /\ Playing(j)
    BY <1>2, <1>3, ControlKeeps
  <1>5. Leads(At(j, x), link[x][j], At(x, x))
    BY <1>3, <1>4 DEF StreamInv, FlowInv
  <1>6. At(j, x)' = At(j, x)
    BY <1>2, <1>3 DEF Only, At
  <1>7. CASE x = i
    <2>1. Reaches(i, j) /\ ~Pending(i, j)
      <3>1. CASE j = Restarter
        <4>1. lost = {} /\ (i \in Peer => ~(serves[i] > 0)) /\ i \in Peer
          BY <1>3, <1>4, <1>7, <3>1, PeersAre DEF StreamInv, ReturnInv, Playing
        <4> QED BY <1>3, <1>7, <4>1 DEF Reaches, Pending
      <3>2. CASE j # Restarter
        BY <1>3, <1>7, <3>2 DEF Reaches, Pending
      <3> QED BY <3>1, <3>2
    <2>2. Leads(At(j, x), link[i][j], At(i, i))
      BY <1>5, <1>7
    <2>3. Leads(At(j, x), link'[i][j], At(i, i)')
      BY <1>1, <2>1, <2>2, SaysOn
    <2> QED BY <1>6, <1>7, <2>3
  <1>8. CASE x # i
    <2>1. At(x, x)' = At(x, x)
      BY <1>2, <1>8 DEF Only, At
    <2>2. link'[x][j] = link[x][j]
      BY <1>2, <1>8, BroadcastIs
    <2> QED BY <1>5, <1>6, <2>1, <2>2
  <1> QED BY <1>7, <1>8

(* The messages of a stream are read in turn.                                *)
LEMMA HearsOn ==
    ASSUME Types, NEW i \in Client, NEW k \in Client, Hears(i, k),
           NEW q, Leads(At(i, k), link[k][i], q)
    PROVE  Leads(At(i, k)', link'[k][i], q) /\ Head(link[k][i]).item.beat = Queued(i, k) + 1
  <1>1. /\ link[k][i] # <<>> /\ Only(i, k) /\ link' = Rest(i, k)
        /\ Adds(At(i, k), Head(link[k][i]), At(i, k)')
    BY DEF Hears
  <1>2. At(i, k)' \in Place
    BY <1>1 DEF Only, At, Place
  <1>3. link'[k][i] = Tail(link[k][i])
    BY <1>1, RestIs
  <1>4. /\ Leads(At(i, k)', Tail(link[k][i]), q)
        /\ Head(link[k][i]).item.beat = Len(At(i, k).beats) + 1
    BY <1>1, <1>2, LeadsRead
  <1> QED BY <1>3, <1>4 DEF At, Queued

(* What is read is what was to come.                                         *)
LEMMA FlowHears ==
    ASSUME Types, StreamInv, NEW i \in Client, NEW k \in Client, Hears(i, k)
    PROVE  FlowInv'
  <1>1. i # k /\ Playing(i) /\ Control /\ Only(i, k) /\ link[k][i] # <<>> /\ link' = Rest(i, k)
    BY DEF Hears
  <1>2. SUFFICES ASSUME NEW x \in Client, NEW j \in Client, x # j, Playing(x)', Playing(j)'
                 PROVE  Leads(At(j, x)', link'[x][j], At(x, x)')
    BY DEF FlowInv
  <1>3. Playing(x) /\ Playing(j)
    BY <1>1, <1>2, ControlKeeps
  <1>4. Leads(At(j, x), link[x][j], At(x, x))
    BY <1>2, <1>3 DEF StreamInv, FlowInv
  <1>5. At(x, x)' = At(x, x)
    BY <1>1 DEF Only, At
  <1>6. CASE x = k /\ j = i
    <2>1. Leads(At(i, k), link[k][i], At(k, k))
      BY <1>4, <1>6
    <2>2. Leads(At(i, k)', link'[k][i], At(k, k))
      BY <2>1, HearsOn
    <2> QED BY <1>5, <1>6, <2>2
  <1>7. CASE x # k \/ j # i
    <2>1. At(j, x)' = At(j, x)
      BY <1>1, <1>7 DEF Only, At
    <2>2. link'[x][j] = link[x][j]
      BY <1>1, <1>7, RestIs
    <2> QED BY <1>4, <1>5, <2>1, <2>2
  <1> QED BY <1>6, <1>7

-----------------------------------------------------------------------------
(* The old stream.                                                           *)

(* What a peer holds of the old run is a beginning of it.                    *)
LEMMA OldWayAgrees ==
    ASSUME Types, NEW T \in Beats, NEW k \in Peer, OldWay(k, T)
    PROVE  Agrees(stream[k][Restarter], T)
  <1>1. ASSUME NEW q, Leads(At(k, Restarter), link[Restarter][k], q), Agrees(q.beats, T)
        PROVE  Agrees(stream[k][Restarter], T)
    <2>1. Agrees(At(k, Restarter).beats, q.beats)
      BY <1>1, LeadsAgree
    <2>2. stream[k][Restarter] \in Beats /\ At(k, Restarter).beats = stream[k][Restarter]
      BY PeersAre DEF Types, At
    <2>3. q.beats \in Beats
      BY <1>1, LeadsEnds DEF Place
    <2> QED BY <1>1, <2>1, <2>2, <2>3, AgreesOn
  <1> QED BY <1>1 DEF OldWay

(* Nothing of it left to come.                                               *)
LEMMA OldWayEmpty ==
    ASSUME NEW T, NEW k,
           (At(k, Restarter) \in Place)', (link[Restarter][k])' = <<>>,
           Agrees(stream'[k][Restarter], T)
    PROVE  OldWay(k, T)'
  <1>1. Leads(At(k, Restarter)', <<>>, At(k, Restarter)')
    BY LeadsEmpty
  <1>2. Agrees((At(k, Restarter)').beats, T)
    BY DEF At
  <1>3. Leads(At(k, Restarter)', link'[Restarter][k], At(k, Restarter)')
    BY <1>1
  <1>4. \E q : Leads(At(k, Restarter)', link'[Restarter][k], q) /\ Agrees(q.beats, T)
    BY <1>2, <1>3
  <1> QED BY <1>4 DEF OldWay

(* It stays so while nothing is read.                                        *)
LEMMA OldWayKept ==
    ASSUME NEW T, NEW k, OldWay(k, T),
           stream'[k][Restarter] = stream[k][Restarter], open'[k][Restarter] = open[k][Restarter],
           link'[Restarter][k] = link[Restarter][k]
    PROVE  OldWay(k, T)'
  BY DEF OldWay, At

(* T is unchanged while the restarter is away.                               *)
LEMMA OldStep ==
    ASSUME Types, Types', StreamInv, [Next]_vars
    PROVE  OldInv'
  <1> USE PeersAre
  <1>1. ASSUME Away, \A T \in Beats : \A k \in Peer : OldWay(k, T) => OldWay(k, T)'
        PROVE  OldInv'
    BY <1>1 DEF StreamInv, OldInv
  <1>2. ASSUME ~Away' PROVE OldInv'
    BY <1>2 DEF OldInv
  <1>3. ASSUME NEW k \in Peer PROVE (At(k, Restarter) \in Place)'
    BY DEF Types, At, Place
  <1>4. ASSUME NEW i \in Client, Says(i) PROVE OldInv'
    <2>1. PICK msg \in StreamMsg : Say(i, msg)
      BY <1>4 DEF Says
    <2>2. Playing(i) /\ Control /\ Only(i, i) /\ msg \in Msg /\ link' = Broadcast(link, i, msg)
      BY <1>4, <2>1 DEF Says, Say, Msg
    <2>3. SUFFICES ASSUME Away PROVE OldInv'
      BY <1>2, <2>2, ControlKeeps
    <2>4. i # Restarter
      BY <2>2, <2>3 DEF Playing, Away
    <2>5. ASSUME NEW k \in Peer
          PROVE  /\ stream'[k][Restarter] = stream[k][Restarter]
                 /\ open'[k][Restarter] = open[k][Restarter]
                 /\ link'[Restarter][k] = link[Restarter][k]
      BY <2>2, <2>4, BroadcastIs DEF Only
    <2> QED BY <1>1, <2>3, <2>5, OldWayKept
  <1>5. ASSUME NEW i \in Client, NEW j \in Client, Hears(i, j) PROVE OldInv'
    <2>1. i # j /\ Playing(i) /\ Control /\ Only(i, j) /\ link[j][i] # <<>> /\ link' = Rest(i, j)
          /\ Head(link[j][i]) \in StreamMsg
      BY <1>5 DEF Hears
    <2>2. SUFFICES ASSUME Away PROVE OldInv'
      BY <1>2, <2>1, ControlKeeps
    <2>3. ASSUME NEW T \in Beats, NEW k \in Peer, OldWay(k, T) PROVE OldWay(k, T)'
      <3>1. CASE k = i /\ j = Restarter
        <4>1. ~\E c \in Nat : link[Restarter][k] = <<CutMsg(c)>>
          <5>1. SUFFICES ASSUME NEW c \in Nat, link[j][i] = <<CutMsg(c)>> PROVE FALSE
            BY <3>1
          <5>2. Head(link[j][i]) = CutMsg(c)
            BY <5>1
          <5> QED BY <2>1, <5>2, CutMsgIs DEF StreamMsg
        <4>2. PICK q : Leads(At(k, Restarter), link[Restarter][k], q) /\ Agrees(q.beats, T)
          BY <2>3, <4>1 DEF OldWay
        <4>3. Leads(At(i, j)', link'[j][i], q)
          BY <1>5, <3>1, <4>2, HearsOn
        <4>4. Leads(At(k, Restarter)', link'[Restarter][k], q)
          BY <3>1, <4>3
        <4> QED BY <4>2, <4>4 DEF OldWay
      <3>2. CASE k # i \/ j # Restarter
        <4>1. /\ stream'[k][Restarter] = stream[k][Restarter]
              /\ open'[k][Restarter] = open[k][Restarter]
              /\ link'[Restarter][k] = link[Restarter][k]
          BY <2>1, <3>2, RestIs DEF Only
        <4> QED BY <2>3, <4>1, OldWayKept
      <3> QED BY <3>1, <3>2
    <2> QED BY <1>1, <2>2, <2>3
  <1>6. ASSUME Quiet PROVE OldInv'
    <2>1. UNCHANGED <<stream, open, link>> /\ Away' = Away
      BY <1>6, ControlKeeps DEF Quiet
    <2>2. \A T \in Beats : \A k \in Peer : OldWay(k, T) => OldWay(k, T)'
      BY <2>1, OldWayKept
    <2> QED BY <1>1, <1>2, <2>1, <2>2
  <1>7. ASSUME NEW i \in Peer, TakeSeat(i) PROVE OldInv'
    <2>1. /\ phase = "Asking" /\ stream' = stream
          /\ link'[Restarter][i] = <<>>
          /\ \A j \in Peer : j # i => link'[Restarter][j] = link[Restarter][j]
      BY <1>7, TakeSeatIs
    <2>2. \A j \in Peer : j # i => open'[j][Restarter] = open[j][Restarter]
      <3>1. open' = open \/ Serves(i)
        BY <1>7, TakeSeatIs
      <3> QED BY <3>1 DEF Serves
    <2>3. ASSUME NEW T \in Beats, NEW k \in Peer, OldWay(k, T) PROVE OldWay(k, T)'
      <3>1. CASE k = i
        <4>1. Agrees(stream'[k][Restarter], T)
          BY <2>1, <2>3, OldWayAgrees
        <4> QED BY <1>3, <2>1, <3>1, <4>1, OldWayEmpty
      <3>2. CASE k # i
        BY <2>1, <2>2, <2>3, <3>2, OldWayKept
      <3> QED BY <3>1, <3>2
    <2> QED BY <1>1, <2>1, <2>3 DEF Away
  <1>8. ASSUME NEW i \in Peer, Serve(i) PROVE OldInv'
    <2>1. serves[i] > 0 /\ stream' = stream /\ link' = link /\ Serves(i)
      BY <1>8, ServeIs
    <2>2. phase = "Asking" /\ link[Restarter][i] = <<>>
      BY <2>1 DEF StreamInv, ReturnInv, SeatInv
    <2>3. ASSUME NEW T \in Beats, NEW k \in Peer, OldWay(k, T) PROVE OldWay(k, T)'
      <3>1. CASE k = i
        <4>1. Agrees(stream'[k][Restarter], T)
          BY <2>1, <2>3, OldWayAgrees
        <4> QED BY <1>3, <2>1, <2>2, <3>1, <4>1, OldWayEmpty
      <3>2. CASE k # i
        BY <2>1, <2>3, <3>2, OldWayKept DEF Serves
      <3> QED BY <3>1, <3>2
    <2> QED BY <1>1, <2>2, <2>3 DEF Away
  <1>9. ASSUME NEW i \in Peer, ReceiveCut(i) PROVE OldInv'
    <2>1. Away /\ Tail(link[Restarter][i]) = <<>> /\ Head(link[Restarter][i]).cut \in Nat
      BY <1>9, CutIsTheRest
    <2>2. link[Restarter][i] # <<>> /\ link' = Rest(i, Restarter)
      BY <1>9, ReceiveCutIs
    <2>3. link'[Restarter][i] = <<>> /\ \A k \in Peer : k # i => link'[Restarter][k] = link[Restarter][k]
      <3>1. i \in Client /\ Restarter \in Client
        OBVIOUS
      <3>2. link'[Restarter][i] = Tail(link[Restarter][i])
        BY <2>2, <3>1, RestIs
      <3>3. \A k \in Client : k # i => link'[Restarter][k] = link[Restarter][k]
        BY <2>2, <3>1, RestIs
      <3> QED BY <2>1, <3>2, <3>3
    <2>4. ASSUME NEW T \in Beats, NEW k \in Peer, OldWay(k, T) PROVE OldWay(k, T)'
      <3>1. CASE k = i
        <4>1. Agrees(stream[k][Restarter], T)
          BY <2>4, OldWayAgrees
        <4>2. Agrees(stream'[k][Restarter], T)
          <5>1. CASE GoesBack(i)
            <6> DEFINE S == stream[k][Restarter]
                       end == Head(link[Restarter][i]).cut
            <6>1. stream'[k][Restarter] = SubSeq(S, 1, end) /\ end <= Len(S) /\ end \in Nat
              BY <1>9, <2>1, <3>1, <5>1, ReceiveCutIs DEF GoesBack, Queued
            <6>2. S \in Beats
              BY DEF Types
            <6> HIDE DEF S, end
            <6>3. Len(SubSeq(S, 1, end)) = end /\ \A b \in 1 .. end : SubSeq(S, 1, end)[b] = S[b]
              BY <6>1, <6>2 DEF Beats
            <6>4. Len(S) \in Nat /\ Len(T) \in Nat /\ Agrees(S, T)
              BY <4>1, <6>2 DEF S, Beats
            <6> QED BY <6>1, <6>3, <6>4 DEF Agrees
          <5>2. CASE ~GoesBack(i)
            BY <1>9, <4>1, <5>2, ReceiveCutIs
          <5> QED BY <5>1, <5>2
        <4> QED BY <1>3, <2>3, <3>1, <4>2, OldWayEmpty
      <3>2. CASE k # i
        <4>1. Only(i, Restarter) \/ UNCHANGED <<stream, open, ack>>
          BY <1>9, ReceiveCutIs
        <4> QED BY <2>3, <2>4, <3>2, <4>1, OldWayKept DEF Only
      <3> QED BY <3>1, <3>2
    <2> QED BY <1>1, <2>1, <2>4
  <1>10. ASSUME Settle PROVE OldInv'
    <2>1. \A k \in Peer : report[k] # NoReport
      BY <1>10 DEF Settle
    <2>2. OldStreamEnd \in Nat
      <3>1. \A k \in Peer : report[k] \in Report
        BY <2>1 DEF Types
      <3> QED BY <3>1, OldStreamEndIs
    <2>3. /\ phase = "Asking" /\ stream' = stream /\ open' = open
          /\ \A k \in Peer : link'[Restarter][k] = Append(link[Restarter][k], CutMsg(OldStreamEnd))
      BY <1>10, <2>2, SettleIs
    <2>4. ASSUME NEW T \in Beats, NEW k \in Peer, OldWay(k, T) PROVE OldWay(k, T)'
      <3>1. Served(k)
        BY <2>1 DEF StreamInv, ReturnInv
      <3>2. link[Restarter][k] = <<>> /\ open[k][Restarter] = <<>>
        BY <2>3, <3>1 DEF StreamInv, SeatInv, BacklogInv, ReportInv, Served
      <3>3. link'[Restarter][k] = <<CutMsg(OldStreamEnd)>>
        BY <2>3, <3>2
      <3>4. Agrees(stream'[k][Restarter], T)
        BY <2>3, <2>4, OldWayAgrees
      <3> QED BY <2>2, <2>3, <3>2, <3>3, <3>4 DEF OldWay
    <2> QED BY <1>1, <2>3, <2>4 DEF Away
  <1>11. ASSUME FinishCatchUp PROVE OldInv'
    BY <1>2, <1>11 DEF FinishCatchUp, Away
  <1>12. ASSUME Crash PROVE OldInv'
    <2>1. ASSUME NEW k \in Peer
          PROVE  /\ stream'[k][Restarter] = stream[k][Restarter]
                 /\ open'[k][Restarter] = open[k][Restarter]
                 /\ link'[Restarter][k] = link[Restarter][k]
      BY <1>12, CrashIs
    <2>2. CASE Away
      BY <1>1, <2>1, <2>2, OldWayKept
    <2>3. CASE ~Away
      <3>1. stream[Restarter][Restarter] \in Beats /\ Whole(stream[Restarter][Restarter])
        BY <2>3 DEF Types, StreamInv, OwnInv, Playing, Away
      <3>2. PICK T \in Beats : T = stream[Restarter][Restarter]
        BY <3>1
      <3>3. PICK q : q = At(Restarter, Restarter)
        OBVIOUS
      <3>4. ASSUME NEW k \in Peer PROVE OldWay(k, T)'
        <4>1. Leads(At(k, Restarter), link[Restarter][k], q)
          BY <2>3, <3>3 DEF StreamInv, FlowInv, Playing, Away
        <4>2. Agrees(q.beats, T)
          BY <3>2, <3>3, AgreesWithItself DEF At
        <4>3. Leads(At(k, Restarter)', link'[Restarter][k], q)
          BY <2>1, <4>1 DEF At
        <4>4. \E r : Leads(At(k, Restarter)', link'[Restarter][k], r) /\ Agrees(r.beats, T)
          BY <4>2, <4>3
        <4> QED BY <4>4 DEF OldWay
      <3> QED BY <3>1, <3>2, <3>4 DEF OldInv
    <2> QED BY <2>2, <2>3
  <1> QED BY <1>4, <1>5, <1>6, <1>7, <1>8, <1>9, <1>10, <1>11, <1>12, StepKinds

(* The reports.                                                              *)

(* A report stays true while its stream only grows.                          *)
LEMMA ReportKept ==
    ASSUME Types, Types', NEW k \in Peer, ReportInv(k), report[k] \in Report,
           report'[k] = report[k],
           Leads(Held(k), link'[k][Restarter], At(k, k)'),
           \A x \in Peer : Agrees(stream[x][x], stream'[x][x]),
           Agrees(stream'[k][Restarter], stream[k][Restarter]),
           open'[k][Restarter] = <<>>,
           phase' = "Asking" => phase = "Asking" /\ stream'[k][Restarter] = stream[k][Restarter]
    PROVE  ReportInv(k)'
  <1> USE PeersAre
  <1>1. /\ \A x \in Client : report[k].queued[x] = Len(report[k].beats[x])
        /\ \A x \in Peer : Agrees(report[k].beats[x], stream[x][x])
        /\ Agrees(stream[k][Restarter], report[k].beats[Restarter])
        /\ phase = "Asking" => stream[k][Restarter] = report[k].beats[Restarter]
    BY DEF ReportInv
  <1>2. \A x \in Client : report[k].beats[x] \in Beats
    BY DEF Report
  <1>3. \A i, x \in Client : stream[i][x] \in Beats /\ stream'[i][x] \in Beats
    BY DEF Types
  <1>4. \A x \in Peer : Agrees(report[k].beats[x], stream'[x][x])
    <2> TAKE x \in Peer
    <2>1. /\ report[k].beats[x] \in Beats /\ stream[x][x] \in Beats /\ stream'[x][x] \in Beats
          /\ Agrees(report[k].beats[x], stream[x][x]) /\ Agrees(stream[x][x], stream'[x][x])
      BY <1>1, <1>2, <1>3
    <2> QED BY <2>1, AgreesOn
  <1>5. Agrees(stream'[k][Restarter], report[k].beats[Restarter])
    BY <1>1, <1>2, <1>3, AgreesOn
  <1>6. Leads(Held(k)', link'[k][Restarter], At(k, k)')
    BY DEF Held
  <1> QED BY <1>1, <1>4, <1>5, <1>6 DEF ReportInv

(* Nothing about k changes, nor does any player's own stream.                *)
LEMMA ReportSame ==
    ASSUME Types, Types', StreamInv, NEW k \in Peer, Served(k),
           report'[k] = report[k],
           link'[k][Restarter] = link[k][Restarter],
           \A x \in Peer : stream'[x][x] = stream[x][x] /\ open'[x][x] = open[x][x],
           stream'[k][Restarter] = stream[k][Restarter],
           open'[k][Restarter] = open[k][Restarter],
           phase' = "Asking" => phase = "Asking"
    PROVE  ReportInv(k)'
  <1> USE PeersAre
  <1>1. ReportInv(k) /\ report[k] \in Report
    BY DEF StreamInv, ReturnInv, BacklogInv
  <1>2. \A x \in Peer : Agrees(stream[x][x], stream'[x][x])
    <2>1. \A x \in Peer : stream[x][x] \in Beats
      BY DEF Types
    <2> QED BY <2>1, AgreesWithItself
  <1>3. Agrees(stream'[k][Restarter], stream[k][Restarter])
    <2>1. stream[k][Restarter] \in Beats
      BY DEF Types
    <2> QED BY <2>1, AgreesWithItself
  <1>4. Leads(Held(k), link'[k][Restarter], At(k, k)') /\ open'[k][Restarter] = <<>>
    BY <1>1 DEF ReportInv, At
  <1> QED BY <1>1, <1>2, <1>3, <1>4, ReportKept

(* A report is made of what a client holds.                                  *)
LEMMA ReportMade ==
    ASSUME Types, StreamInv, NEW k \in Peer, Away, Serves(k), stream' = stream,
           (link[k][Restarter])' = <<>>
    PROVE  ReportInv(k)'
  <1> USE PeersAre
  <1>1. /\ report'[k] = Backlog(k)
        /\ open'[k][Restarter] = <<>> /\ open'[k][k] = open[k][k]
    BY DEF Serves
  <1>2. /\ report'[k].beats = stream[k] /\ report'[k].orders = open[k][k]
        /\ \A x \in Client : report'[k].queued[x] = Len(stream[k][x])
    BY <1>1 DEF Backlog, Queued
  <1>3. \A x \in Client : stream[k][x] \in Beats
    BY DEF Types
  <1>4. Leads(Held(k)', link'[k][Restarter], At(k, k)')
    <2>1. Held(k)' = At(k, k) /\ At(k, k)' = At(k, k)
      BY <1>1, <1>2 DEF Held, At
    <2>2. Leads(At(k, k), <<>>, At(k, k))
      BY AtType, LeadsEmpty
    <2> QED BY <2>1, <2>2
  <1>5. \A x \in Peer : Agrees(stream[k][x], stream[x][x])
    <2> TAKE x \in Peer
    <2>1. CASE x = k
      BY <1>3, <2>1, AgreesWithItself
    <2>2. CASE x # k
      <3>1. Leads(At(k, x), link[x][k], At(x, x))
        BY <2>2 DEF StreamInv, FlowInv, Playing
      <3>2. Agrees(At(k, x).beats, At(x, x).beats)
        BY <3>1, LeadsAgree
      <3> QED BY <3>2 DEF At
    <2> QED BY <2>1, <2>2
  <1>6. Agrees(stream[k][Restarter], stream[k][Restarter])
    BY <1>3, AgreesWithItself
  <1> QED BY <1>1, <1>2, <1>4, <1>5, <1>6 DEF ReportInv

(* Every report stays true, and a new one is.                                *)
LEMMA BacklogStep ==
    ASSUME Types, Types', StreamInv, [Next]_vars
    PROVE  BacklogInv'
  <1> USE PeersAre
  <1>1. BacklogInv /\ ReturnInv /\ SeatInv
    BY DEF StreamInv
  <1>2. \A i, x \in Client : stream[i][x] \in Beats /\ open[i][x] \in Orders
    BY DEF Types
  <1>3. \A k \in Peer : serves[k] \in Nat
    BY DEF Types
  <1>4. ASSUME NEW i \in Client, Says(i) PROVE BacklogInv'
    <2>1. PICK msg \in StreamMsg : Say(i, msg)
      BY <1>4 DEF Says
    <2>2. /\ Playing(i) /\ Control /\ Only(i, i) /\ msg \in Msg
          /\ link' = Broadcast(link, i, msg)
          /\ msg.item = Said(i, Queued(i, i) + 1)
          /\ Adds(At(i, i), msg, At(i, i)')
      BY <1>4, <2>1 DEF Says, Say, Msg
    <2>3. SUFFICES ASSUME Away, NEW k \in Peer
                   PROVE  /\ Served(k) => ReportInv(k)'
                          /\ ~Served(k) => link'[k][Restarter] = <<>>
      BY <2>2, ControlKeeps DEF BacklogInv, Served
    <2>4. i # Restarter
      BY <2>2, <2>3 DEF Playing, Away
    <2>5. k # i => link'[k][Restarter] = link[k][Restarter]
      BY <2>2, <2>4, BroadcastIs
    <2>6. ASSUME ~Served(k) PROVE link'[k][Restarter] = <<>>
      <3>1. link[k][Restarter] = <<>>
        BY <1>1, <2>3, <2>6 DEF BacklogInv
      <3>2. ASSUME k = i PROVE ~(Reaches(i, Restarter) /\ ~Pending(i, Restarter))
        BY <1>3, <2>3, <2>4, <2>6, <3>2 DEF Served, Reaches, Pending
      <3>3. k = i => link'[k][Restarter] = link[k][Restarter]
        BY <2>2, <3>2, BroadcastIs
      <3> QED BY <2>5, <3>1, <3>3
    <2>7. ASSUME Served(k) PROVE ReportInv(k)'
      <3>1. ReportInv(k) /\ report[k] \in Report
        BY <1>1, <2>7 DEF BacklogInv, ReturnInv
      <3>2. Leads(Held(k), link'[k][Restarter], At(k, k)')
        <4>1. Leads(Held(k), link[k][Restarter], At(k, k))
          BY <3>1 DEF ReportInv
        <4>2. CASE k = i
          <5>1. Reaches(i, Restarter) /\ ~Pending(i, Restarter)
            BY <1>3, <2>4, <2>7, <4>2 DEF Served, Reaches, Pending
          <5>2. Leads(Held(k), link[i][Restarter], At(i, i))
            BY <4>1, <4>2
          <5>3. Leads(Held(k), link'[i][Restarter], At(i, i)')
            BY <2>1, <5>1, <5>2, SaysOn
          <5> QED BY <4>2, <5>3
        <4>3. CASE k # i
          <5>1. At(k, k)' = At(k, k)
            BY <2>2, <4>3 DEF Only, At
          <5> QED BY <2>5, <4>1, <4>3, <5>1
        <4> QED BY <4>2, <4>3
      <3>3. \A x \in Peer : Agrees(stream[x][x], stream'[x][x])
        <4> TAKE x \in Peer
        <4>1. CASE x # i
          <5>1. stream'[x][x] = stream[x][x]
            BY <2>2, <4>1 DEF Only
          <5> QED BY <1>2, <5>1, AgreesWithItself
        <4>2. CASE x = i
          <5>1. At(i, i) \in Place
            BY AtType
          <5>2. At(i, i)' \in Place
            BY <2>2 DEF Only, At, Place
          <5>3. Takes(At(i, i), msg, At(i, i)')
            <6>1. msg.item.beat = Len(At(i, i).beats) + 1
              BY <2>2 DEF Said, Queued, At
            <6> QED BY <2>2, <6>1 DEF Takes, Adds
          <5>4. Agrees(At(i, i).beats, (At(i, i)').beats)
            BY <5>1, <5>2, <5>3, TakesOn
          <5> QED BY <4>2, <5>4 DEF At
        <4> QED BY <4>1, <4>2
      <3>4. stream'[k][Restarter] = stream[k][Restarter] /\ open'[k][Restarter] = open[k][Restarter]
        BY <2>2, <2>4 DEF Only
      <3>5. Agrees(stream'[k][Restarter], stream[k][Restarter])
        BY <1>2, <3>4, AgreesWithItself
      <3>6. open'[k][Restarter] = <<>>
        BY <3>1, <3>4 DEF ReportInv
      <3>7. phase' = phase /\ report'[k] = report[k]
        BY <2>2 DEF Control
      <3> QED BY <3>1, <3>2, <3>3, <3>4, <3>5, <3>6, <3>7, ReportKept
    <2> QED BY <2>6, <2>7
  <1>5. ASSUME NEW i \in Client, NEW j \in Client, Hears(i, j) PROVE BacklogInv'
    <2>1. /\ i # j /\ Playing(i) /\ Control /\ Only(i, j) /\ link[j][i] # <<>>
          /\ link' = Rest(i, j) /\ Head(link[j][i]) \in StreamMsg
      BY <1>5 DEF Hears
    <2>2. SUFFICES ASSUME Away, NEW k \in Peer
                   PROVE  /\ Served(k) => ReportInv(k)'
                          /\ ~Served(k) => link'[k][Restarter] = <<>>
      BY <2>1, ControlKeeps DEF BacklogInv, Served
    <2>3. i # Restarter
      BY <2>1, <2>2 DEF Playing, Away
    <2>4. link'[k][Restarter] = link[k][Restarter]
      BY <2>1, <2>3, RestIs
    <2>5. ASSUME ~Served(k) PROVE link'[k][Restarter] = <<>>
      BY <1>1, <2>2, <2>4, <2>5 DEF BacklogInv
    <2>6. ASSUME Served(k) PROVE ReportInv(k)'
      <3>1. ~(k = i /\ j = Restarter)
        <4>1. SUFFICES ASSUME k = i, j = Restarter PROVE FALSE
          OBVIOUS
        <4>2. link[j][i] = <<CutMsg(cut)>>
          BY <1>1, <2>1, <2>6, <4>1 DEF SeatInv, Served, Away, Types
        <4>3. Head(link[j][i]) = CutMsg(cut) /\ cut \in Nat
          BY <4>2 DEF Types
        <4> QED BY <2>1, <4>3, CutMsgIs DEF StreamMsg
      <3>2. stream'[k][Restarter] = stream[k][Restarter] /\ open'[k][Restarter] = open[k][Restarter]
        BY <2>1, <3>1 DEF Only
      <3>3. \A x \in Peer : stream'[x][x] = stream[x][x] /\ open'[x][x] = open[x][x]
        BY <2>1 DEF Only
      <3>4. phase' = phase /\ report'[k] = report[k]
        BY <2>1 DEF Control
      <3> QED BY <2>4, <2>6, <3>2, <3>3, <3>4, ReportSame
    <2> QED BY <2>5, <2>6
  <1>6. ASSUME Quiet PROVE BacklogInv'
    <2>1. UNCHANGED <<stream, open, link, phase, report>> /\ Control
      BY <1>6 DEF Quiet, Control
    <2>2. ASSUME NEW k \in Peer, Served(k)' PROVE ReportInv(k)'
      <3>1. Served(k)
        BY <2>1, <2>2, ControlKeeps
      <3> QED BY <2>1, <3>1, ReportSame
    <2>3. ASSUME NEW k \in Peer, Away', ~Served(k)' PROVE link'[k][Restarter] = <<>>
      BY <1>1, <2>1, <2>3, ControlKeeps DEF BacklogInv
    <2> QED BY <2>2, <2>3 DEF BacklogInv
  <1>7. ASSUME NEW i \in Peer, TakeSeat(i) PROVE BacklogInv'
    <2>1. /\ i \in lost /\ phase = "Asking" /\ lost' = lost \ {i}
          /\ UNCHANGED <<stream, phase>>
          /\ link'[i][Restarter] = <<>>
          /\ \A k \in Peer : k # i => link'[k][Restarter] = link[k][Restarter]
      <3>1. i \in lost /\ phase = "Asking" /\ lost' = lost \ {i} /\ UNCHANGED <<stream, phase>>
        BY <1>7, TakeSeatIs
      <3>2. link'[i][Restarter] = <<>>
        BY <1>7, TakeSeatIs
      <3>3. \A k \in Peer : k # i => link'[k][Restarter] = link[k][Restarter]
        BY <1>7, TakeSeatIs
      <3> QED BY <3>1, <3>2, <3>3
    <2>2. \/ i = Recorder /\ UNCHANGED <<open, report>> /\ serves'[i] = serves[i] + 1
             /\ \A j \in Peer : j # i => serves'[j] = serves[j]
          \/ Serves(i) /\ serves' = serves
      <3>1. CASE i = Recorder
        <4>1. /\ UNCHANGED <<open, report>>
              /\ serves'[i] = serves[i] + 1 /\ \A j \in Peer : j # i => serves'[j] = serves[j]
          BY <1>7, <3>1, TakeSeatIs
        <4> QED BY <3>1, <4>1
      <3>2. CASE i # Recorder
        BY <1>7, <3>2, TakeSeatIs
      <3> QED BY <3>1, <3>2
    <2>3. ASSUME NEW k \in Peer, k # i
          PROVE  /\ Served(k)' = Served(k) /\ report'[k] = report[k]
                 /\ \A x \in Client : open'[k][x] = open[k][x]
      BY <2>1, <2>2, <2>3 DEF Served, Away, Serves
    <2>4. open'[i][i] = open[i][i]
      BY <2>2 DEF Serves
    <2>5. \A x \in Peer : open'[x][x] = open[x][x] /\ stream'[x][x] = stream[x][x]
      BY <2>1, <2>3, <2>4
    <2>6. ASSUME NEW k \in Peer, Served(k)' PROVE ReportInv(k)'
      <3>1. CASE k # i
        BY <2>1, <2>3, <2>5, <2>6, <3>1, ReportSame
      <3>2. CASE k = i
        <4>1. Serves(i)
          <5>1. SUFFICES ASSUME serves'[i] = serves[i] + 1 PROVE FALSE
            BY <2>2
          <5> QED BY <1>3, <2>6, <3>2, <5>1 DEF Served
        <4> QED BY <2>1, <3>2, <4>1, ReportMade DEF Away
      <3> QED BY <3>1, <3>2
    <2>7. ASSUME NEW k \in Peer, Away', ~Served(k)' PROVE link'[k][Restarter] = <<>>
      <3>1. CASE k # i
        BY <1>1, <2>1, <2>3, <2>7, <3>1 DEF BacklogInv, Away
      <3>2. CASE k = i
        BY <2>1, <3>2
      <3> QED BY <3>1, <3>2
    <2> QED BY <2>6, <2>7 DEF BacklogInv
  <1>8. ASSUME NEW i \in Peer, Serve(i) PROVE BacklogInv'
    <2>1. /\ serves[i] > 0 /\ Serves(i)
          /\ \A j \in Peer : j # i => serves'[j] = serves[j]
          /\ UNCHANGED <<stream, link, lost, phase>>
      BY <1>8, ServeIs
    <2>2. phase = "Asking" /\ ~Served(i)
      BY <1>1, <2>1 DEF ReturnInv, Served
    <2>3. link[i][Restarter] = <<>>
      BY <1>1, <2>2 DEF BacklogInv, Away
    <2>4. ASSUME NEW k \in Peer, k # i
          PROVE  /\ Served(k)' = Served(k) /\ report'[k] = report[k]
                 /\ \A x \in Client : open'[k][x] = open[k][x]
      BY <2>1, <2>4 DEF Served, Away, Serves
    <2>5. \A x \in Peer : open'[x][x] = open[x][x] /\ stream'[x][x] = stream[x][x]
      BY <2>1, <2>4 DEF Serves
    <2>6. ASSUME NEW k \in Peer, Served(k)' PROVE ReportInv(k)'
      <3>1. CASE k # i
        BY <2>1, <2>4, <2>5, <2>6, <3>1, ReportSame
      <3>2. CASE k = i
        BY <2>1, <2>2, <2>3, <3>2, ReportMade DEF Away
      <3> QED BY <3>1, <3>2
    <2>7. ASSUME NEW k \in Peer, Away', ~Served(k)' PROVE link'[k][Restarter] = <<>>
      <3>1. CASE k # i
        BY <1>1, <2>1, <2>4, <2>7, <3>1 DEF BacklogInv, Away
      <3>2. CASE k = i
        BY <2>1, <2>3, <3>2
      <3> QED BY <3>1, <3>2
    <2> QED BY <2>6, <2>7 DEF BacklogInv
  <1>9. ASSUME NEW i \in Peer, ReceiveCut(i) PROVE BacklogInv'
    <2>1. /\ Away /\ open[i][Restarter] = <<>> /\ Head(link[Restarter][i]).cut \in Nat
          /\ i \notin lost => phase = "CatchingUp"
      BY <1>9, CutIsTheRest
    <2>2. link[Restarter][i] # <<>> /\ link' = Rest(i, Restarter) /\ Control
          /\ (Only(i, Restarter) \/ UNCHANGED <<stream, open, ack>>)
      BY <1>9, ReceiveCutIs
    <2>3. \A k \in Peer : link'[k][Restarter] = link[k][Restarter]
      BY <2>2, RestIs
    <2>4. \A x \in Peer : open'[x][x] = open[x][x] /\ stream'[x][x] = stream[x][x]
      BY <2>2 DEF Only
    <2>5. ASSUME NEW k \in Peer, Served(k) PROVE ReportInv(k)'
      <3>1. report'[k] = report[k] /\ phase' = phase
        BY <2>2 DEF Control
      <3>2. CASE k # i
        <4>1. stream'[k][Restarter] = stream[k][Restarter] /\ open'[k][Restarter] = open[k][Restarter]
          BY <2>2, <3>2 DEF Only
        <4> QED BY <2>3, <2>4, <2>5, <3>1, <4>1, ReportSame
      <3>3. CASE k = i
        <4>1. ReportInv(k) /\ report[k] \in Report /\ phase = "CatchingUp"
          BY <1>1, <2>1, <2>5, <3>3 DEF BacklogInv, ReturnInv, Served
        <4>2. Leads(Held(k), link'[k][Restarter], At(k, k)')
          BY <2>3, <2>4, <4>1 DEF ReportInv, At
        <4>3. \A x \in Peer : Agrees(stream[x][x], stream'[x][x])
          BY <1>2, <2>4, AgreesWithItself
        <4>4. Agrees(stream'[k][Restarter], stream[k][Restarter]) /\ open'[k][Restarter] = <<>>
          <5>1. CASE GoesBack(i)
            <6> DEFINE S == stream[k][Restarter]
                       end == Head(link[Restarter][i]).cut
            <6>1. stream'[k][Restarter] = SubSeq(S, 1, end) /\ end <= Len(S) /\ end \in Nat
                  /\ open'[k][Restarter] = <<>>
              BY <1>9, <2>1, <3>3, <5>1, ReceiveCutIs DEF GoesBack, Queued
            <6>2. S \in Beats
              BY <1>2
            <6> HIDE DEF S, end
            <6>3. Len(SubSeq(S, 1, end)) = end /\ \A b \in 1 .. end : SubSeq(S, 1, end)[b] = S[b]
              BY <6>1, <6>2 DEF Beats
            <6>4. Agrees(SubSeq(S, 1, end), S)
              BY <6>1, <6>3 DEF Agrees
            <6> QED BY <6>1, <6>4 DEF S
          <5>2. CASE ~GoesBack(i)
            <6>1. UNCHANGED <<stream, open, ack>>
              BY <1>9, <5>2, ReceiveCutIs
            <6> QED BY <1>2, <2>1, <3>3, <6>1, AgreesWithItself
          <5> QED BY <5>1, <5>2
        <4> QED BY <3>1, <4>1, <4>2, <4>3, <4>4, ReportKept
      <3> QED BY <3>2, <3>3
    <2>6. ASSUME NEW k \in Peer, Away', ~Served(k)' PROVE link'[k][Restarter] = <<>>
      BY <1>1, <2>2, <2>3, <2>6, ControlKeeps DEF BacklogInv
    <2> QED BY <2>2, <2>5, <2>6, ControlKeeps DEF BacklogInv
  <1>10. ASSUME Settle PROVE BacklogInv'
    <2>1. \A k \in Peer : report[k] # NoReport
      BY <1>10 DEF Settle
    <2>2. OldStreamEnd \in Nat
      <3>1. \A k \in Peer : report[k] \in Report
        BY <2>1 DEF Types
      <3> QED BY <3>1, OldStreamEndIs
    <2>3. /\ phase = "Asking" /\ phase' = "CatchingUp"
          /\ UNCHANGED <<stream, open, lost, serves, report>>
      BY <1>10, <2>2, SettleIs
    <2>4. \A k \in Peer : link'[k][Restarter] = link[k][Restarter]
      BY <1>10, <2>2, SettleIs
    <2>5. ASSUME NEW k \in Peer PROVE Served(k) /\ Served(k)'
      BY <1>1, <2>1, <2>3 DEF ReturnInv, Served, Away
    <2>6. ASSUME NEW k \in Peer PROVE ReportInv(k)'
      BY <2>3, <2>4, <2>5, ReportSame
    <2> QED BY <2>5, <2>6 DEF BacklogInv
  <1>11. ASSUME FinishCatchUp PROVE BacklogInv'
    BY <1>11 DEF FinishCatchUp, BacklogInv, Served, Away
  <1>12. ASSUME Crash PROVE BacklogInv'
    <2>1. lost' = Peer /\ \A k \in Client : link'[k][Restarter] = <<>>
      BY <1>12, CrashIs
    <2> QED BY <2>1 DEF BacklogInv, Served
  <1> QED BY <1>4, <1>5, <1>6, <1>7, <1>8, <1>9, <1>10, <1>11, <1>12, StepKinds

(* On the new link there stays nothing but the cut.                          *)
LEMMA SeatStep ==
    ASSUME Types, Types', StreamInv, [Next]_vars,
           \A k \in Peer : ReceiveCut(k) => GoesBack(k)
    PROVE  SeatInv'
  <1> USE PeersAre
  <1>1. SeatInv /\ ReturnInv
    BY DEF StreamInv
  <1>2. ASSUME Control, Away,
               \A k \in Peer : /\ link'[Restarter][k] = link[Restarter][k]
                               /\ stream'[k][Restarter] = stream[k][Restarter]
        PROVE  SeatInv'
    BY <1>1, <1>2 DEF SeatInv, Control, Queued
  <1>3. ASSUME Control, ~Away PROVE SeatInv'
    BY <1>3 DEF SeatInv, Control, Away
  <1>4. ASSUME NEW i \in Client, Says(i) PROVE SeatInv'
    <2>1. PICK msg \in StreamMsg : Say(i, msg)
      BY <1>4 DEF Says
    <2>2. Playing(i) /\ Control /\ Only(i, i) /\ msg \in Msg /\ link' = Broadcast(link, i, msg)
      BY <1>4, <2>1 DEF Says, Say, Msg
    <2>3. SUFFICES ASSUME Away PROVE SeatInv'
      BY <1>3, <2>2
    <2>4. i # Restarter
      BY <2>2, <2>3 DEF Playing, Away
    <2>5. \A k \in Peer : /\ link'[Restarter][k] = link[Restarter][k]
                          /\ stream'[k][Restarter] = stream[k][Restarter]
      BY <2>2, <2>4, BroadcastIs DEF Only
    <2> QED BY <1>2, <2>2, <2>3, <2>5
  <1>5. ASSUME NEW i \in Client, NEW j \in Client, Hears(i, j) PROVE SeatInv'
    <2>1. /\ i # j /\ Playing(i) /\ Control /\ Only(i, j) /\ link[j][i] # <<>>
          /\ link' = Rest(i, j) /\ Head(link[j][i]) \in StreamMsg
      BY <1>5 DEF Hears
    <2>2. SUFFICES ASSUME Away PROVE SeatInv'
      BY <1>3, <2>1
    <2>3. ASSUME NEW k \in Peer, k # i \/ j # Restarter
          PROVE  /\ link'[Restarter][k] = link[Restarter][k]
                 /\ stream'[k][Restarter] = stream[k][Restarter]
      BY <2>1, <2>3, RestIs DEF Only
    <2>4. ASSUME j = Restarter, i \in Peer, phase = "CatchingUp" \/ i \notin lost PROVE FALSE
      <3>1. link[j][i] = <<CutMsg(cut)>>
        BY <1>1, <2>1, <2>2, <2>4 DEF SeatInv, Away, Types
      <3>2. Head(link[j][i]) = CutMsg(cut) /\ cut \in Nat
        BY <3>1 DEF Types
      <3> QED BY <2>1, <3>2, CutMsgIs DEF StreamMsg
    <2>5. CASE j # Restarter \/ i \notin Peer
      BY <1>2, <2>1, <2>2, <2>3, <2>5
    <2>6. CASE j = Restarter /\ i \in Peer
      BY <1>1, <2>1, <2>3, <2>4, <2>6 DEF SeatInv, Control, Queued
    <2> QED BY <2>5, <2>6
  <1>6. ASSUME Quiet PROVE SeatInv'
    BY <1>2, <1>3, <1>6 DEF Quiet
  <1>7. ASSUME NEW i \in Peer, TakeSeat(i) PROVE SeatInv'
    <2>1. /\ phase = "Asking" /\ lost' = lost \ {i} /\ phase' = phase
          /\ link'[Restarter][i] = <<>>
      BY <1>7, TakeSeatIs
    <2>2. \A k \in Peer : k # i => link'[Restarter][k] = link[Restarter][k]
      BY <1>7, TakeSeatIs
    <2> QED BY <1>1, <2>1, <2>2 DEF SeatInv
  <1>8. ASSUME NEW i \in Peer, Serve(i) PROVE SeatInv'
    <2>1. UNCHANGED <<stream, link, lost, phase, cut>>
      BY <1>8, ServeIs
    <2> QED BY <1>1, <2>1 DEF SeatInv, Queued
  <1>9. ASSUME NEW i \in Peer, ReceiveCut(i) PROVE SeatInv'
    <2> DEFINE end == Head(link[Restarter][i]).cut
    <2>1. /\ Away /\ Tail(link[Restarter][i]) = <<>> /\ end \in Nat
          /\ i \notin lost => phase = "CatchingUp" /\ end = cut
      BY <1>9, CutIsTheRest
    <2>2. GoesBack(i)
      BY <1>9
    <2>3. /\ link[Restarter][i] # <<>> /\ link' = Rest(i, Restarter) /\ Control
          /\ Only(i, Restarter) /\ stream'[i][Restarter] = SubSeq(stream[i][Restarter], 1, end)
      BY <1>9, <2>2, ReceiveCutIs
    <2>4. i \in Client /\ Restarter \in Client
      OBVIOUS
    <2>5. link'[Restarter][i] = <<>>
      BY <2>1, <2>3, <2>4, RestIs
    <2>6. ASSUME NEW k \in Peer, k # i
          PROVE  link'[Restarter][k] = link[Restarter][k] /\ stream'[k][Restarter] = stream[k][Restarter]
      BY <2>3, <2>6, RestIs DEF Only
    <2>7. Queued(i, Restarter)' = end
      <3>1. stream[i][Restarter] \in Beats /\ end <= Len(stream[i][Restarter])
        BY <2>2 DEF Types, GoesBack, Queued
      <3> HIDE DEF end
      <3>2. Len(SubSeq(stream[i][Restarter], 1, end)) = end
        BY <2>1, <3>1 DEF Beats
      <3> QED BY <2>3, <3>2 DEF Queued
    <2>8. phase = "CatchingUp" => end = cut
      BY <1>1, <2>1 DEF ReturnInv
    <2> HIDE DEF end
    <2>9. UNCHANGED <<lost, phase, cut>>
      BY <2>3 DEF Control
    <2>10. ASSUME NEW k \in Peer
           PROVE  /\ phase' = "Asking" /\ k \notin lost' => link'[Restarter][k] = <<>>
                  /\ phase' = "CatchingUp" =>
                       \/ link'[Restarter][k] = <<CutMsg(cut')>>
                       \/ link'[Restarter][k] = <<>> /\ Queued(k, Restarter)' = cut'
      <3>1. CASE k = i
        BY <2>5, <2>7, <2>8, <2>9, <3>1
      <3>2. CASE k # i
        <4>1. link'[Restarter][k] = link[Restarter][k] /\ Queued(k, Restarter)' = Queued(k, Restarter)
          BY <2>6, <3>2 DEF Queued
        <4> QED BY <1>1, <2>9, <4>1 DEF SeatInv
      <3> QED BY <3>1, <3>2
    <2> QED BY <2>10 DEF SeatInv
  <1>10. ASSUME Settle PROVE SeatInv'
    <2>1. \A k \in Peer : report[k] # NoReport
      BY <1>10 DEF Settle
    <2>2. OldStreamEnd \in Nat
      <3>1. \A k \in Peer : report[k] \in Report
        BY <2>1 DEF Types
      <3> QED BY <3>1, OldStreamEndIs
    <2>3. /\ phase = "Asking" /\ phase' = "CatchingUp" /\ cut' = OldStreamEnd
          /\ \A k \in Peer : link'[Restarter][k] = Append(link[Restarter][k], CutMsg(OldStreamEnd))
      BY <1>10, <2>2, SettleIs
    <2>4. ASSUME NEW k \in Peer PROVE link'[Restarter][k] = <<CutMsg(cut')>>
      <3>1. Served(k)
        BY <1>1, <2>1 DEF ReturnInv
      <3>2. link[Restarter][k] = <<>>
        BY <1>1, <2>3, <3>1 DEF SeatInv, Served
      <3> QED BY <2>3, <3>2
    <2> QED BY <2>3, <2>4 DEF SeatInv
  <1>11. ASSUME FinishCatchUp PROVE SeatInv'
    BY <1>11 DEF FinishCatchUp, SeatInv
  <1>12. ASSUME Crash PROVE SeatInv'
    <2>1. lost' = Peer /\ phase' = "Asking"
      BY <1>12, CrashIs
    <2> QED BY <2>1 DEF SeatInv
  <1> QED BY <1>4, <1>5, <1>6, <1>7, <1>8, <1>9, <1>10, <1>11, <1>12, StepKinds

(***************************************************************************)
(* The restarter has caught up.                                            *)
(***************************************************************************)

(* Skipping nothing leaves everything.                                       *)
LEMMA SkipNone ==
    ASSUME NEW X, NEW msgs \in Seq(X)
    PROVE  Skip(msgs, 0) = msgs
  <1>1. 0 + 1 = 1 /\ Len(msgs) \in Nat
    OBVIOUS
  <1>2. SubSeq(msgs, 1, Len(msgs)) = msgs
    OBVIOUS
  <1> QED BY <1>1, <1>2 DEF Skip

(* Two beginnings of one stream, and the longer of them pieced together.     *)
LEMMA Joined ==
    ASSUME NEW B \in Beats, NEW S \in Beats, Agrees(B, S)
    PROVE  B \o SubSeq(S, Len(B) + 1, Len(S)) = S
  <1>1. Len(B) \in Nat /\ Len(S) \in Nat /\ Len(B) <= Len(S)
    BY DEF Beats, Agrees
  <1>2. PICK a, n \in Nat : a = Len(B) + 1 /\ n = Len(S)
    BY <1>1
  <1> DEFINE T == SubSeq(S, a, n)
  <1>3. /\ T \in Seq(Orders) /\ Len(T) = Len(S) - Len(B)
        /\ \A m \in 1 .. Len(T) : T[m] = S[Len(B) + m]
    BY <1>1, <1>2 DEF Beats
  <1> HIDE DEF T
  <1> DEFINE J == B \o T
  <1>4. /\ J \in Beats /\ Len(J) = Len(S)
        /\ \A m \in 1 .. Len(B) : J[m] = B[m]
        /\ \A m \in Len(B) + 1 .. Len(S) : J[m] = T[m - Len(B)]
    BY <1>1, <1>3 DEF Beats
  <1> HIDE DEF J
  <1>5. ASSUME NEW m \in 1 .. Len(S) PROVE J[m] = S[m]
    <2>1. m \in Nat /\ (m <= Len(B) \/ m > Len(B))
      BY <1>1
    <2>2. CASE m <= Len(B)
      BY <1>1, <1>4, <2>2 DEF Agrees
    <2>3. CASE m > Len(B)
      <3>1. m - Len(B) \in 1 .. Len(T) /\ m \in Len(B) + 1 .. Len(S) /\ Len(B) + (m - Len(B)) = m
        BY <1>1, <1>3, <2>3
      <3> QED BY <1>3, <1>4, <3>1
    <2> QED BY <2>1, <2>2, <2>3
  <1>6. J = S
    <2>1. Agrees(J, S) /\ Len(S) <= Len(J)
      BY <1>1, <1>4, <1>5 DEF Agrees
    <2> QED BY <1>4, <2>1, SameBeats
  <1> QED BY <1>2, <1>6 DEF J, T

(* Nothing follows a stream from beyond its end.                             *)
LEMMA JoinedNone ==
    ASSUME NEW B \in Beats, NEW S \in Beats, Len(S) < Len(B)
    PROVE  B \o SubSeq(S, Len(B) + 1, Len(S)) = B
  <1>1. Len(B) \in Nat /\ Len(S) \in Nat
    BY DEF Beats
  <1>2. PICK a, n \in Nat : a = Len(B) + 1 /\ n = Len(S)
    BY <1>1
  <1>3. SubSeq(S, a, n) = <<>>
    BY <1>1, <1>2 DEF Beats
  <1>4. B \o <<>> = B
    BY DEF Beats
  <1> QED BY <1>2, <1>3, <1>4

(* A stream cut at n is its first n beats.                                   *)
LEMMA CutAt ==
    ASSUME NEW B \in Beats, NEW n \in Nat, n <= Len(B)
    PROVE  /\ SubSeq(B, 1, n) \in Beats /\ Len(SubSeq(B, 1, n)) = n
           /\ Agrees(SubSeq(B, 1, n), B)
  <1>1. /\ SubSeq(B, 1, n) \in Beats /\ Len(SubSeq(B, 1, n)) = n
        /\ \A b \in 1 .. n : SubSeq(B, 1, n)[b] = B[b]
    BY DEF Beats
  <1> QED BY <1>1 DEF Agrees

(* Two beginnings of one stream: one is a beginning of the other.            *)
LEMMA AgreeAlike ==
    ASSUME NEW S \in Beats, NEW U \in Beats, NEW T \in Beats,
           Agrees(S, T), Agrees(U, T), Len(S) <= Len(U)
    PROVE  Agrees(S, U)
  <1>1. Len(S) \in Nat /\ Len(U) \in Nat /\ Len(T) \in Nat
    BY DEF Beats
  <1> QED BY <1>1 DEF Agrees

(* Everybody has gone back to the cut.                                       *)
LEMMA AllBack ==
    ASSUME Types, StreamInv, Prompt, FinishCatchUp
    PROVE  /\ phase = "CatchingUp" /\ Reported
           /\ \A k \in Peer : /\ Served(k) /\ ReportInv(k)
                              /\ link[Restarter][k] = <<>>
                              /\ Queued(k, Restarter) = cut
  <1> USE PeersAre
  <1>1. phase = "CatchingUp" /\ \A k \in Peer : ~CutUnderWay(k)
    BY DEF FinishCatchUp
  <1>2. ASSUME NEW k \in Peer PROVE Served(k) /\ ReportInv(k) /\ report[k] \in Report
    BY <1>1 DEF StreamInv, ReturnInv, BacklogInv, Served, Away
  <1>3. ASSUME NEW k \in Peer PROVE link[Restarter][k] = <<>> /\ Queued(k, Restarter) = cut
    <2>1. link[Restarter][k] # <<CutMsg(cut)>>
      <3>1. SUFFICES ASSUME link[Restarter][k] = <<CutMsg(cut)>> PROVE FALSE
        OBVIOUS
      <3>2. /\ Len(link[Restarter][k]) = 1 /\ link[Restarter][k][1] = CutMsg(cut)
            /\ 1 \in 1 .. 1
        BY <3>1
      <3>3. link[Restarter][k][1].op = "Cut"
        BY <3>2, CutMsgIs DEF Types
      <3> QED BY <1>1, <3>2, <3>3 DEF CutUnderWay
    <2> QED BY <1>1, <2>1 DEF StreamInv, SeatInv
  <1>4. cut <= report[Recorder].queued[Restarter]
    <2>1. Agrees(stream[Recorder][Restarter], report[Recorder].beats[Restarter])
      BY <1>2 DEF ReportInv
    <2>2. report[Recorder].queued[Restarter] = Len(report[Recorder].beats[Restarter])
      BY <1>2 DEF ReportInv
    <2>3. Queued(Recorder, Restarter) = cut
      BY <1>3
    <2> QED BY <2>1, <2>2, <2>3 DEF Agrees, Queued
  <1>5. \A k \in Peer : \A x \in Client : report[k].queued[x] = Len(report[k].beats[x])
    BY <1>2 DEF ReportInv
  <1> QED BY <1>1, <1>2, <1>3, <1>4, <1>5 DEF Reported

(* The restarter's own stream: everybody holds it through the cut.           *)
LEMMA OldRebuilt ==
    ASSUME Types, StreamInv, Prompt, FinishCatchUp
    PROVE  /\ Rebuilt(Restarter) \in Beats /\ Whole(Rebuilt(Restarter))
           /\ \A k \in Peer : stream[k][Restarter] = Rebuilt(Restarter)
           /\ RebuiltOrders(Restarter) = <<>>
  <1> USE PeersAre
  <1>1. /\ phase = "CatchingUp" /\ Reported
        /\ \A k \in Peer : ReportInv(k) /\ Queued(k, Restarter) = cut
    BY AllBack
  <1>2. PICK T \in Beats : Whole(T) /\ \A k \in Peer : OldWay(k, T)
    BY <1>1 DEF StreamInv, OldInv, Away
  <1>3. ASSUME NEW k \in Peer
        PROVE  /\ stream[k][Restarter] \in Beats /\ Len(stream[k][Restarter]) = cut
               /\ Agrees(stream[k][Restarter], T)
    <2>1. stream[k][Restarter] \in Beats
      BY DEF Types
    <2>2. Len(stream[k][Restarter]) = cut
      BY <1>1 DEF Queued
    <2>3. Agrees(stream[k][Restarter], T)
      BY <1>2, OldWayAgrees
    <2> QED BY <2>1, <2>2, <2>3
  <1> DEFINE B == report[Recorder].beats[Restarter]
             S == SubSeq(B, 1, cut)
  <1>4. B \in Beats /\ cut \in Nat /\ cut <= Len(B)
    BY <1>1 DEF Reported, Report, Types
  <1>5. Rebuilt(Restarter) = S
    BY DEF Rebuilt
  <1>6. Agrees(stream[Recorder][Restarter], B)
    BY <1>1 DEF ReportInv
  <1> HIDE DEF B
  <1>7. S \in Beats /\ Len(S) = cut /\ Agrees(S, B)
    BY <1>4, CutAt
  <1> HIDE DEF S
  <1>8. S = stream[Recorder][Restarter]
    <2>1. Agrees(S, stream[Recorder][Restarter])
      BY <1>3, <1>4, <1>6, <1>7, AgreeAlike
    <2> QED BY <1>3, <1>4, <1>7, <2>1, SameBeats
  <1>9. ASSUME NEW k \in Peer PROVE stream[k][Restarter] = S
    <2>1. /\ stream[k][Restarter] \in Beats /\ Len(stream[k][Restarter]) = cut
          /\ Agrees(stream[k][Restarter], T)
      BY <1>3
    <2>2. Agrees(S, T)
      BY <1>3, <1>8
    <2>3. Agrees(stream[k][Restarter], S)
      BY <1>4, <1>7, <2>1, <2>2, AgreeAlike
    <2> QED BY <1>4, <1>7, <2>1, <2>3, SameBeats
  <1>10. Whole(S)
    BY <1>2, <1>3, <1>8, WholeAgrees
  <1>11. RebuiltOrders(Restarter) = <<>>
    BY DEF RebuiltOrders
  <1> QED BY <1>5, <1>7, <1>9, <1>10, <1>11

(* The stream of a peer: what is rebuilt of it, then what has come since.    *)
LEMMA PeerRebuilt ==
    ASSUME Types, StreamInv, Prompt, FinishCatchUp, NEW k \in Peer
    PROVE  Leads([beats |-> Rebuilt(k), part |-> RebuiltOrders(k)],
                 Skip(link[k][Restarter], Cardinality(CoveredOf(k))), At(k, k))
  <1> USE PeersAre
  <1> DEFINE B == report[Recorder].beats[k]
             S == report[k].beats[k]
             msgs == link[k][Restarter]
             q == RecordedThrough(k)
  <1>1. Reported /\ ReportInv(k) /\ ReportInv(Recorder) /\ k # Restarter
    BY AllBack
  <1>2. /\ B \in Beats /\ S \in Beats /\ report[k].orders \in Orders
        /\ q = Len(B) /\ q \in Nat /\ report[k].queued[k] = Len(S) /\ Len(S) \in Nat
    BY <1>1 DEF Reported, Report, RecordedThrough, Beats
  <1>3. Leads(Held(k), msgs, At(k, k)) /\ Held(k).beats = S /\ Held(k).part = report[k].orders
        /\ Held(k) = [beats |-> S, part |-> report[k].orders]
    BY <1>1 DEF ReportInv, Held
  <1>4. Agrees(B, stream[k][k]) /\ Agrees(S, stream[k][k]) /\ stream[k][k] \in Beats
    BY <1>1 DEF ReportInv, Types
  <1>5. msgs \in Seq(StreamMsg) /\ Len(msgs) \in Nat
    BY <1>3 DEF Leads
  <1>6. Len(S) >= q => RebuiltOrders(k) = report[k].orders
    BY <1>1, <1>2 DEF RebuiltOrders
  <1>7. Len(S) < q => RebuiltOrders(k) = <<>>
    BY <1>1, <1>2 DEF RebuiltOrders
  <1>8. k # Recorder => Rebuilt(k) = B \o SubSeq(S, Len(B) + 1, Len(S))
    BY <1>1, <1>2 DEF Rebuilt
  <1>9. k = Recorder => Rebuilt(k) = S /\ Len(S) >= q
    BY <1>1, <1>2 DEF Rebuilt
  <1>10. \A n \in 1 .. Len(msgs) : msgs[n].op \in {"Order", "Advance"} /\ msgs[n].item.beat \in Nat
    <2> TAKE n \in 1 .. Len(msgs)
    <2>1. msgs[n] \in StreamMsg
      BY <1>5
    <2> QED BY <2>1 DEF StreamMsg, Item
  <1>11. CoveredOf(k) = IF k = Recorder THEN {} ELSE Through(msgs, q)
    <2>1. CASE k = Recorder
      <3>1. \A m \in 1 .. Len(msgs) : ~Covered(k, msgs[m])
        BY <2>1 DEF Covered
      <3>2. CoveredOf(k) = {}
        <4>1. SUFFICES ASSUME NEW n \in CoveredOf(k) PROVE FALSE
          OBVIOUS
        <4>2. n \in 1 .. Len(msgs) /\ Covered(k, msgs[n]) 
          BY <1>5 DEF CoveredOf
        <4> QED BY <3>1, <4>2
      <3> QED BY <2>1, <3>2
    <2>2. CASE k # Recorder
      <3>1. \A m \in 1 .. Len(msgs) : Covered(k, msgs[m]) <=> msgs[m].item.beat <= q
        BY <1>1, <1>10, <2>2 DEF Covered
      <3>2. \A n \in 1 .. Len(msgs) : \A m \in 1 .. n : m \in 1 .. Len(msgs)
        BY <1>5
      <3> QED BY <2>2, <3>1, <3>2 DEF CoveredOf, Through
    <2> QED BY <2>1, <2>2
  <1> HIDE DEF B, S, msgs, q
  <1>12. CASE Len(S) >= q
    <2>1. Rebuilt(k) = S
      <3>1. CASE k = Recorder
        BY <1>9, <3>1
      <3>2. CASE k # Recorder
        <4>1. Agrees(B, S)
          BY <1>2, <1>4, <1>12, AgreeAlike
        <4> QED BY <1>2, <1>8, <3>2, <4>1, Joined
      <3> QED BY <3>1, <3>2
    <2>2. Cardinality(CoveredOf(k)) = 0
      <3>1. Through(msgs, q) = {}
        <4>1. SUFFICES ASSUME NEW n \in Through(msgs, q) PROVE FALSE
          OBVIOUS
        <4>2. /\ n \in 1 .. Len(msgs) /\ 1 \in 1 .. n /\ msgs[1].item.beat <= q
          BY <1>5 DEF Through
        <4>3. msgs # <<>> /\ Head(msgs) = msgs[1]
          BY <1>5, <4>2
        <4>4. Head(msgs).item.beat = Len(S) + 1
          BY <1>3, <4>3, LeadsTail DEF Takes
        <4> QED BY <1>2, <1>12, <4>2, <4>3, <4>4
      <3>2. CoveredOf(k) = {}
        BY <1>11, <3>1
      <3> QED BY <3>2, FS_EmptySet
    <2>3. Skip(msgs, 0) = msgs
      BY <1>5, SkipNone
    <2> QED BY <1>3, <1>6, <1>12, <2>1, <2>2, <2>3 DEF msgs
  <1>13. CASE Len(S) < q
    <2>1. k # Recorder
      BY <1>2, <1>9, <1>13
    <2>2. Rebuilt(k) = B
      BY <1>2, <1>8, <1>13, <2>1, JoinedNone
    <2>3. CoveredOf(k) = Through(msgs, Len(B))
      BY <1>2, <1>11, <2>1
    <2>4. Agrees(B, At(k, k).beats)
      BY <1>4 DEF At
    <2>5. Leads([beats |-> B, part |-> <<>>],
                SubSeq(msgs, Cardinality(Through(msgs, Len(B))) + 1, Len(msgs)), At(k, k))
      BY <1>2, <1>3, <1>13, <2>4, LeadsSkip
    <2> QED BY <1>7, <1>13, <2>2, <2>3, <2>5 DEF Skip, msgs
  <1> QED BY <1>2, <1>12, <1>13

(* Caught up, the restarter holds every stream as far as its link leads on   *)
(* from.                                                                     *)
LEMMA FinishStep ==
    ASSUME Types, Types', StreamInv, Prompt, FinishCatchUp
    PROVE  OwnInv' /\ FlowInv'
  <1> USE PeersAre
  <1> DEFINE R == Restarter
  <1>1. /\ phase = "CatchingUp" /\ Reported
        /\ \A k \in Peer : /\ ReportInv(k) /\ link[R][k] = <<>>
    BY AllBack
  <1>2. /\ \A x \in Client : stream'[R][x] = Rebuilt(x)
        /\ \A x \in Client : open'[R][x] = RebuiltOrders(x)
        /\ \A i, x \in Client : i # R => stream'[i][x] = stream[i][x] /\ open'[i][x] = open[i][x]
        /\ \A k \in Peer : link'[k][R] = Skip(link[k][R], Cardinality(CoveredOf(k)))
        /\ \A j, k \in Client : j = R \/ k # R => link'[j][k] = link[j][k]
    BY <1>1, FinishCatchUpIs
  <1>3. /\ Whole(Rebuilt(R))
        /\ \A k \in Peer : stream[k][R] = Rebuilt(R)
        /\ RebuiltOrders(R) = <<>>
    BY OldRebuilt
  <1>4. OwnInv'
    <2>1. ASSUME NEW x \in Client
          PROVE  /\ Whole(stream'[x][x])
                 /\ \A m \in 1 .. Len(open'[x][x]) : open'[x][x][m] = Said(x, Queued(x, x) + 1)'
      <3>1. CASE x = R
        <4>1. open'[x][x] = <<>> /\ 1 .. Len(<<>>) = {}
          BY <1>2, <1>3, <3>1
        <4> QED BY <1>2, <1>3, <3>1, <4>1
      <3>2. CASE x # R
        <4>1. /\ stream'[x][x] = stream[x][x] /\ open'[x][x] = open[x][x]
              /\ Queued(x, x)' = Queued(x, x)
              /\ \A q : Said(x, q)' = Said(x, q)
              /\ Playing(x)
          BY <1>2, <3>2 DEF Queued, Said, RunOf, Playing
        <4> QED BY <4>1 DEF StreamInv, OwnInv
      <3> QED BY <3>1, <3>2
    <2> QED BY <2>1 DEF OwnInv
  <1>5. ASSUME NEW x \in Client, NEW i \in Client, x # i
        PROVE  Leads(At(i, x)', link'[x][i], At(x, x)')
    <2>1. CASE x = R
      <3>1. /\ At(i, R)' = [beats |-> Rebuilt(R), part |-> <<>>]
        <4>1. stream'[i][R] = Rebuilt(R)
          BY <1>2, <1>3, <1>5, <2>1
        <4>2. open'[i][R] = <<>>
          BY <1>1, <1>2, <1>5, <2>1 DEF ReportInv
        <4> QED BY <4>1, <4>2 DEF At
      <3>2. At(R, R)' = [beats |-> Rebuilt(R), part |-> <<>>]
        BY <1>2, <1>3 DEF At
      <3>3. link'[R][i] = <<>>
        BY <1>1, <1>2, <1>5, <2>1
      <3>4. At(R, R)' \in Place
        BY DEF Types, At, Place
      <3>5. Leads(At(R, R)', <<>>, At(R, R)')
        BY <3>4, LeadsEmpty
      <3> QED BY <2>1, <3>1, <3>2, <3>3, <3>5
    <2>2. CASE i = R
      <3>1. At(x, x)' = At(x, x)
        BY <1>2, <1>5, <2>2 DEF At
      <3>2. At(R, x)' = [beats |-> Rebuilt(x), part |-> RebuiltOrders(x)]
        BY <1>2 DEF At
      <3>3. x \in Peer /\ link'[x][R] = Skip(link[x][R], Cardinality(CoveredOf(x)))
        BY <1>2, <1>5, <2>2
      <3>4. Leads([beats |-> Rebuilt(x), part |-> RebuiltOrders(x)],
                  Skip(link[x][R], Cardinality(CoveredOf(x))), At(x, x))
        BY <3>3, PeerRebuilt
      <3> QED BY <2>2, <3>1, <3>2, <3>3, <3>4
    <2>3. CASE x # R /\ i # R
      <3>1. At(x, x)' = At(x, x) /\ At(i, x)' = At(i, x) /\ link'[x][i] = link[x][i]
        BY <1>2, <2>3 DEF At
      <3>2. Leads(At(i, x), link[x][i], At(x, x))
        BY <1>5, <2>3 DEF StreamInv, FlowInv, Playing
      <3> QED BY <3>1, <3>2
    <2> QED BY <2>1, <2>2, <2>3
  <1>6. FlowInv'
    BY <1>5 DEF FlowInv
  <1> QED BY <1>4, <1>6

(* Every step keeps what is said of the streams.                             *)
LEMMA StreamStep ==
    ASSUME Types, Types', StreamInv, Prompt, [Next]_vars,
           \A k \in Peer : ReceiveCut(k) => GoesBack(k)
    PROVE  StreamInv'
  <1>1. OwnInv' /\ FlowInv'
    <2>1. ASSUME NEW i \in Client, Says(i) PROVE OwnInv' /\ FlowInv'
      BY <2>1, OwnSays, FlowSays
    <2>2. ASSUME NEW i \in Client, NEW k \in Client, Hears(i, k) PROVE OwnInv' /\ FlowInv'
      BY <2>2, OwnHears, FlowHears
    <2>3. ASSUME Quiet PROVE OwnInv' /\ FlowInv'
      BY <2>3, OwnQuiet
    <2>4. ASSUME FinishCatchUp PROVE OwnInv' /\ FlowInv'
      BY <2>4, FinishStep
    <2>5. ASSUME \/ \E k \in Peer : TakeSeat(k) \/ Serve(k) \/ ReceiveCut(k)
                 \/ Settle
                 \/ Crash
          PROVE  OwnInv' /\ FlowInv'
      BY <2>5, PeersAreKept, OwnKept
    <2> QED BY <2>1, <2>2, <2>3, <2>4, <2>5, StepKinds
  <1> QED BY <1>1, ReturnStep, BacklogStep, OldStep, SeatStep DEF StreamInv

(***************************************************************************)
(* Acks.                                                                   *)
(***************************************************************************)

(* The restarter counts nothing while it is away.                            *)
GoneInv ==
    Away => /\ dispatched[Restarter] = 0 /\ available[Restarter] = 0
            /\ \A k, x \in Client : ack[Restarter][k][x] = 0

(* A player has what it counts, and acks to itself only what it has.         *)
HeldInv ==
    \A i \in Client :
        /\ \A x \in Client : /\ ack[i][i][x] <= Queued(i, x)
                             /\ told[i][i][x] = 0
                             /\ available[i] <= Queued(i, x)
        /\ available[i] <= MaxBeat
        /\ dispatched[i] <= available[i]

(* Nobody believes j holds more of the restarter's stream than it does.      *)
TrueAcks(j) ==
    \A i \in Peer : /\ ack[i][j][Restarter] <= Queued(j, Restarter)
                    /\ told[j][i][Restarter] <= Queued(j, Restarter)

(* Nothing of it is still to come.                                           *)
NoMore(k) ==
    link[Restarter][k] = <<>> \/ \E c \in Nat : link[Restarter][k] = <<CutMsg(c)>>

(* Everybody holds it through c, and one client no more and none the wiser.  *)
Floor(c) ==
    /\ \A k \in Peer : c <= Queued(k, Restarter)
    /\ \E m \in Peer : TrueAcks(m) /\ NoMore(m) /\ Queued(m, Restarter) = c

(* A cut is such a floor.                                                    *)
FloorInv ==
    /\ Away => \A k \in Peer : \A c \in Nat : link[Restarter][k] = <<CutMsg(c)>> => Floor(c)
    /\ phase = "CatchingUp" => Floor(cut)

TruthInv ==
    \/ \A j \in Peer : TrueAcks(j)
    \/ Away /\ \E c \in Nat : Floor(c)

(* Until it is back nobody can run what another has yet to get.              *)
EarlyInv ==
    Away \/ crashes = 0 =>
        /\ TruthInv
        /\ \A i, k \in Peer : available[i] <= Queued(k, Restarter)

(* A peer reports what it has run.                                           *)
Ran(k) ==
    /\ report[k].dispatched <= dispatched[k]
    /\ \A x \in Peer : report[k].dispatched <= report[k].queued[x]

RunInv == \A k \in Peer : Served(k) => Ran(k)

AckInv == GoneInv /\ HeldInv /\ FloorInv /\ EarlyInv /\ RunInv

IInv == Types /\ StreamInv /\ AckInv

(* Counts are numbers,                                                       *)
LEMMA CountsAre ==
    ASSUME Types
    PROVE  /\ \A i \in Client : dispatched[i] \in Nat /\ available[i] \in Nat
           /\ \A i, k, x \in Client : ack[i][k][x] \in Nat /\ told[i][k][x] \in Nat
           /\ \A i, x \in Client : Queued(i, x) \in Nat
           /\ crashes \in Nat
  <1>1. \A i \in Client : dispatched[i] \in Nat /\ available[i] \in Nat
    BY DEF Types
  <1>2. \A i, k, x \in Client : ack[i][k][x] \in Nat
    BY DEF Types
  <1>3. \A i, k, x \in Client : told[i][k][x] \in Nat
    BY DEF Types
  <1>4. \A i, x \in Client : Queued(i, x) \in Nat
    BY QueuedType
  <1>5. crashes \in Nat
    BY DEF Types
  <1> QED BY <1>1, <1>2, <1>3, <1>4, <1>5

(* and are after the step.                                                   *)
LEMMA CountsAreNext ==
    ASSUME Types'
    PROVE  /\ \A i \in Client : dispatched'[i] \in Nat /\ available'[i] \in Nat
           /\ \A i, k, x \in Client : ack'[i][k][x] \in Nat /\ told'[i][k][x] \in Nat
           /\ \A i, x \in Client : Queued(i, x)' \in Nat
  <1>1. \A i \in Client : dispatched'[i] \in Nat /\ available'[i] \in Nat
    BY DEF Types
  <1>2. \A i, k, x \in Client : ack'[i][k][x] \in Nat
    BY DEF Types
  <1>3. \A i, k, x \in Client : told'[i][k][x] \in Nat
    BY DEF Types
  <1>4. \A i, x \in Client : Queued(i, x)' \in Nat
    BY DEF Types, Queued, Beats
  <1> QED BY <1>1, <1>2, <1>3, <1>4

(* What a peer has run is within a cut, and it has all of that.              *)
LEMMA CutFits ==
    ASSUME IInv, NEW k \in Peer, NEW c \in Nat, Floor(c), Away
    PROVE  dispatched[k] <= c /\ available[k] <= c /\ c <= Queued(k, Restarter)
  <1> USE PeersAre
  <1>1. PICK m \in Peer : Queued(m, Restarter) = c
    BY DEF Floor
  <1>2. available[k] <= Queued(m, Restarter) /\ dispatched[k] <= available[k]
    BY DEF IInv, AckInv, EarlyInv, HeldInv
  <1>3. dispatched[k] \in Nat /\ available[k] \in Nat
    BY CountsAre DEF IInv
  <1> QED BY <1>1, <1>2, <1>3 DEF Floor

(* Whoever reads a cut can go back to it.                                    *)
LEMMA CutsGoBack ==
    ASSUME IInv, NEW k \in Peer, ReceiveCut(k)
    PROVE  GoesBack(k) /\ Floor(Head(link[Restarter][k]).cut)
  <1> DEFINE end == Head(link[Restarter][k]).cut
  <1>1. Away /\ link[Restarter][k] = <<CutMsg(end)>> /\ end \in Nat
    BY CutIsTheRest DEF IInv
  <1> HIDE DEF end
  <1>2. Floor(end)
    BY <1>1 DEF IInv, AckInv, FloorInv
  <1>3. dispatched[k] <= end /\ end <= Queued(k, Restarter)
    BY <1>1, <1>2, CutFits
  <1> QED BY <1>2, <1>3 DEF GoesBack, end

(* All cuts are the same.                                                    *)
LEMMA OneFloor ==
    ASSUME Types, NEW c \in Nat, NEW d \in Nat, Floor(c), Floor(d)
    PROVE  c = d
  BY DEF Floor

-----------------------------------------------------------------------------
(* Steps that give up nothing.                                               *)

Calm ==
    \A m \in Peer : Away /\ NoMore(m) =>
        NoMore(m)' /\ Queued(m, Restarter)' = Queued(m, Restarter)

Grows ==
    /\ Away' = Away /\ crashes' = crashes
    /\ \A j, x \in Client : Queued(j, x) <= Queued(j, x)'
    /\ Calm

Honest ==
    /\ \A j, x \in Client : ack'[j][j][x] <= Queued(j, x)'
    /\ \A j, x \in Client : told'[j][j][x] = 0
    /\ \A i, j \in Peer :
         /\ \/ ack'[i][j][Restarter] <= ack[i][j][Restarter]
            \/ ack'[i][j][Restarter] <= told[j][i][Restarter]
            \/ ack'[i][j][Restarter] <= Queued(j, Restarter)'
         /\ \/ told'[j][i][Restarter] <= told[j][i][Restarter]
            \/ told'[j][i][Restarter] <= Queued(j, Restarter)'
    /\ Away => \A k, x \in Client : ack'[Restarter][k][x] = ack[Restarter][k][x]

(* A client counts up to what everybody acked, if it counts.                 *)
Counts ==
    \A j \in Client :
        \/ available'[j] = available[j]
        \/ /\ available[j] <= available'[j] /\ available'[j] <= MaxBeat
           /\ AckedByAll(ack'[j], available'[j])

(* Who counts nothing new counts right.                                      *)
LEMMA CountsSame == ASSUME available' = available PROVE Counts
  BY DEF Counts

(* Who does counts what everybody acked.                                     *)
LEMMA CountsStep ==
    ASSUME Types, Types', NEW i \in Client, StepAvailable(i)
    PROVE  Counts
  <1>1. ack' \in [Client -> [Client -> [Client -> Nat]]]
    BY DEF Types
  <1>2. /\ \A j \in Client : j # i => available'[j] = available[j]
        /\ available[i] <= available'[i]
        /\ available'[i] = available[i] \/ (available'[i] <= MaxBeat /\ AckedByAll(ack'[i], available'[i]))
    BY <1>1, AvailableIs
  <1> QED BY <1>2 DEF Counts

(* Acks stay true through such steps,                                        *)
LEMMA TrueAcksKept ==
    ASSUME Types, Types', Honest, NEW j \in Peer,
           Queued(j, Restarter) <= Queued(j, Restarter)', TrueAcks(j)
    PROVE  TrueAcks(j)'
  <1> USE PeersAre
  <1>1. Queued(j, Restarter) \in Nat /\ Queued(j, Restarter)' \in Nat
    BY CountsAre, CountsAreNext
  <1>2. ASSUME NEW i \in Peer
        PROVE  /\ ack'[i][j][Restarter] <= Queued(j, Restarter)'
               /\ told'[j][i][Restarter] <= Queued(j, Restarter)'
    <2>1. /\ ack[i][j][Restarter] \in Nat /\ told[j][i][Restarter] \in Nat
          /\ ack'[i][j][Restarter] \in Nat /\ told'[j][i][Restarter] \in Nat
      BY CountsAre, CountsAreNext
    <2>2. ack[i][j][Restarter] <= Queued(j, Restarter) /\ told[j][i][Restarter] <= Queued(j, Restarter)
      BY DEF TrueAcks
    <2>3. /\ \/ ack'[i][j][Restarter] <= ack[i][j][Restarter]
             \/ ack'[i][j][Restarter] <= told[j][i][Restarter]
             \/ ack'[i][j][Restarter] <= Queued(j, Restarter)'
          /\ \/ told'[j][i][Restarter] <= told[j][i][Restarter]
             \/ told'[j][i][Restarter] <= Queued(j, Restarter)'
      BY DEF Honest
    <2> QED BY <1>1, <2>1, <2>2, <2>3
  <1> QED BY <1>2 DEF TrueAcks

(* and a floor stays one.                                                    *)
LEMMA FloorKept ==
    ASSUME Types, Types', Honest, Grows, Away, NEW c \in Nat, Floor(c)
    PROVE  Floor(c)'
  <1> USE PeersAre
  <1>1. \A k \in Peer : /\ c <= Queued(k, Restarter) /\ Queued(k, Restarter) <= Queued(k, Restarter)'
                        /\ Queued(k, Restarter) \in Nat /\ Queued(k, Restarter)' \in Nat
    BY CountsAre, CountsAreNext DEF Floor, Grows
  <1>2. \A k \in Peer : c <= Queued(k, Restarter)'
    BY <1>1
  <1>3. PICK m \in Peer : TrueAcks(m) /\ NoMore(m) /\ Queued(m, Restarter) = c
    BY DEF Floor
  <1>4. NoMore(m)' /\ Queued(m, Restarter)' = c
    BY <1>3 DEF Grows, Calm
  <1>5. TrueAcks(m)'
    BY <1>1, <1>3, TrueAcksKept
  <1> QED BY <1>2, <1>4, <1>5 DEF Floor

(* What is counted is held, by the one who counts and, early, by everybody.  *)
LEMMA CountedIsHeld ==
    ASSUME Types, Types', Counts, NEW i \in Client, NEW x \in Client,
           available[i] <= Queued(i, x)', ack'[i][i][x] <= Queued(i, x)'
    PROVE  available'[i] <= Queued(i, x)'
  <1>1. /\ available[i] \in Nat /\ available'[i] \in Nat /\ ack'[i][i][x] \in Nat
        /\ Queued(i, x)' \in Nat
    BY CountsAre, CountsAreNext
  <1> QED BY <1>1 DEF Counts, AckedByAll

(* Before the return nobody counts a beat that a peer has yet to get.        *)
LEMMA CountedIsEarly ==
    ASSUME Types, Types', Counts, TruthInv', NEW i \in Peer, NEW k \in Peer,
           available[i] <= Queued(k, Restarter)'
    PROVE  available'[i] <= Queued(k, Restarter)'
  <1> USE PeersAre
  <1>1. \A m \in Peer : /\ ack'[i][m][Restarter] \in Nat /\ Queued(m, Restarter)' \in Nat
                        /\ available'[i] \in Nat
    BY CountsAreNext
  <1>2. SUFFICES ASSUME AckedByAll(ack'[i], available'[i]) PROVE available'[i] <= Queued(k, Restarter)'
    BY DEF Counts
  <1>3. \A m \in Peer : available'[i] <= ack'[i][m][Restarter]
    BY <1>1, <1>2 DEF AckedByAll
  <1>4. ASSUME TrueAcks(k)' PROVE available'[i] <= Queued(k, Restarter)'
    <2>1. ack'[i][k][Restarter] <= Queued(k, Restarter)'
      BY <1>4 DEF TrueAcks
    <2> QED BY <1>1, <1>3, <2>1
  <1>5. ASSUME NEW c \in Nat, Floor(c)' PROVE available'[i] <= Queued(k, Restarter)'
    <2>1. PICK m \in Peer : TrueAcks(m)' /\ Queued(m, Restarter)' = c
      BY <1>5 DEF Floor
    <2>2. ack'[i][m][Restarter] <= c
      BY <2>1 DEF TrueAcks
    <2>3. c <= Queued(k, Restarter)'
      BY <1>5 DEF Floor
    <2> QED BY <1>1, <1>3, <2>2, <2>3
  <1> QED BY <1>4, <1>5 DEF TruthInv

(* Such steps keep what is said of acks and counts.                          *)
LEMMA SteadyKeeps ==
    ASSUME IInv, Types', Grows, Honest, Counts,
           \A i \in Client : dispatched'[i] <= available'[i],
           Away => dispatched'[Restarter] = 0
    PROVE  GoneInv' /\ HeldInv' /\ EarlyInv'
  <1> USE PeersAre
  <1>1. Types /\ GoneInv /\ HeldInv /\ EarlyInv
    BY DEF IInv, AckInv
  <1>2. ASSUME NEW i \in Client, NEW x \in Client
        PROVE  available'[i] <= Queued(i, x)'
    <2>1. /\ available[i] \in Nat /\ Queued(i, x) \in Nat /\ Queued(i, x)' \in Nat
          /\ available[i] <= Queued(i, x) /\ Queued(i, x) <= Queued(i, x)'
      BY <1>1, CountsAre, CountsAreNext DEF HeldInv, Grows
    <2>2. available[i] <= Queued(i, x)' /\ ack'[i][i][x] <= Queued(i, x)'
      BY <2>1 DEF Honest
    <2> QED BY <1>1, <2>2, CountedIsHeld
  <1>3. \A i \in Client : available'[i] <= MaxBeat
    BY <1>1 DEF HeldInv, Counts
  <1>4. HeldInv'
    BY <1>2, <1>3 DEF HeldInv, Honest
  <1>5. GoneInv'
    <2>1. SUFFICES ASSUME Away'
                   PROVE  /\ dispatched'[Restarter] = 0 /\ available'[Restarter] = 0
                          /\ \A k, x \in Client : ack'[Restarter][k][x] = 0
      BY DEF GoneInv
    <2>2. Away
      BY <2>1 DEF Grows
    <2>3. \A k, x \in Client : ack'[Restarter][k][x] = 0
      BY <1>1, <2>2 DEF GoneInv, Honest
    <2>4. available'[Restarter] = 0
      <3>1. available[Restarter] = 0 /\ available'[Restarter] \in Nat
        BY <1>1, <2>2, CountsAreNext DEF GoneInv
      <3>2. AckedByAll(ack'[Restarter], available'[Restarter]) => available'[Restarter] = 0
        BY <2>3, <3>1 DEF AckedByAll
      <3> QED BY <3>1, <3>2 DEF Counts
    <2> QED BY <2>2, <2>3, <2>4
  <1>6. EarlyInv'
    <2>1. SUFFICES ASSUME Away' \/ crashes' = 0
                   PROVE  /\ TruthInv'
                          /\ \A i, k \in Peer : available'[i] <= Queued(k, Restarter)'
      BY DEF EarlyInv
    <2>2. Away \/ crashes = 0
      BY <2>1 DEF Grows
    <2>3. TruthInv /\ \A i, k \in Peer : available[i] <= Queued(k, Restarter)
      BY <1>1, <2>2 DEF EarlyInv
    <2>4. TruthInv'
      <3>1. CASE \A j \in Peer : TrueAcks(j)
        <4>1. ASSUME NEW j \in Peer PROVE TrueAcks(j)'
          BY <1>1, <3>1, TrueAcksKept DEF Grows
        <4> QED BY <4>1 DEF TruthInv
      <3>2. CASE Away /\ \E c \in Nat : Floor(c)
        <4>1. PICK c \in Nat : Floor(c)
          BY <3>2
        <4>2. Floor(c)'
          BY <1>1, <3>2, <4>1, FloorKept
        <4>3. Away'
          BY <3>2 DEF Grows
        <4> QED BY <4>2, <4>3 DEF TruthInv
      <3> QED BY <2>3, <3>1, <3>2 DEF TruthInv
    <2>5. ASSUME NEW i \in Peer, NEW k \in Peer PROVE available'[i] <= Queued(k, Restarter)'
      <3>1. /\ available[i] \in Nat /\ Queued(k, Restarter) \in Nat /\ Queued(k, Restarter)' \in Nat
            /\ available[i] <= Queued(k, Restarter)
            /\ Queued(k, Restarter) <= Queued(k, Restarter)'
        BY <1>1, <2>3, CountsAre, CountsAreNext DEF Grows
      <3>2. available[i] <= Queued(k, Restarter)'
        BY <3>1
      <3> QED BY <1>1, <2>4, <3>2, CountedIsEarly
    <2> QED BY <2>4, <2>5
  <1> QED BY <1>4, <1>5, <1>6

(* A message read is the one that stood first.                               *)
LEMMA AddsGrows ==
    ASSUME Types, Types', NEW i \in Client, NEW x \in Client, NEW msg \in StreamMsg,
           Adds(At(i, x), msg, At(i, x)'), Only(i, x)
    PROVE  \A j, y \in Client : Queued(j, y) <= Queued(j, y)'
  <1>1. /\ stream[i][x] \in Beats /\ stream'[i][x] \in Beats /\ open[i][x] \in Orders
        /\ msg.item \in Item
    BY DEF Types, StreamMsg
  <1>2. \/ stream'[i][x] = stream[i][x]
        \/ stream'[i][x] = Append(stream[i][x], Append(open[i][x], msg.item))
    BY DEF Adds, At
  <1>3. Append(open[i][x], msg.item) \in Orders
    BY <1>1 DEF Orders
  <1>4. Len(stream[i][x]) \in Nat /\ Len(stream[i][x]) <= Len(stream'[i][x])
    BY <1>1, <1>2, <1>3 DEF Beats
  <1>5. ASSUME NEW j \in Client, NEW y \in Client, j # i \/ y # x
        PROVE  Queued(j, y) <= Queued(j, y)'
    <2>1. stream'[j][y] = stream[j][y]
      BY <1>5 DEF Only
    <2>2. Queued(j, y) \in Nat
      BY QueuedType
    <2> QED BY <2>1, <2>2 DEF Queued
  <1> QED BY <1>4, <1>5 DEF Queued

(* Who says something gives up nothing,                                      *)
LEMMA SaysGrows ==
    ASSUME Types, Types', NEW i \in Client, Says(i)
    PROVE  Grows
  <1> USE PeersAre
  <1>1. Playing(i) /\ Control
    BY DEF Says, Say
  <1>2. PICK msg \in StreamMsg : Say(i, msg)
    BY DEF Says
  <1>3. Away' = Away /\ crashes' = crashes
    BY <1>1 DEF Control, Away
  <1>4. \A j, x \in Client : Queued(j, x) <= Queued(j, x)'
    BY <1>2, AddsGrows DEF Say
  <1>5. ASSUME NEW m \in Peer, Away, NoMore(m)
        PROVE  NoMore(m)' /\ Queued(m, Restarter)' = Queued(m, Restarter)
    <2>1. i # Restarter
      BY <1>1, <1>5 DEF Playing, Away
    <2>2. stream'[m][Restarter] = stream[m][Restarter]
      BY <1>2, <2>1 DEF Say, Only
    <2>3. msg \in Msg /\ link' = Broadcast(link, i, msg)
      BY <1>2 DEF Say, Msg
    <2>4. link'[Restarter][m] = link[Restarter][m]
      BY <2>1, <2>3, BroadcastIs
    <2> QED BY <1>5, <2>2, <2>4 DEF NoMore, Queued
  <1> QED BY <1>3, <1>4, <1>5 DEF Grows, Calm

(* nor does who hears something,                                             *)
LEMMA HearsGrows ==
    ASSUME Types, Types', NEW i \in Client, NEW k \in Client, Hears(i, k)
    PROVE  Grows
  <1> USE PeersAre
  <1>1. Away' = Away /\ crashes' = crashes
    BY DEF Hears, Control, Away
  <1>2. \A j, x \in Client : Queued(j, x) <= Queued(j, x)'
    BY AddsGrows DEF Hears
  <1>3. ASSUME NEW m \in Peer, NoMore(m)
        PROVE  NoMore(m)' /\ Queued(m, Restarter)' = Queued(m, Restarter)
    <2>1. k # Restarter \/ i # m
      <3>1. SUFFICES ASSUME k = Restarter, i = m PROVE FALSE
        OBVIOUS
      <3>2. PICK c \in Nat : link[Restarter][m] = <<CutMsg(c)>>
        BY <1>3, <3>1 DEF NoMore, Hears
      <3>3. Head(link[Restarter][m]).op = "Cut"
        BY <3>2, CutMsgIs
      <3>4. Head(link[Restarter][m]).op \in {"Order", "Advance"}
        BY <3>1 DEF Hears, StreamMsg
      <3> QED BY <3>3, <3>4
    <2>2. stream'[m][Restarter] = stream[m][Restarter]
      BY <2>1 DEF Hears, Only
    <2>3. link'[Restarter][m] = link[Restarter][m]
      BY <2>1, RestIs DEF Hears
    <2> QED BY <1>3, <2>2, <2>3 DEF NoMore, Queued
  <1> QED BY <1>1, <1>2, <1>3 DEF Grows, Calm

(* nor one that leaves the streams alone.                                    *)
LEMMA StreamsSame ==
    ASSUME Types, UNCHANGED stream
    PROVE  \A j, x \in Client : Queued(j, x) <= Queued(j, x)' /\ Queued(j, x)' = Queued(j, x)
  <1>1. \A j, x \in Client : Queued(j, x)' = Queued(j, x) /\ Queued(j, x) \in Nat
    BY QueuedType DEF Queued
  <1> QED BY <1>1

(* A quiet step gives up nothing.                                            *)
LEMMA QuietGrows ==
    ASSUME Types, Quiet
    PROVE  Grows
  BY StreamsSame, PeersAre DEF Quiet, Control, Away, Grows, Calm, NoMore

(* TakeSeat gives up nothing a peer holds,                                   *)
LEMMA TakeSeatGrows ==
    ASSUME Types, NEW k \in Client, TakeSeat(k)
    PROVE  Grows
  <1> USE PeersAre
  <1>1. /\ k \in Peer /\ UNCHANGED <<stream, phase, crashes>> /\ link'[Restarter][k] = <<>>
        /\ \A j, l \in Client : ~(j = k /\ l = Restarter) /\ ~(j = Restarter /\ l = k)
             => link'[j][l] = link[j][l]
    BY TakeSeatIs
  <1>2. \A m \in Peer : NoMore(m) => NoMore(m)'
    BY <1>1 DEF NoMore
  <1> QED BY <1>1, <1>2, StreamsSame DEF Grows, Calm, Away

(* nor does Serve.                                                           *)
LEMMA ServeGrows ==
    ASSUME Types, NEW k \in Client, Serve(k)
    PROVE  Grows
  <1>1. UNCHANGED <<stream, link, phase, crashes>>
    BY ServeIs
  <1> QED BY <1>1, StreamsSame, PeersAre DEF Grows, Calm, Away, NoMore

(* When it settles every peer has reported, and nothing is on its way to     *)
(* one.                                                                      *)
LEMMA SettleEnds ==
    ASSUME Types, StreamInv, Settle
    PROVE  /\ \A k \in Peer : Served(k) /\ report[k] \in Report /\ link[Restarter][k] = <<>>
           /\ OldStreamEnd \in Nat
  <1> USE PeersAre
  <1>1. phase = "Asking" /\ \A k \in Peer : report[k] # NoReport
    BY DEF Settle
  <1>2. \A k \in Peer : Served(k) /\ report[k] \in Report
    BY <1>1 DEF StreamInv, ReturnInv
  <1>3. \A k \in Peer : link[Restarter][k] = <<>>
    BY <1>1, <1>2 DEF StreamInv, SeatInv, Served
  <1>4. OldStreamEnd \in Nat
    BY <1>2, OldStreamEndIs
  <1> QED BY <1>2, <1>3, <1>4

(* Settle gives up nothing: the cut is sent, not yet read.                   *)
LEMMA SettleGrows ==
    ASSUME Types, StreamInv, Settle
    PROVE  Grows /\ \A m \in Peer : link'[Restarter][m] = <<CutMsg(OldStreamEnd)>>
  <1> USE PeersAre
  <1>1. OldStreamEnd \in Nat /\ \A k \in Peer : link[Restarter][k] = <<>>
    BY SettleEnds
  <1>2. /\ phase = "Asking" /\ phase' = "CatchingUp" /\ UNCHANGED <<stream, crashes>>
        /\ \A k \in Peer : link'[Restarter][k] = Append(link[Restarter][k], CutMsg(OldStreamEnd))
    BY <1>1, SettleIs
  <1>3. ASSUME NEW m \in Peer PROVE link'[Restarter][m] = <<CutMsg(OldStreamEnd)>>
    BY <1>1, <1>2
  <1>4. \A m \in Peer : NoMore(m)'
    BY <1>1, <1>3 DEF NoMore
  <1> QED BY <1>2, <1>3, <1>4, StreamsSame DEF Grows, Calm, Away

(* Honest, by the acks that changed.                                         *)
LEMMA HonestBut ==
    ASSUME IInv, Types', Grows,
           \A j, x \in Client : ack'[j][j][x] = ack[j][j][x] \/ ack'[j][j][x] = Queued(j, x)',
           \A j, x \in Client : told'[j][j][x] = told[j][j][x],
           \A i, j \in Peer : \/ ack'[i][j][Restarter] = ack[i][j][Restarter]
                              \/ ack'[i][j][Restarter] = told[j][i][Restarter]
                              \/ ack'[i][j][Restarter] = Queued(j, Restarter)',
           \A i, j \in Peer : \/ told'[j][i][Restarter] = told[j][i][Restarter]
                              \/ told'[j][i][Restarter] = 0
                              \/ told'[j][i][Restarter] = Queued(j, Restarter)',
           Away => \A k, x \in Client : ack'[Restarter][k][x] = ack[Restarter][k][x]
    PROVE  Honest
  <1> USE PeersAre
  <1>1. ASSUME NEW j \in Client, NEW x \in Client
        PROVE  ack'[j][j][x] <= Queued(j, x)' /\ told'[j][j][x] = 0
    <2>1. /\ ack[j][j][x] \in Nat /\ Queued(j, x) \in Nat /\ Queued(j, x)' \in Nat
          /\ ack'[j][j][x] \in Nat
      BY CountsAre, CountsAreNext DEF IInv
    <2>2. ack[j][j][x] <= Queued(j, x) /\ told[j][j][x] = 0
      BY DEF IInv, AckInv, HeldInv
    <2>3. Queued(j, x) <= Queued(j, x)'
      BY DEF Grows
    <2> QED BY <2>1, <2>2, <2>3
  <1>2. ASSUME NEW i \in Peer, NEW j \in Peer
        PROVE  /\ \/ ack'[i][j][Restarter] <= ack[i][j][Restarter]
                  \/ ack'[i][j][Restarter] <= told[j][i][Restarter]
                  \/ ack'[i][j][Restarter] <= Queued(j, Restarter)'
               /\ \/ told'[j][i][Restarter] <= told[j][i][Restarter]
                  \/ told'[j][i][Restarter] <= Queued(j, Restarter)'
    <2>1. /\ ack'[i][j][Restarter] \in Nat /\ told'[j][i][Restarter] \in Nat
          /\ told[j][i][Restarter] \in Nat
      BY CountsAre, CountsAreNext DEF IInv
    <2> QED BY <2>1
  <1> QED BY <1>1, <1>2 DEF Honest

(* A step that changes no ack is honest.                                     *)
LEMMA HonestSame ==
    ASSUME IInv, Types', Grows, UNCHANGED <<ack, told>>
    PROVE  Honest
  BY HonestBut, PeersAre

(* With the sender's own streams counted no further than they go.            *)
LEMMA SteadyAcks ==
    ASSUME IInv, Types', Grows, Honest, Counts, UNCHANGED dispatched
    PROVE  GoneInv' /\ HeldInv' /\ EarlyInv'
  <1> USE PeersAre
  <1>1. ASSUME NEW i \in Client PROVE dispatched'[i] <= available'[i]
    <2>1. dispatched[i] \in Nat /\ available[i] \in Nat /\ available'[i] \in Nat
      BY CountsAre, CountsAreNext DEF IInv
    <2>2. dispatched[i] <= available[i]
      BY DEF IInv, AckInv, HeldInv
    <2>3. available[i] <= available'[i]
      BY <2>1 DEF Counts
    <2> QED BY <2>1, <2>2, <2>3
  <1>2. Away => dispatched'[Restarter] = 0
    BY DEF IInv, AckInv, GoneInv
  <1> QED BY <1>1, <1>2, SteadyKeeps

(* GiveOrder acks nothing.                                                   *)
LEMMA GiveOrderAcks ==
    ASSUME IInv, Types', NEW i \in Client, GiveOrder(i)
    PROVE  GoneInv' /\ HeldInv' /\ EarlyInv' /\ Honest /\ Grows
  <1>1. Types
    BY DEF IInv
  <1>2. Grows
    BY <1>1, GiveOrderSays, SaysGrows
  <1>3. UNCHANGED <<dispatched, available, ack, told>>
    BY DEF GiveOrder, beatVars
  <1>4. Honest
    BY <1>2, <1>3, HonestSame
  <1>5. Counts
    BY <1>3, CountsSame
  <1> QED BY <1>2, <1>3, <1>4, <1>5, SteadyAcks

(* Issue acks to its player what it holds.                                   *)
LEMMA IssueKeeps ==
    ASSUME IInv, Types', NEW i \in Client, Issue(i)
    PROVE  GoneInv' /\ HeldInv' /\ EarlyInv' /\ Honest /\ Grows
  <1> USE PeersAre
  <1>1. Types
    BY DEF IInv
  <1>2. Grows /\ Queued(i, i)' = Queued(i, i) + 1
    BY <1>1, IssueSays, SaysGrows
  <1>3. /\ ack'[i][i][i] = ack[i][i][i] \/ ack'[i][i][i] = Queued(i, i) + 1
        /\ \A k, l, y \in Client : k # i \/ l # i \/ y # i => ack'[k][l][y] = ack[k][l][y]
        /\ \A j, k \in Client : j = Restarter \/ k # Restarter => told'[j][k] = told[j][k]
        /\ UNCHANGED <<dispatched, available>>
    BY <1>1, IssueAcks
  <1>4. Away => i # Restarter
    BY DEF Issue, Playing, Away
  <1>5. Honest
    <2>1. \A j, x \in Client : ack'[j][j][x] = ack[j][j][x] \/ ack'[j][j][x] = Queued(j, x)'
      BY <1>2, <1>3
    <2>2. \A j, x \in Client : told'[j][j][x] = told[j][j][x]
      BY <1>3
    <2>3. \A a, j \in Peer : ack'[a][j][Restarter] = ack[a][j][Restarter]
      BY <1>3
    <2>4. \A a, j \in Peer : told'[j][a][Restarter] = told[j][a][Restarter]
      BY <1>3
    <2>5. Away => \A k, x \in Client : ack'[Restarter][k][x] = ack[Restarter][k][x]
      BY <1>3, <1>4
    <2> QED BY <1>2, <2>1, <2>2, <2>3, <2>4, <2>5, HonestBut
  <1>6. Counts
    BY <1>3, CountsSame
  <1> QED BY <1>2, <1>3, <1>5, <1>6, SteadyAcks

(* Dispatch runs what is counted.                                            *)
LEMMA DispatchAcks ==
    ASSUME IInv, Types', NEW i \in Client, Dispatch(i)
    PROVE  GoneInv' /\ HeldInv' /\ EarlyInv' /\ Honest /\ Grows
  <1> USE PeersAre
  <1>1. Types
    BY DEF IInv
  <1>2. Quiet /\ UNCHANGED <<available, ack, told>>
    BY DEF Dispatch, streamVars, wireVars, peerVars, returnVars, envVars, Quiet, Control
  <1>3. Grows
    BY <1>1, <1>2, QuietGrows
  <1>4. Honest
    BY <1>2, <1>3, HonestSame
  <1>5. Counts
    BY <1>2, CountsSame
  <1>6. /\ dispatched[i] < available[i] /\ dispatched'[i] = dispatched[i] + 1
        /\ \A j \in Client : j # i => dispatched'[j] = dispatched[j]
        /\ Away => i # Restarter
    BY <1>1 DEF Dispatch, Types, Playing, Away
  <1>7. ASSUME NEW j \in Client PROVE dispatched'[j] <= available'[j]
    <2>1. dispatched[j] \in Nat /\ available[j] \in Nat /\ dispatched[j] <= available[j]
      BY <1>1, CountsAre DEF IInv, AckInv, HeldInv
    <2> QED BY <1>2, <1>6, <2>1
  <1>8. Away => dispatched'[Restarter] = 0
    BY <1>6 DEF IInv, AckInv, GoneInv
  <1> QED BY <1>3, <1>4, <1>5, <1>7, <1>8, SteadyKeeps

(* ReceiveOrder acks nothing.                                                *)
LEMMA ReceiveOrderAcks ==
    ASSUME IInv, Types', NEW i \in Client, NEW k \in Client, ReceiveOrder(i, k), Counts
    PROVE  GoneInv' /\ HeldInv' /\ EarlyInv' /\ Honest /\ Grows
  <1>1. Types
    BY DEF IInv
  <1>2. Hears(i, k) /\ UNCHANGED <<ack, told, dispatched>>
    BY <1>1, ReceiveOrderHears
  <1>3. Grows
    BY <1>1, <1>2, HearsGrows
  <1>4. Honest
    BY <1>2, <1>3, HonestSame
  <1> QED BY <1>2, <1>3, <1>4, SteadyAcks

(* ReceiveAdvance acks what is held.                                         *)
LEMMA ReceiveAdvanceKeeps ==
    ASSUME IInv, Types', NEW i \in Client, NEW k \in Client, ReceiveAdvance(i, k), Counts
    PROVE  GoneInv' /\ HeldInv' /\ EarlyInv' /\ Honest /\ Grows
  <1> USE PeersAre
  <1>1. Types
    BY DEF IInv
  <1>2. Hears(i, k) /\ Queued(i, k)' = Queued(i, k) + 1
    BY <1>1, ReceiveAdvanceHears
  <1>3. Grows
    BY <1>1, <1>2, HearsGrows
  <1>4. /\ ack'[i][i][k] = ack[i][i][k] \/ ack'[i][i][k] = Queued(i, k) + 1
        /\ \A j, l, y \in Client :
             ~(j = i /\ l = i /\ y = k) /\ ~(j = i /\ l = k /\ y = k) => ack'[j][l][y] = ack[j][l][y]
        /\ \A j, l, y \in Client : j # i \/ y # k \/ ~Reaches(i, l) => told'[j][l][y] = told[j][l][y]
        /\ \A l \in Client : told'[i][l][k] = told[i][l][k] \/ told'[i][l][k] = Queued(i, k) + 1
        /\ UNCHANGED dispatched
    BY <1>1, ReceiveAdvanceAcks
  <1>5. i # k /\ (Away => i # Restarter) /\ ~Reaches(i, i)
    BY DEF ReceiveAdvance, Reads, Playing, Away, Reaches
  <1>6. Honest
    <2>1. \A j, x \in Client : ack'[j][j][x] = ack[j][j][x] \/ ack'[j][j][x] = Queued(j, x)'
      BY <1>2, <1>4, <1>5
    <2>2. \A j, x \in Client : told'[j][j][x] = told[j][j][x]
      BY <1>4, <1>5
    <2>3. \A a, j \in Peer : \/ ack'[a][j][Restarter] = ack[a][j][Restarter]
                             \/ ack'[a][j][Restarter] = Queued(j, Restarter)'
      BY <1>2, <1>4, <1>5
    <2>4. \A a, j \in Peer : \/ told'[j][a][Restarter] = told[j][a][Restarter]
                             \/ told'[j][a][Restarter] = Queued(j, Restarter)'
      BY <1>2, <1>4, <1>5
    <2>5. Away => \A l, x \in Client : ack'[Restarter][l][x] = ack[Restarter][l][x]
      BY <1>4, <1>5
    <2> QED BY <1>3, <2>1, <2>2, <2>3, <2>4, <2>5, HonestBut
  <1> QED BY <1>3, <1>4, <1>6, SteadyAcks

(* ReceiveAcks believes what was told.                                       *)
LEMMA ReceiveAcksKeeps ==
    ASSUME IInv, Types', NEW i \in Client, NEW k \in Client, ReceiveAcks(i, k), Counts
    PROVE  GoneInv' /\ HeldInv' /\ EarlyInv' /\ Honest /\ Grows
  <1> USE PeersAre
  <1>1. Types
    BY DEF IInv
  <1>2. /\ told[k][i] # Nothing /\ Quiet /\ UNCHANGED dispatched
        /\ \A x \in Client : ack'[i][k][x] = ack[i][k][x] \/ ack'[i][k][x] = told[k][i][x]
        /\ \A j, l, y \in Client : j # i \/ l # k => ack'[j][l][y] = ack[j][l][y]
        /\ \A x \in Client : told'[k][i][x] = 0
        /\ \A j, l, y \in Client : j # k \/ l # i => told'[j][l][y] = told[j][l][y]
    BY <1>1, ReceiveAcksIs
  <1>3. k # i
    <2>1. SUFFICES ASSUME k = i PROVE FALSE
      OBVIOUS
    <2>2. \A x \in Client : told[i][i][x] = 0
      BY DEF IInv, AckInv, HeldInv
    <2>3. told[i][i] \in [Client -> Nat]
      BY <1>1 DEF Types
    <2>4. told[i][i] = Nothing
      BY <2>2, <2>3 DEF Nothing
    <2> QED BY <1>2, <2>1, <2>4
  <1>4. Away => i # Restarter
    BY DEF ReceiveAcks, Playing, Away
  <1>5. Grows
    BY <1>1, <1>2, QuietGrows
  <1>6. Honest
    <2>1. \A j, x \in Client : ack'[j][j][x] = ack[j][j][x]
      BY <1>2, <1>3
    <2>2. \A j, x \in Client : told'[j][j][x] = told[j][j][x]
      BY <1>2, <1>3
    <2>3. \A a, j \in Peer : \/ ack'[a][j][Restarter] = ack[a][j][Restarter]
                             \/ ack'[a][j][Restarter] = told[j][a][Restarter]
      BY <1>2
    <2>4. \A a, j \in Peer : \/ told'[j][a][Restarter] = told[j][a][Restarter]
                             \/ told'[j][a][Restarter] = 0
      BY <1>2
    <2>5. Away => \A l, x \in Client : ack'[Restarter][l][x] = ack[Restarter][l][x]
      BY <1>2, <1>4
    <2> QED BY <1>5, <2>1, <2>2, <2>3, <2>4, <2>5, HonestBut
  <1> QED BY <1>2, <1>5, <1>6, SteadyAcks

(* TakeSeat forgets what was told on the old link.                           *)
LEMMA TakeSeatAcks ==
    ASSUME IInv, Types', NEW k \in Client, TakeSeat(k), Counts
    PROVE  GoneInv' /\ HeldInv' /\ EarlyInv' /\ Honest /\ Grows
  <1> USE PeersAre
  <1>1. Types
    BY DEF IInv
  <1>2. Grows
    BY <1>1, TakeSeatGrows
  <1>3. /\ k \in Peer /\ UNCHANGED <<dispatched, ack>>
        /\ \A j, l \in Client : ~(j = k /\ l = Restarter) /\ ~(j = Restarter /\ l = k)
             => told'[j][l] = told[j][l]
    BY <1>1, TakeSeatIs
  <1>4. /\ \A j, x \in Client : told'[j][j][x] = told[j][j][x]
        /\ \A i, j \in Peer : told'[j][i][Restarter] = told[j][i][Restarter]
    BY <1>3
  <1>5. Honest
    BY <1>2, <1>3, <1>4, HonestBut
  <1> QED BY <1>2, <1>3, <1>5, SteadyAcks

(* Serve tells the restarter, and no peer.                                   *)
LEMMA ServeAcks ==
    ASSUME IInv, Types', NEW k \in Client, Serve(k), Counts
    PROVE  GoneInv' /\ HeldInv' /\ EarlyInv' /\ Honest /\ Grows
  <1> USE PeersAre
  <1>1. Types
    BY DEF IInv
  <1>2. Grows
    BY <1>1, ServeGrows
  <1>3. /\ k \in Peer /\ UNCHANGED <<dispatched, ack>>
        /\ \A j, l \in Client : j # k \/ l # Restarter => told'[j][l] = told[j][l]
    BY <1>1, ServeIs
  <1>4. /\ \A j, x \in Client : told'[j][j][x] = told[j][j][x]
        /\ \A i, j \in Peer : told'[j][i][Restarter] = told[j][i][Restarter]
    BY <1>3
  <1>5. Honest
    BY <1>2, <1>3, <1>4, HonestBut
  <1> QED BY <1>2, <1>3, <1>5, SteadyAcks

(* Settle tells nobody of an ack.                                            *)
LEMMA SettleAcks ==
    ASSUME IInv, Types', Settle, Counts
    PROVE  GoneInv' /\ HeldInv' /\ EarlyInv' /\ Honest /\ Grows
  <1>1. Types /\ StreamInv
    BY DEF IInv
  <1>2. Grows
    BY <1>1, SettleGrows
  <1>3. UNCHANGED <<dispatched, ack, told>>
    BY DEF Settle
  <1>4. Honest
    BY <1>2, <1>3, HonestSame
  <1> QED BY <1>2, <1>3, <1>4, SteadyAcks

(* PullNothing counts what everybody acked.                                  *)
LEMMA PullNothingAcks ==
    ASSUME IInv, Types', NEW i \in Client, PullNothing(i), Counts
    PROVE  GoneInv' /\ HeldInv' /\ EarlyInv' /\ Honest /\ Grows
  <1>1. Types
    BY DEF IInv
  <1>2. Quiet /\ UNCHANGED <<dispatched, ack, told>>
    BY DEF PullNothing, streamVars, wireVars, peerVars, returnVars, envVars, Quiet, Control
  <1>3. Grows
    BY <1>1, <1>2, QuietGrows
  <1>4. Honest
    BY <1>2, <1>3, HonestSame
  <1> QED BY <1>2, <1>3, <1>4, SteadyAcks

(* Nothing happens.                                                          *)
LEMMA StutterAcks ==
    ASSUME IInv, Types', UNCHANGED vars
    PROVE  GoneInv' /\ HeldInv' /\ EarlyInv' /\ Honest /\ Grows
  <1>1. Types
    BY DEF IInv
  <1>2. Quiet /\ UNCHANGED <<dispatched, available, ack, told>>
    BY DEF vars, streamVars, beatVars, wireVars, peerVars, returnVars, envVars, Quiet, Control
  <1>3. Grows
    BY <1>1, <1>2, QuietGrows
  <1>4. Honest
    BY <1>2, <1>3, HonestSame
  <1>5. Counts
    BY <1>2, CountsSame
  <1> QED BY <1>2, <1>3, <1>4, <1>5, SteadyAcks

(* On its way from the restarter there are orders and advances of its old    *)
(* run, or else a cut.                                                       *)
LEMMA OldOrCut ==
    ASSUME StreamInv, Away, NEW k \in Peer
    PROVE  \/ link[Restarter][k] \in Seq(StreamMsg)
           \/ \E c \in Nat : link[Restarter][k] = <<CutMsg(c)>>
  <1>1. PICK T \in Beats : OldWay(k, T)
    BY DEF StreamInv, OldInv
  <1> QED BY <1>1 DEF OldWay, Leads

(* Messages of a stream are no cut.                                          *)
LEMMA NoCutInside ==
    ASSUME NEW msgs \in Seq(StreamMsg), NEW c \in Nat
    PROVE  msgs # <<CutMsg(c)>>
  <1>1. SUFFICES ASSUME msgs = <<CutMsg(c)>> PROVE FALSE
    OBVIOUS
  <1>2. msgs[1] \in StreamMsg
    BY <1>1
  <1>3. msgs[1] = CutMsg(c)
    BY <1>1
  <1>4. CutMsg(c).op = "Cut"
    BY CutMsgIs
  <1> QED BY <1>2, <1>3, <1>4 DEF StreamMsg

(* Cuts stay floors while nothing held is given up and no cut is made.       *)
LEMMA FloorSteady ==
    ASSUME IInv, Types', Grows, Honest,
           Away /\ phase' = "CatchingUp" => phase = "CatchingUp" /\ cut' = cut,
           Away => \A k \in Peer : \A c \in Nat :
             link'[Restarter][k] = <<CutMsg(c)>> => link[Restarter][k] = <<CutMsg(c)>>
    PROVE  FloorInv'
  <1>1. Types /\ FloorInv /\ Away' = Away
    BY DEF IInv, AckInv, Grows
  <1>2. Away' => \A k \in Peer : \A c \in Nat : link'[Restarter][k] = <<CutMsg(c)>> => Floor(c)'
    <2>1. SUFFICES ASSUME Away, NEW k \in Peer, NEW c \in Nat, link[Restarter][k] = <<CutMsg(c)>>
                   PROVE  Floor(c)'
      BY <1>1
    <2>2. Floor(c)
      BY <1>1, <2>1 DEF FloorInv
    <2> QED BY <1>1, <2>1, <2>2, FloorKept
  <1>3. ASSUME phase' = "CatchingUp" PROVE Floor(cut)'
    <2>1. Away
      BY <1>1, <1>3 DEF Away
    <2>2. Floor(cut) /\ cut' = cut /\ cut \in Nat
      BY <1>1, <1>3, <2>1 DEF FloorInv, Types
    <2>3. PICK c \in Nat : c = cut
      BY <2>2
    <2>4. Floor(c)'
      BY <1>1, <2>1, <2>2, <2>3, FloorKept
    <2> QED BY <2>2, <2>3, <2>4 DEF Floor
  <1> QED BY <1>2, <1>3 DEF FloorInv

(* So while nothing is read from the restarter.                              *)
LEMMA FloorUpKept ==
    ASSUME IInv, Types', Grows, Honest, UNCHANGED <<phase, cut>>,
           Away => \A k \in Peer : link'[Restarter][k] = link[Restarter][k]
    PROVE  FloorInv'
  BY FloorSteady

(* Who says something keeps the floor,                                       *)
LEMMA SaysFloor ==
    ASSUME IInv, Types', NEW i \in Client, Says(i), Grows, Honest
    PROVE  FloorInv'
  <1> USE PeersAre
  <1>1. PICK msg \in StreamMsg : Say(i, msg)
    BY DEF Says
  <1>2. Away => i # Restarter
    BY DEF Says, Playing, Away
  <1>3. msg \in Msg /\ link' = Broadcast(link, i, msg)
    BY <1>1 DEF Say, Msg
  <1>4. Away => \A k \in Peer : link'[Restarter][k] = link[Restarter][k]
    BY <1>2, <1>3, BroadcastIs DEF IInv
  <1>5. UNCHANGED <<phase, cut>>
    BY <1>1 DEF Say, Control
  <1> QED BY <1>4, <1>5, FloorUpKept

(* and who hears something: what comes before a cut is gone by then.         *)
LEMMA HearsFloor ==
    ASSUME IInv, Types', NEW i \in Client, NEW k \in Client, Hears(i, k), Grows, Honest
    PROVE  FloorInv'
  <1> USE PeersAre
  <1>1. UNCHANGED <<phase, cut>>
    BY DEF Hears, Control
  <1>2. ASSUME Away, NEW j \in Peer, NEW c \in Nat, link'[Restarter][j] = <<CutMsg(c)>>
        PROVE  link[Restarter][j] = <<CutMsg(c)>>
    <2>1. CASE k # Restarter \/ i # j
      <3>1. link'[Restarter][j] = link[Restarter][j]
        BY <2>1, RestIs DEF Hears, IInv
      <3> QED BY <1>2, <3>1
    <2>2. CASE k = Restarter /\ i = j
      <3>1. link'[Restarter][j] = Tail(link[Restarter][j]) /\ link[Restarter][j] # <<>>
        BY <2>2, RestIs DEF Hears, IInv
      <3>2. Head(link[Restarter][j]) \in StreamMsg
        BY <2>2 DEF Hears
      <3>3. ~ \E d \in Nat : link[Restarter][j] = <<CutMsg(d)>>
        BY <3>2, CutMsgIs DEF StreamMsg
      <3>4. link[Restarter][j] \in Seq(StreamMsg)
        BY <1>2, <3>3, OldOrCut DEF IInv
      <3>5. Tail(link[Restarter][j]) \in Seq(StreamMsg)
        BY <3>1, <3>4
      <3> QED BY <1>2, <3>1, <3>5, NoCutInside
    <2> QED BY <2>1, <2>2
  <1> QED BY <1>1, <1>2, FloorSteady

(* A quiet step keeps it.                                                    *)
LEMMA QuietFloor ==
    ASSUME IInv, Types', Quiet, Grows, Honest
    PROVE  FloorInv'
  BY FloorUpKept DEF Quiet, Control

(* TakeSeat empties the link a cut would be on.                              *)
LEMMA TakeSeatFloor ==
    ASSUME IInv, Types', NEW k \in Client, TakeSeat(k), Grows, Honest
    PROVE  FloorInv'
  <1> USE PeersAre
  <1>1. /\ k \in Peer /\ UNCHANGED <<phase, cut>> /\ link'[Restarter][k] = <<>>
        /\ \A j, l \in Client : ~(j = k /\ l = Restarter) /\ ~(j = Restarter /\ l = k)
             => link'[j][l] = link[j][l]
    BY TakeSeatIs DEF IInv
  <1>2. \A j \in Peer : \A c \in Nat :
          link'[Restarter][j] = <<CutMsg(c)>> => link[Restarter][j] = <<CutMsg(c)>>
    BY <1>1
  <1> QED BY <1>1, <1>2, FloorSteady

(* Serve sends the restarter something, and no peer.                         *)
LEMMA ServeFloor ==
    ASSUME IInv, Types', NEW k \in Client, Serve(k), Grows, Honest
    PROVE  FloorInv'
  BY FloorUpKept, ServeIs DEF IInv

(* What is settled on is such a floor.                                       *)
LEMMA SettledFloor ==
    ASSUME IInv, Settle
    PROVE  Floor(OldStreamEnd)
  <1> USE PeersAre
  <1>1. Types /\ StreamInv /\ TruthInv /\ phase = "Asking"
    BY DEF IInv, AckInv, EarlyInv, Settle, Away
  <1>2. /\ \A k \in Peer : Served(k) /\ report[k] \in Report /\ link[Restarter][k] = <<>>
        /\ OldStreamEnd \in Nat
    BY <1>1, SettleEnds
  <1>3. \A k \in Peer : report[k].queued[Restarter] = Queued(k, Restarter)
    BY <1>1, <1>2 DEF StreamInv, BacklogInv, ReportInv, Queued
  <1>4. /\ \A k \in Peer : OldStreamEnd <= Queued(k, Restarter)
        /\ \E k \in Peer : OldStreamEnd = Queued(k, Restarter)
    BY <1>1, <1>2, <1>3, OldStreamEndIs
  <1>5. \A k \in Peer : NoMore(k)
    BY <1>2 DEF NoMore
  <1>6. CASE \A j \in Peer : TrueAcks(j)
    BY <1>4, <1>5, <1>6 DEF Floor
  <1>7. CASE \E c \in Nat : Floor(c)
    <2>1. PICK c \in Nat : Floor(c)
      BY <1>7
    <2>2. \A k \in Peer : Queued(k, Restarter) \in Nat
      BY <1>1, CountsAre
    <2>3. c = OldStreamEnd
      BY <1>2, <1>4, <2>1, <2>2 DEF Floor
    <2> QED BY <2>1, <2>3
  <1> QED BY <1>1, <1>6, <1>7 DEF TruthInv

(* The new cut is a floor.                                                   *)
LEMMA SettleFloor ==
    ASSUME IInv, Types', Settle, Grows, Honest
    PROVE  FloorInv'
  <1> USE PeersAre
  <1>1. Types /\ StreamInv /\ Away
    BY DEF IInv, Settle, Away
  <1>2. OldStreamEnd \in Nat /\ Floor(OldStreamEnd)
    BY <1>1, SettleEnds, SettledFloor
  <1>3. PICK e \in Nat : e = OldStreamEnd
    BY <1>2
  <1>4. Floor(e)'
    BY <1>1, <1>2, <1>3, FloorKept
  <1>5. cut' = e
    BY <1>1, <1>2, <1>3, SettleIs
  <1>6. \A m \in Peer : link'[Restarter][m] = <<CutMsg(e)>>
    BY <1>1, <1>3, SettleGrows
  <1>7. \A c \in Nat : <<CutMsg(c)>> = <<CutMsg(e)>> => c = e
    <2>1. SUFFICES ASSUME NEW c \in Nat, <<CutMsg(c)>> = <<CutMsg(e)>> PROVE c = e
      OBVIOUS
    <2>2. CutMsg(c) = CutMsg(e)
      BY <2>1
    <2> QED BY <2>2, CutMsgIs
  <1>8. \A c \in Nat : c = e => Floor(c)'
    BY <1>4
  <1>9. Floor(cut)'
    BY <1>4, <1>5 DEF Floor
  <1> QED BY <1>6, <1>7, <1>8, <1>9 DEF FloorInv

-----------------------------------------------------------------------------
(* Going back to the cut: all cuts are the same floor, and it stays one.     *)
LEMMA CutKeepsFloor ==
    ASSUME IInv, Types', NEW k \in Peer, ReceiveCut(k), NEW e \in Nat,
           e = Head(link[Restarter][k]).cut
    PROVE  /\ Floor(e)' /\ Queued(k, Restarter)' = e
           /\ \A j, x \in Client : j # k \/ x # Restarter => Queued(j, x)' = Queued(j, x)
           /\ link'[Restarter][k] = <<>>
           /\ \A j \in Peer : j # k => link'[Restarter][j] = link[Restarter][j]
           /\ \A i, j, x \in Client : i # k \/ x # Restarter => ack'[i][j][x] = ack[i][j][x]
           /\ \A j \in Client : ack'[k][j][Restarter] <= e
           /\ UNCHANGED <<dispatched, told>> /\ Control
  <1> USE PeersAre
  <1>1. Types /\ StreamInv
    BY DEF IInv
  <1>2. GoesBack(k) /\ Floor(e)
    BY CutsGoBack
  <1>3. /\ link[Restarter][k] # <<>> /\ link' = Rest(k, Restarter)
        /\ Only(k, Restarter)
        /\ stream'[k][Restarter] = SubSeq(stream[k][Restarter], 1, e)
        /\ \A i, j, x \in Client : i # k \/ x # Restarter => ack'[i][j][x] = ack[i][j][x]
        /\ \A j \in Client : /\ ack'[k][j][Restarter] <= e
                             /\ ack'[k][j][Restarter] <= ack[k][j][Restarter]
        /\ UNCHANGED <<dispatched, told>> /\ Control
    BY <1>1, <1>2, ReceiveCutIs
  <1>4. link'[Restarter][k] = <<>> /\ \A j \in Peer : j # k => link'[Restarter][j] = link[Restarter][j]
    <2>1. Tail(link[Restarter][k]) = <<>>
      BY <1>1, CutIsTheRest
    <2>2. /\ link'[Restarter][k] = Tail(link[Restarter][k])
          /\ \A j, l \in Client : j # Restarter \/ l # k => link'[j][l] = link[j][l]
      <3>1. link[Restarter][k] # <<>> /\ link' = Rest(k, Restarter)
        BY <1>3
      <3> QED BY <1>1, <3>1, RestIs
    <2> QED BY <2>1, <2>2
  <1>5. Queued(k, Restarter)' = e
    <2>1. e <= Len(stream[k][Restarter]) /\ stream[k][Restarter] \in Beats
      BY <1>1, <1>2 DEF GoesBack, Queued, Types
    <2>2. Len(SubSeq(stream[k][Restarter], 1, e)) = e
      BY <2>1, CutAt
    <2> QED BY <1>3, <2>2 DEF Queued
  <1>6. \A j, x \in Client : j # k \/ x # Restarter => Queued(j, x)' = Queued(j, x)
    BY <1>3 DEF Only, Queued
  <1>7. Floor(e)'
    <2>1. \A j \in Peer : e <= Queued(j, Restarter)'
      BY <1>2, <1>5, <1>6 DEF Floor
    <2>2. PICK m \in Peer : TrueAcks(m) /\ NoMore(m) /\ Queued(m, Restarter) = e
      BY <1>2 DEF Floor
    <2>3. Queued(m, Restarter)' = e
      BY <1>5, <1>6, <2>2
    <2>4. NoMore(m)'
      BY <1>4, <2>2 DEF NoMore
    <2>5. ASSUME NEW i \in Peer
          PROVE  ack'[i][m][Restarter] <= e /\ told'[m][i][Restarter] <= e
      <3>1. ack[i][m][Restarter] <= e /\ told[m][i][Restarter] <= e
        BY <2>2 DEF TrueAcks
      <3>2. ack'[i][m][Restarter] <= e
        BY <1>3, <3>1
      <3> QED BY <1>3, <3>1, <3>2
    <2>6. TrueAcks(m)'
      BY <2>3, <2>5 DEF TrueAcks
    <2> QED BY <2>1, <2>3, <2>4, <2>6 DEF Floor
  <1> QED BY <1>3, <1>4, <1>5, <1>6, <1>7

(* ApplyCut keeps what is said of acks: what was acked past the cut is taken *)
(* back.                                                                     *)
LEMMA ReceiveCutAcks ==
    ASSUME IInv, Types', NEW k \in Peer, ReceiveCut(k), StepAvailable(k)
    PROVE  GoneInv' /\ HeldInv' /\ EarlyInv' /\ FloorInv'
  <1> USE PeersAre
  <1>1. Types /\ StreamInv
    BY DEF IInv
  <1>2. PICK e \in Nat : e = Head(link[Restarter][k]).cut
    BY <1>1, CutIsTheRest
  <1>3. Away /\ Floor(e)
    BY <1>1, <1>2, CutIsTheRest, CutsGoBack
  <1>4. /\ Floor(e)' /\ Queued(k, Restarter)' = e
        /\ \A j, x \in Client : j # k \/ x # Restarter => Queued(j, x)' = Queued(j, x)
        /\ link'[Restarter][k] = <<>>
        /\ \A j \in Peer : j # k => link'[Restarter][j] = link[Restarter][j]
        /\ \A i, j, x \in Client : i # k \/ x # Restarter => ack'[i][j][x] = ack[i][j][x]
        /\ \A j \in Client : ack'[k][j][Restarter] <= e
        /\ UNCHANGED <<dispatched, told>> /\ Control
    BY <1>2, CutKeepsFloor
  <1>5. Counts /\ \A j \in Client : j # k => available'[j] = available[j]
    <2>1. ack' \in [Client -> [Client -> [Client -> Nat]]]
      BY DEF Types
    <2> QED BY <1>1, <2>1, CountsStep, AvailableIs
  <1>6. HeldInv'
    <2>1. ASSUME NEW i \in Client, NEW x \in Client
          PROVE  ack'[i][i][x] <= Queued(i, x)' /\ available[i] <= Queued(i, x)'
      <3>1. ack[i][i][x] <= Queued(i, x) /\ available[i] <= Queued(i, x)
        BY DEF IInv, AckInv, HeldInv
      <3>2. available[k] <= e
        BY <1>3, CutFits
      <3> QED BY <1>4, <3>1, <3>2
    <2>2. \A i, x \in Client : available'[i] <= Queued(i, x)'
      BY <1>1, <1>5, <2>1, CountedIsHeld
    <2>3. \A i, x \in Client : told'[i][i][x] = 0
      BY <1>4 DEF IInv, AckInv, HeldInv
    <2>4. ASSUME NEW i \in Client PROVE available'[i] <= MaxBeat /\ dispatched'[i] <= available'[i]
      <3>1. dispatched[i] \in Nat /\ available[i] \in Nat /\ available'[i] \in Nat
        BY <1>1, CountsAre, CountsAreNext
      <3>2. available[i] <= MaxBeat /\ dispatched[i] <= available[i]
        BY DEF IInv, AckInv, HeldInv
      <3>3. available'[i] <= MaxBeat /\ available[i] <= available'[i]
        BY <1>5, <3>1, <3>2 DEF Counts
      <3> QED BY <1>4, <3>1, <3>2, <3>3
    <2> QED BY <2>1, <2>2, <2>3, <2>4 DEF HeldInv
  <1>7. GoneInv'
    BY <1>3, <1>4, <1>5 DEF IInv, AckInv, GoneInv
  <1>8. Away'
    BY <1>3, <1>4 DEF Control, Away
  <1>9. EarlyInv'
    <2>1. TruthInv'
      BY <1>4, <1>8 DEF TruthInv
    <2>2. ASSUME NEW i \in Peer, NEW j \in Peer PROVE available'[i] <= Queued(j, Restarter)'
      <3>1. available[i] <= e
        BY <1>3, CutFits
      <3>2. e <= Queued(j, Restarter)'
        BY <1>4 DEF Floor
      <3>3. available[i] \in Nat /\ Queued(j, Restarter)' \in Nat
        BY <1>1, CountsAre, CountsAreNext
      <3>4. available[i] <= Queued(j, Restarter)'
        BY <3>1, <3>2, <3>3
      <3> QED BY <1>1, <1>5, <2>1, <3>4, CountedIsEarly
    <2> QED BY <2>1, <2>2 DEF EarlyInv
  <1>10. FloorInv'
    <2>1. \A c \in Nat : Floor(c) => c = e
      BY <1>1, <1>3, OneFloor
    <2>2. \A c \in Nat : c = e => Floor(c)'
      BY <1>4
    <2>3. ASSUME NEW j \in Peer, NEW c \in Nat, link'[Restarter][j] = <<CutMsg(c)>> PROVE Floor(c)'
      <3>3. /\ link'[Restarter][k] = <<>>
            /\ j # k => link'[Restarter][j] = link[Restarter][j]
        BY <1>4
      <3>4. j # k
        <4>1. <<CutMsg(c)>> # <<>>
          OBVIOUS
        <4> QED BY <2>3, <3>3, <4>1
      <3>1. link[Restarter][j] = <<CutMsg(c)>>
        BY <2>3, <3>3, <3>4
      <3>2. Floor(c)
        BY <1>3, <3>1 DEF IInv, AckInv, FloorInv
      <3> QED BY <2>1, <2>2, <3>2
    <2>4. ASSUME phase' = "CatchingUp" PROVE Floor(cut)'
      <3>1. Floor(cut) /\ cut \in Nat /\ cut' = cut
        BY <1>1, <1>4, <2>4 DEF IInv, AckInv, FloorInv, Types, Control
      <3>2. cut' = e
        BY <2>1, <3>1
      <3> QED BY <1>4, <3>2 DEF Floor
    <2> QED BY <2>3, <2>4 DEF FloorInv
  <1> QED BY <1>6, <1>7, <1>9, <1>10

(* A crash changes nothing between the peers.                                *)
LEMMA CrashKeepsFloor ==
    ASSUME Types, Crash
    PROVE  /\ \A j \in Peer : TrueAcks(j) => TrueAcks(j)'
           /\ \A c \in Nat : Floor(c) => Floor(c)'
  <1> USE PeersAre
  <1>1. /\ \A i, x \in Client : i # Restarter => stream'[i][x] = stream[i][x]
        /\ \A i \in Client : i # Restarter => ack'[i] = ack[i]
        /\ \A j, k \in Client : k # Restarter => link'[j][k] = link[j][k]
        /\ \A j, k \in Client : k # Restarter => told'[j][k] = told[j][k]
    BY CrashIs
  <1>2. \A j \in Peer : Queued(j, Restarter)' = Queued(j, Restarter)
    BY <1>1 DEF Queued
  <1>3. ASSUME NEW j \in Peer, TrueAcks(j) PROVE TrueAcks(j)'
    BY <1>1, <1>2, <1>3 DEF TrueAcks
  <1>4. \A j \in Peer : NoMore(j) => NoMore(j)'
    BY <1>1 DEF NoMore
  <1>5. ASSUME NEW c \in Nat, Floor(c) PROVE Floor(c)'
    <2>1. \A k \in Peer : c <= Queued(k, Restarter)'
      BY <1>2, <1>5 DEF Floor
    <2>2. PICK m \in Peer : TrueAcks(m) /\ NoMore(m) /\ Queued(m, Restarter) = c
      BY <1>5 DEF Floor
    <2>3. TrueAcks(m)' /\ NoMore(m)' /\ Queued(m, Restarter)' = c
      BY <1>2, <1>3, <1>4, <2>2
    <2> QED BY <2>1, <2>3 DEF Floor
  <1> QED BY <1>3, <1>5

(* A crash keeps what is said of acks.                                       *)
LEMMA CrashAcks ==
    ASSUME IInv, Types', Crash
    PROVE  AckInv'
  <1> USE PeersAre
  <1>1. Types /\ StreamInv /\ HeldInv /\ FloorInv /\ EarlyInv
    BY DEF IInv, AckInv
  <1>2. /\ crashes > 0 => Away
        /\ phase' = "Asking" /\ lost' = Peer
        /\ \A x \in Client : stream'[Restarter][x] = <<>>
        /\ \A i, x \in Client : i # Restarter => stream'[i][x] = stream[i][x]
        /\ dispatched'[Restarter] = 0 /\ available'[Restarter] = 0
        /\ \A i \in Client : i # Restarter => dispatched'[i] = dispatched[i] /\ available'[i] = available[i]
        /\ \A k, x \in Client : ack'[Restarter][k][x] = 0
        /\ \A i \in Client : i # Restarter => ack'[i] = ack[i]
        /\ \A j, k \in Client : k # Restarter => link'[j][k] = link[j][k]
        /\ \A k, x \in Client : told'[k][Restarter][x] = 0
        /\ \A j, k \in Client : k # Restarter => told'[j][k] = told[j][k]
    BY <1>1, CrashIs DEF Away
  <1>3. Away'
    BY <1>2 DEF Away
  <1>4. GoneInv'
    BY <1>2 DEF GoneInv
  <1>5. HeldInv'
    <2>1. ASSUME NEW i \in Client, i # Restarter
          PROVE  /\ \A x \in Client : /\ ack'[i][i][x] <= Queued(i, x)'
                                      /\ told'[i][i][x] = 0
                                      /\ available'[i] <= Queued(i, x)'
                 /\ available'[i] <= MaxBeat
                 /\ dispatched'[i] <= available'[i]
      <3>1. \A x \in Client : Queued(i, x)' = Queued(i, x)
        BY <1>2, <2>1 DEF Queued
      <3>2. /\ \A x \in Client : /\ ack[i][i][x] <= Queued(i, x)
                                 /\ told[i][i][x] = 0
                                 /\ available[i] <= Queued(i, x)
            /\ available[i] <= MaxBeat
            /\ dispatched[i] <= available[i]
        BY <1>1 DEF HeldInv
      <3>3. ack'[i] = ack[i] /\ told'[i][i] = told[i][i] /\ available'[i] = available[i]
            /\ dispatched'[i] = dispatched[i]
        BY <1>2, <2>1
      <3> QED BY <3>1, <3>2, <3>3
    <2>2. \A x \in Client : /\ ack'[Restarter][Restarter][x] <= Queued(Restarter, x)'
                            /\ told'[Restarter][Restarter][x] = 0
                            /\ available'[Restarter] <= Queued(Restarter, x)'
      BY <1>2 DEF Queued
    <2>3. available'[Restarter] <= MaxBeat /\ dispatched'[Restarter] <= available'[Restarter]
      BY <1>2
    <2> QED BY <2>1, <2>2, <2>3 DEF HeldInv
  <1>6. /\ \A j \in Peer : TrueAcks(j) => TrueAcks(j)'
        /\ \A c \in Nat : Floor(c) => Floor(c)'
    BY <1>1, CrashKeepsFloor
  <1>7. EarlyInv'
    <2>1. Away \/ crashes = 0
      <3>1. crashes \in Nat
        BY <1>1, CountsAre
      <3> QED BY <1>2, <3>1
    <2>2. TruthInv /\ \A i, k \in Peer : available[i] <= Queued(k, Restarter)
      BY <1>1, <2>1 DEF EarlyInv
    <2>3. TruthInv'
      BY <1>3, <1>6, <2>2 DEF TruthInv
    <2>4. \A k \in Peer : Queued(k, Restarter)' = Queued(k, Restarter)
      BY <1>2 DEF Queued
    <2>5. \A i \in Peer : available'[i] = available[i]
      BY <1>2
    <2>6. \A i, k \in Peer : available'[i] <= Queued(k, Restarter)'
      BY <2>2, <2>4, <2>5
    <2> QED BY <2>3, <2>6 DEF EarlyInv
  <1>8. FloorInv'
    <2>1. ASSUME NEW k \in Peer, NEW c \in Nat, link'[Restarter][k] = <<CutMsg(c)>> PROVE Floor(c)'
      <3>1. link[Restarter][k] = <<CutMsg(c)>>
        BY <1>2, <2>1
      <3>2. Away
        <4>1. SUFFICES ASSUME phase = "Up" PROVE FALSE
          BY DEF Away
        <4>2. Leads(At(k, Restarter), link[Restarter][k], At(Restarter, Restarter))
          BY <1>1, <4>1 DEF StreamInv, FlowInv, Playing
        <4>3. link[Restarter][k] \in Seq(StreamMsg)
          BY <4>2 DEF Leads
        <4> QED BY <3>1, <4>3, NoCutInside
      <3> QED BY <1>1, <1>6, <3>1, <3>2 DEF FloorInv
    <2> QED BY <1>2, <2>1 DEF FloorInv
  <1>9. RunInv'
    BY <1>2 DEF RunInv, Served
  <1> QED BY <1>4, <1>5, <1>7, <1>8, <1>9 DEF AckInv

-----------------------------------------------------------------------------
(* What the restarter takes over from the recording it holds.                *)
LEMMA RebuiltReach ==
    ASSUME IInv, Prompt, FinishCatchUp
    PROVE  LET d == report[Recorder].dispatched
           IN  /\ d \in Nat /\ d <= MaxBeat
               /\ \A x \in Client : Len(Rebuilt(x)) \in Nat /\ d <= Len(Rebuilt(x))
  <1> USE PeersAre
  <1>1. Types /\ StreamInv
    BY DEF IInv
  <1>2. Reported /\ \A k \in Peer : Served(k) /\ ReportInv(k)
    BY <1>1, AllBack
  <1>3. PICK d \in Nat : d = report[Recorder].dispatched
    BY <1>2 DEF Reported, Report
  <1>4. d <= dispatched[Recorder] /\ \A x \in Peer : d <= report[Recorder].queued[x]
    BY <1>2, <1>3 DEF IInv, AckInv, RunInv, Ran
  <1>5. /\ dispatched[Recorder] \in Nat /\ available[Recorder] \in Nat
        /\ \A x \in Client : Queued(Recorder, x) \in Nat
    BY <1>1, CountsAre
  <1>6. /\ dispatched[Recorder] <= available[Recorder] /\ available[Recorder] <= MaxBeat
        /\ available[Recorder] <= Queued(Recorder, Restarter)
    BY DEF IInv, AckInv, HeldInv
  <1>7. d <= MaxBeat
    BY <1>4, <1>5, <1>6
  <1>8. \A x \in Client : Rebuilt(x) \in Beats
    BY <1>1, <1>2, RebuiltType
  <1>9. \A x \in Client : Len(Rebuilt(x)) \in Nat
    BY <1>8 DEF Beats
  <1>10. d <= Len(Rebuilt(Restarter))
    <2>1. stream[Recorder][Restarter] = Rebuilt(Restarter)
      BY <1>1, OldRebuilt
    <2> QED BY <1>4, <1>5, <1>6, <2>1 DEF Queued
  <1>11. ASSUME NEW x \in Peer PROVE d <= Len(Rebuilt(x))
    <2>1. /\ report[Recorder] \in Report /\ report[x] \in Report
          /\ report[Recorder].queued[x] = Len(report[Recorder].beats[x])
      BY <1>2 DEF Reported
    <2>2. report[Recorder].beats[x] \in Beats
      BY <2>1 DEF Report
    <2>3. CASE x = Recorder
      BY <1>4, <2>1, <2>3 DEF Rebuilt
    <2>4. CASE x # Recorder
      <3>1. PICK a \in Nat, n \in Nat : a = RecordedThrough(x) + 1 /\ n = report[x].queued[x]
        BY <2>1 DEF RecordedThrough, Report
      <3>2. PICK B \in Beats, S \in Beats : B = report[Recorder].beats[x] /\ S = report[x].beats[x]
        BY <2>1 DEF Report
      <3>3. Rebuilt(x) = B \o SubSeq(S, a, n)
        BY <2>4, <3>1, <3>2 DEF Rebuilt
      <3>4. n = Len(S) /\ a >= 1
        BY <1>2, <2>1, <3>1, <3>2 DEF Reported, RecordedThrough, Report
      <3>5. SubSeq(S, a, n) \in Beats
        BY <3>2, <3>4 DEF Beats
      <3>6. Len(B) <= Len(B \o SubSeq(S, a, n))
        <4>1. PICK E \in Beats : E = SubSeq(S, a, n)
          BY <3>5
        <4>2. Len(B \o E) = Len(B) + Len(E) /\ Len(B) \in Nat /\ Len(E) \in Nat
          BY <3>2, <4>1 DEF Beats
        <4>3. Len(B) <= Len(B \o E)
          BY <4>2
        <4> QED BY <4>1, <4>3
      <3>7. d <= Len(B) /\ Len(B) \in Nat
        BY <1>4, <2>1, <3>2 DEF Beats
      <3>8. Len(B \o SubSeq(S, a, n)) \in Nat
        BY <1>9, <3>3
      <3> QED BY <3>3, <3>6, <3>7, <3>8
    <2> QED BY <2>3, <2>4
  <1>12. \A x \in Client : d <= Len(Rebuilt(x))
    BY <1>10, <1>11
  <1> QED BY <1>3, <1>7, <1>9, <1>12

(* The restarter comes back with acks of what it holds and no more.          *)
LEMMA FinishAcks ==
    ASSUME IInv, Types', Prompt, FinishCatchUp, StepAvailable(Restarter)
    PROVE  AckInv'
  <1> USE PeersAre
  <1>1. Types /\ StreamInv /\ HeldInv
    BY DEF IInv, AckInv
  <1>2. Reported
    BY <1>1, AllBack
  <1>3. PICK d \in Nat : d = report[Recorder].dispatched
    BY <1>2 DEF Reported, Report
  <1>4. d <= MaxBeat /\ \A x \in Client : Len(Rebuilt(x)) \in Nat /\ d <= Len(Rebuilt(x))
    BY <1>3, RebuiltReach
  <1>5. /\ phase = "CatchingUp" /\ phase' = "Up"
        /\ \A x \in Client : stream'[Restarter][x] = Rebuilt(x)
        /\ \A i, x \in Client : i # Restarter => stream'[i][x] = stream[i][x]
        /\ dispatched'[Restarter] = d
        /\ \A i \in Client : i # Restarter => dispatched'[i] = dispatched[i]
        /\ \A k, x \in Client : ack'[Restarter][k][x] = Len(Rebuilt(x))
        /\ \A i \in Client : i # Restarter => ack'[i] = ack[i]
        /\ \A x \in Client : told'[Restarter][Restarter][x] = 0
        /\ \A i, k \in Client : i # Restarter /\ k # Restarter => told'[i][k] = told[i][k]
        /\ crashes' = crashes
    BY <1>1, <1>2, <1>3, FinishCatchUpIs
  <1>6. /\ \A j \in Client : j # Restarter => available'[j] = available[j]
        /\ \A b \in Nat : b <= MaxBeat /\ AckedByAll(ack'[Restarter], b) => b <= available'[Restarter]
        /\ Counts
    <2>1. ack' \in [Client -> [Client -> [Client -> Nat]]]
      BY DEF Types
    <2> QED BY <1>1, <2>1, CountsStep, AvailableIs
  <1>7. ~Away' /\ crashes' > 0
    <2>1. crashes > 0
      BY <1>1, <1>5 DEF StreamInv, ReturnInv, Away
    <2> QED BY <1>5, <2>1 DEF Away
  <1>8. ASSUME NEW i \in Client, i # Restarter
        PROVE  /\ \A x \in Client : /\ ack'[i][i][x] <= Queued(i, x)'
                                    /\ told'[i][i][x] = 0
                                    /\ available'[i] <= Queued(i, x)'
               /\ available'[i] <= MaxBeat
               /\ dispatched'[i] <= available'[i]
    <2>1. \A x \in Client : Queued(i, x)' = Queued(i, x)
      BY <1>5, <1>8 DEF Queued
    <2>2. /\ \A x \in Client : /\ ack[i][i][x] <= Queued(i, x)
                               /\ told[i][i][x] = 0
                               /\ available[i] <= Queued(i, x)
          /\ available[i] <= MaxBeat
          /\ dispatched[i] <= available[i]
      BY <1>1 DEF HeldInv
    <2>3. ack'[i] = ack[i] /\ told'[i][i] = told[i][i] /\ available'[i] = available[i]
          /\ dispatched'[i] = dispatched[i]
      BY <1>5, <1>6, <1>8
    <2> QED BY <2>1, <2>2, <2>3
  <1>9. available[Restarter] = 0
    BY <1>5 DEF IInv, AckInv, GoneInv, Away
  <1>10. ASSUME NEW x \in Client
         PROVE  /\ ack'[Restarter][Restarter][x] <= Queued(Restarter, x)'
                /\ told'[Restarter][Restarter][x] = 0
                /\ available'[Restarter] <= Queued(Restarter, x)'
    <2>1. Queued(Restarter, x)' = Len(Rebuilt(x)) /\ ack'[Restarter][Restarter][x] = Len(Rebuilt(x))
      BY <1>5 DEF Queued
    <2>2. ack'[Restarter][Restarter][x] <= Queued(Restarter, x)'
      BY <1>4, <2>1
    <2>3. available[Restarter] <= Queued(Restarter, x)'
      BY <1>4, <1>9, <2>1
    <2>4. available'[Restarter] <= Queued(Restarter, x)'
      BY <1>1, <1>6, <2>2, <2>3, CountedIsHeld
    <2> QED BY <1>5, <2>2, <2>4
  <1>11. available'[Restarter] <= MaxBeat
    BY <1>6, <1>9 DEF Counts
  <1>12. dispatched'[Restarter] <= available'[Restarter]
    <2>1. AckedByAll(ack'[Restarter], d)
      BY <1>4, <1>5 DEF AckedByAll
    <2> QED BY <1>4, <1>5, <1>6, <2>1
  <1>13. HeldInv'
    BY <1>8, <1>10, <1>11, <1>12 DEF HeldInv
  <1>14. GoneInv' /\ FloorInv' /\ RunInv' /\ EarlyInv'
    BY <1>5, <1>7 DEF GoneInv, FloorInv, RunInv, EarlyInv, Served, Away
  <1> QED BY <1>13, <1>14 DEF AckInv

-----------------------------------------------------------------------------
(* Who has run what it reported goes on to have run it.                      *)
LEMMA RanKept ==
    ASSUME IInv, Types', NEW k \in Peer, Served(k), report'[k] = report[k],
           dispatched[k] <= dispatched'[k]
    PROVE  Ran(k)'
  <1> USE PeersAre
  <1>1. Ran(k) /\ report[k] \in Report
    BY DEF IInv, AckInv, RunInv, StreamInv, ReturnInv
  <1>2. report[k].dispatched \in Nat /\ dispatched[k] \in Nat /\ dispatched'[k] \in Nat
    BY <1>1, CountsAre, CountsAreNext DEF Report, IInv
  <1> QED BY <1>1, <1>2 DEF Ran

(* So in steps that are none of a return's.                                  *)
LEMMA RanControl ==
    ASSUME IInv, Types', Control, \A k \in Peer : dispatched[k] <= dispatched'[k]
    PROVE  RunInv'
  <1>1. \A k \in Peer : Served(k)' => Served(k)
    BY ControlKeeps
  <1>2. \A k \in Peer : report'[k] = report[k]
    BY DEF Control
  <1>3. ASSUME NEW k \in Peer, Served(k)' PROVE Ran(k)'
    BY <1>1, <1>2, <1>3, RanKept
  <1> QED BY <1>3 DEF RunInv

(* A peer that serves has run no more than it says it holds.                 *)
LEMMA RanServes ==
    ASSUME IInv, NEW k \in Peer, Serves(k), UNCHANGED dispatched
    PROVE  Ran(k)'
  <1> USE PeersAre
  <1>1. report'[k].dispatched = dispatched[k] /\ \A x \in Client : report'[k].queued[x] = Queued(k, x)
    BY DEF Serves, Backlog
  <1>2. ASSUME NEW x \in Client PROVE dispatched[k] <= Queued(k, x)
    <2>1. dispatched[k] \in Nat /\ available[k] \in Nat /\ Queued(k, x) \in Nat
      BY CountsAre DEF IInv
    <2>2. dispatched[k] <= available[k] /\ available[k] <= Queued(k, x)
      BY DEF IInv, AckInv, HeldInv
    <2> QED BY <2>1, <2>2
  <1>3. dispatched[k] \in Nat
    BY CountsAre DEF IInv
  <1> QED BY <1>1, <1>2, <1>3 DEF Ran

(* Nothing run is still what was run.                                        *)
LEMMA DispatchedKept ==
    ASSUME IInv, UNCHANGED dispatched
    PROVE  \A k \in Peer : dispatched[k] <= dispatched'[k]
  BY CountsAre, PeersAre DEF IInv

(* Who serves as it gives the seat has run what it reports;                  *)
LEMMA RunTakeSeat ==
    ASSUME IInv, Types', NEW k \in Client, TakeSeat(k)
    PROVE  RunInv'
  <1> USE PeersAre
  <1>1. /\ k \in Peer /\ lost' = lost \ {k} /\ UNCHANGED <<dispatched, phase>>
        /\ k = Recorder => /\ UNCHANGED report /\ serves'[k] = serves[k] + 1
                           /\ \A j \in Peer : j # k => serves'[j] = serves[j]
        /\ k # Recorder => Serves(k) /\ serves' = serves
    BY TakeSeatIs DEF IInv
  <1>2. ASSUME NEW j \in Peer, j # k, Served(j)' PROVE Ran(j)'
    <2>1. Served(j)
      BY <1>1, <1>2 DEF Served, Away
    <2>2. report'[j] = report[j]
      BY <1>1, <1>2 DEF Serves
    <2> QED BY <1>1, <2>1, <2>2, RanKept, DispatchedKept
  <1>3. ASSUME Served(k)' PROVE Ran(k)'
    <2>1. k # Recorder
      <3>1. serves[k] \in Nat
        BY <1>1 DEF IInv, Types
      <3> QED BY <1>1, <1>3, <3>1 DEF Served
    <2> QED BY <1>1, <2>1, RanServes
  <1> QED BY <1>2, <1>3 DEF RunInv

(* so has who serves later.                                                  *)
LEMMA RunServe ==
    ASSUME IInv, Types', NEW k \in Client, Serve(k)
    PROVE  RunInv'
  <1> USE PeersAre
  <1>1. /\ k \in Peer /\ Serves(k) /\ UNCHANGED <<dispatched, phase, lost>>
        /\ \A j \in Peer : j # k => serves'[j] = serves[j]
    BY ServeIs DEF IInv
  <1>2. ASSUME NEW j \in Peer, j # k, Served(j)' PROVE Ran(j)'
    <2>1. Served(j)
      BY <1>1, <1>2 DEF Served, Away
    <2>2. report'[j] = report[j]
      BY <1>1, <1>2 DEF Serves
    <2> QED BY <1>1, <2>1, <2>2, RanKept, DispatchedKept
  <1>3. Ran(k)'
    BY <1>1, RanServes
  <1> QED BY <1>2, <1>3 DEF RunInv

(* Settle leaves the reports as they are.                                    *)
LEMMA RunSettle ==
    ASSUME IInv, Types', Settle
    PROVE  RunInv'
  <1>1. phase = "Asking" /\ phase' = "CatchingUp" /\ UNCHANGED <<dispatched, lost, serves, report>>
    BY DEF Settle, peerVars
  <1>2. ASSUME NEW k \in Peer, Served(k)' PROVE Ran(k)'
    <2>1. Served(k)
      BY <1>1, <1>2 DEF Served, Away
    <2> QED BY <1>1, <2>1, RanKept, DispatchedKept
  <1> QED BY <1>2 DEF RunInv

(* What is said of acks, when something is said,                             *)
LEMMA SaysAcks ==
    ASSUME IInv, Types', NEW i \in Client, Says(i), Grows, Honest, UNCHANGED dispatched,
           GoneInv' /\ HeldInv' /\ EarlyInv'
    PROVE  AckInv'
  <1>1. FloorInv'
    BY SaysFloor
  <1>2. Control
    BY DEF Says, Say
  <1>3. RunInv'
    BY <1>2, RanControl, DispatchedKept
  <1> QED BY <1>1, <1>3 DEF AckInv

(* when something is heard,                                                  *)
LEMMA HearsAcks ==
    ASSUME IInv, Types', NEW i \in Client, NEW k \in Client, Hears(i, k), Grows, Honest,
           UNCHANGED dispatched, GoneInv' /\ HeldInv' /\ EarlyInv'
    PROVE  AckInv'
  <1>1. FloorInv'
    BY HearsFloor
  <1>2. Control
    BY DEF Hears
  <1>3. RunInv'
    BY <1>2, RanControl, DispatchedKept
  <1> QED BY <1>1, <1>3 DEF AckInv

(* and when neither is.                                                      *)
LEMMA QuietAcks ==
    ASSUME IInv, Types', Quiet, Grows, Honest, \A k \in Peer : dispatched[k] <= dispatched'[k],
           GoneInv' /\ HeldInv' /\ EarlyInv'
    PROVE  AckInv'
  <1>1. FloorInv'
    BY QuietFloor
  <1>2. RunInv'
    BY RanControl DEF Quiet
  <1> QED BY <1>1, <1>2 DEF AckInv

(* Every part of DoBeat keeps what is said of acks,                          *)
LEMMA BeatAcks ==
    ASSUME IInv, Types', Prompt, NEW i \in Client, DoBeat(i)
    PROVE  AckInv'
  <1> USE PeersAre
  <1>1. Types /\ StreamInv
    BY DEF IInv
  <1>2. StepAvailable(i)
    BY DEF DoBeat
  <1>3. Counts
    BY <1>1, <1>2, CountsStep
  <1>4. ASSUME NEW k \in Client, ReceiveOrder(i, k) PROVE AckInv'
    <2>1. Hears(i, k) /\ UNCHANGED dispatched
      BY <1>1, <1>4, ReceiveOrderHears
    <2>2. GoneInv' /\ HeldInv' /\ EarlyInv' /\ Honest /\ Grows
      BY <1>3, <1>4, ReceiveOrderAcks
    <2> QED BY <2>1, <2>2, HearsAcks
  <1>5. ASSUME NEW k \in Client, ReceiveAdvance(i, k) PROVE AckInv'
    <2>1. Hears(i, k) /\ UNCHANGED dispatched
      BY <1>1, <1>5, ReceiveAdvanceHears, ReceiveAdvanceAcks
    <2>2. GoneInv' /\ HeldInv' /\ EarlyInv' /\ Honest /\ Grows
      BY <1>3, <1>5, ReceiveAdvanceKeeps
    <2> QED BY <2>1, <2>2, HearsAcks
  <1>6. ASSUME NEW k \in Client, ReceiveAcks(i, k) PROVE AckInv'
    <2>1. Quiet /\ UNCHANGED dispatched
      BY <1>1, <1>6, ReceiveAcksIs
    <2>2. GoneInv' /\ HeldInv' /\ EarlyInv' /\ Honest /\ Grows
      BY <1>3, <1>6, ReceiveAcksKeeps
    <2> QED BY <2>1, <2>2, QuietAcks, DispatchedKept
  <1>7. ASSUME TakeSeat(i) PROVE AckInv'
    <2>1. GoneInv' /\ HeldInv' /\ EarlyInv' /\ Honest /\ Grows
      BY <1>3, <1>7, TakeSeatAcks
    <2>2. FloorInv' /\ RunInv'
      BY <1>7, <2>1, TakeSeatFloor, RunTakeSeat
    <2> QED BY <2>1, <2>2 DEF AckInv
  <1>8. ASSUME Serve(i) PROVE AckInv'
    <2>1. GoneInv' /\ HeldInv' /\ EarlyInv' /\ Honest /\ Grows
      BY <1>3, <1>8, ServeAcks
    <2>2. FloorInv' /\ RunInv'
      BY <1>8, <2>1, ServeFloor, RunServe
    <2> QED BY <2>1, <2>2 DEF AckInv
  <1>9. ASSUME ReceiveCut(i) PROVE AckInv'
    <2>1. i \in Peer
      BY <1>1, <1>9, ReceiveCutIs
    <2>2. GoneInv' /\ HeldInv' /\ EarlyInv' /\ FloorInv'
      BY <1>2, <1>9, <2>1, ReceiveCutAcks
    <2>3. Control /\ UNCHANGED dispatched
      BY <1>1, <1>9, ReceiveCutIs
    <2>4. RunInv'
      BY <2>3, RanControl, DispatchedKept
    <2> QED BY <2>2, <2>4 DEF AckInv
  <1>10. ASSUME Settle PROVE AckInv'
    <2>1. GoneInv' /\ HeldInv' /\ EarlyInv' /\ Honest /\ Grows
      BY <1>3, <1>10, SettleAcks
    <2>2. FloorInv' /\ RunInv'
      BY <1>10, <2>1, SettleFloor, RunSettle
    <2> QED BY <2>1, <2>2 DEF AckInv
  <1>11. ASSUME i = Restarter, FinishCatchUp PROVE AckInv'
    BY <1>2, <1>11, FinishAcks
  <1>12. ASSUME PullNothing(i) PROVE AckInv'
    <2>1. Quiet /\ UNCHANGED dispatched
      BY <1>12 DEF PullNothing, streamVars, wireVars, peerVars, returnVars, envVars, Quiet, Control
    <2>2. GoneInv' /\ HeldInv' /\ EarlyInv' /\ Honest /\ Grows
      BY <1>3, <1>12, PullNothingAcks
    <2> QED BY <2>1, <2>2, QuietAcks, DispatchedKept
  <1> QED BY <1>4, <1>5, <1>6, <1>7, <1>8, <1>9, <1>10, <1>11, <1>12 DEF DoBeat

(* and so does every step.                                                   *)
LEMMA AckStep ==
    ASSUME IInv, Types', Prompt, [Next]_vars
    PROVE  AckInv'
  <1> USE PeersAre
  <1>1. Types /\ StreamInv
    BY DEF IInv
  <1>2. ASSUME NEW i \in Client, GiveOrder(i) PROVE AckInv'
    <2>1. Says(i) /\ UNCHANGED dispatched
      BY <1>1, <1>2, GiveOrderSays DEF GiveOrder, beatVars
    <2>2. GoneInv' /\ HeldInv' /\ EarlyInv' /\ Honest /\ Grows
      BY <1>2, GiveOrderAcks
    <2> QED BY <2>1, <2>2, SaysAcks
  <1>3. ASSUME NEW i \in Client, Issue(i) PROVE AckInv'
    <2>1. Says(i) /\ UNCHANGED dispatched
      BY <1>1, <1>3, IssueSays, IssueAcks
    <2>2. GoneInv' /\ HeldInv' /\ EarlyInv' /\ Honest /\ Grows
      BY <1>3, IssueKeeps
    <2> QED BY <2>1, <2>2, SaysAcks
  <1>4. ASSUME NEW i \in Client, Dispatch(i) PROVE AckInv'
    <2>1. Quiet
      BY <1>4 DEF Dispatch, streamVars, wireVars, peerVars, returnVars, envVars, Quiet, Control
    <2>2. GoneInv' /\ HeldInv' /\ EarlyInv' /\ Honest /\ Grows
      BY <1>4, DispatchAcks
    <2>3. \A k \in Peer : dispatched[k] <= dispatched'[k]
      <3>1. ASSUME NEW k \in Peer PROVE dispatched[k] <= dispatched'[k]
        <4>1. dispatched \in [Client -> Nat] /\ k \in Client
          BY <1>1 DEF Types
        <4> QED BY <1>4, <4>1 DEF Dispatch
      <3> QED BY <3>1
    <2> QED BY <2>1, <2>2, <2>3, QuietAcks
  <1>5. ASSUME NEW i \in Client, DoBeat(i) PROVE AckInv'
    BY <1>5, BeatAcks
  <1>6. ASSUME Crash PROVE AckInv'
    BY <1>6, CrashAcks
  <1>7. ASSUME UNCHANGED vars PROVE AckInv'
    <2>1. Quiet /\ UNCHANGED dispatched
      BY <1>7 DEF vars, streamVars, beatVars, wireVars, peerVars, returnVars, envVars, Quiet, Control
    <2>2. GoneInv' /\ HeldInv' /\ EarlyInv' /\ Honest /\ Grows
      BY <1>7, StutterAcks
    <2> QED BY <2>1, <2>2, QuietAcks, DispatchedKept
  <1> QED BY <1>2, <1>3, <1>4, <1>5, <1>6, <1>7 DEF Next

-----------------------------------------------------------------------------
FirstBeat == << <<[beat |-> 1, run |-> 0]>> >>

(* The beat the model begins with.                                           *)
LEMMA FirstBeatIs ==
    /\ FirstBeat \in Beats /\ Len(FirstBeat) = 1 /\ Whole(FirstBeat)
    /\ FirstOrder \in Item /\ <<FirstOrder>> \in Orders /\ <<>> \in Orders
    /\ OrderMsg(FirstOrder) \in StreamMsg /\ OrderMsg(FirstOrder) \in Msg
  <1>1. [beat |-> 1, run |-> 0] \in Item /\ FirstOrder \in Item
    BY DEF Item, FirstOrder
  <1>2. <<[beat |-> 1, run |-> 0]>> \in Orders /\ <<FirstOrder>> \in Orders /\ <<>> \in Orders
    BY <1>1 DEF Orders
  <1>3. FirstBeat \in Beats /\ Len(FirstBeat) = 1
    BY <1>2 DEF Beats, FirstBeat
  <1>4. Whole(FirstBeat)
    <2>1. \A b \in 1 .. Len(FirstBeat) : b = 1
      BY <1>3
    <2>2. FirstBeat[1] = <<[beat |-> 1, run |-> 0]>>
      BY DEF FirstBeat
    <2>3. Len(FirstBeat[1]) = 1 /\ FirstBeat[1][1] = [beat |-> 1, run |-> 0]
      BY <2>2
    <2> QED BY <2>1, <2>3 DEF Whole
  <1>5. OrderMsg(FirstOrder) \in StreamMsg /\ OrderMsg(FirstOrder) \in Msg
    BY <1>1 DEF StreamMsg, Msg, OrderMsg
  <1> QED BY <1>1, <1>2, <1>3, <1>4, <1>5

(* The initial state, by what it says of each player.                        *)
LEMMA InitIs ==
    ASSUME Init
    PROVE  /\ \A i, x \in Client : /\ stream[i][x] = FirstBeat /\ Queued(i, x) = 1
                                   /\ i # x => open[i][x] = <<>>
           /\ \A i \in Client : i # Restarter => open[i][i] = <<>>
           /\ open[Restarter][Restarter] = <<FirstOrder>>
           /\ \A i \in Client : dispatched[i] = 1 /\ available[i] = 1
           /\ \A i, k, x \in Client : ack[i][k][x] = 1 /\ told[i][k][x] = 0
           /\ \A i, k \in Client : i # Restarter => link[i][k] = <<>>
           /\ \A k \in Client : k # Restarter => link[Restarter][k] = <<OrderMsg(FirstOrder)>>
           /\ lost = {} /\ \A k \in Peer : serves[k] = 0 /\ report[k] = NoReport
           /\ phase = "Up" /\ cut = 0 /\ crashes = 0 /\ orders = 0
  <1> USE PeersAre, FirstBeatIs
  <1>1. \A i, x \in Client : stream[i][x] = FirstBeat /\ Queued(i, x) = 1
    BY DEF Init, FirstBeat, Queued
  <1>2. \A i, x \in Client : i # x => open[i][x] = <<>>
    BY DEF Init
  <1>3. /\ \A i \in Client : i # Restarter => open[i][i] = <<>>
        /\ open[Restarter][Restarter] = <<FirstOrder>>
    BY DEF Init
  <1>4. \A i \in Client : dispatched[i] = 1 /\ available[i] = 1
    BY DEF Init
  <1>5. \A i, k, x \in Client : ack[i][k][x] = 1 /\ told[i][k][x] = 0
    BY DEF Init, Nothing
  <1>6. \A i, k \in Client : i # Restarter => link[i][k] = <<>>
    BY DEF Init
  <1>7. \A k \in Client : k # Restarter => link[Restarter][k] = <<OrderMsg(FirstOrder)>>
    BY DEF Init
  <1>8. /\ lost = {} /\ \A k \in Peer : serves[k] = 0 /\ report[k] = NoReport
        /\ phase = "Up" /\ cut = 0 /\ crashes = 0 /\ orders = 0
    BY DEF Init
  <1> QED BY <1>1, <1>2, <1>3, <1>4, <1>5, <1>6, <1>7, <1>8

(* It has its types,                                                         *)
LEMMA InitTypes == Init => Types
  <1> SUFFICES ASSUME Init PROVE Types
    OBVIOUS
  <1> USE PeersAre, FirstBeatIs
  <1>1. stream \in [Client -> [Client -> Beats]]
    BY DEF Init, FirstBeat
  <1>2. open \in [Client -> [Client -> Orders]]
    BY DEF Init
  <1>3. dispatched \in [Client -> Nat] /\ available \in [Client -> Nat]
    BY DEF Init
  <1>4. ack \in [Client -> [Client -> [Client -> Nat]]]
    BY DEF Init
  <1>5. told \in [Client -> [Client -> [Client -> Nat]]]
    BY DEF Init, Nothing
  <1>6. link \in [Client -> [Client -> Seq(Msg)]]
    BY DEF Init
  <1>7. lost \subseteq Peer /\ serves \in [Peer -> Nat] /\ phase \in {"Up", "Asking", "CatchingUp"}
    BY DEF Init
  <1>8. report \in [Peer -> Report \cup {NoReport}]
    BY DEF Init
  <1>9. cut \in Nat /\ crashes \in Nat /\ orders \in Nat /\ crashes + orders <= MaxEvents
    BY DEF Init
  <1> QED BY <1>1, <1>2, <1>3, <1>4, <1>5, <1>6, <1>7, <1>8, <1>9 DEF Types

(* its streams are in order,                                                 *)
LEMMA InitStreams == Init => StreamInv
  <1> SUFFICES ASSUME Init PROVE StreamInv
    OBVIOUS
  <1> USE PeersAre, FirstBeatIs
  <1>1. Types
    BY InitTypes
  <1>2. /\ \A i, x \in Client : /\ stream[i][x] = FirstBeat /\ Queued(i, x) = 1
                                /\ i # x => open[i][x] = <<>>
        /\ \A i \in Client : i # Restarter => open[i][i] = <<>>
        /\ open[Restarter][Restarter] = <<FirstOrder>>
        /\ \A i, k \in Client : i # Restarter => link[i][k] = <<>>
        /\ \A k \in Client : k # Restarter => link[Restarter][k] = <<OrderMsg(FirstOrder)>>
        /\ lost = {} /\ \A k \in Peer : serves[k] = 0 /\ report[k] = NoReport
        /\ phase = "Up" /\ crashes = 0
    BY InitIs
  <1>3. ~Away /\ \A k \in Peer : ~Served(k)
    BY <1>2 DEF Away, Served
  <1>4. ReturnInv
    BY <1>2, <1>3 DEF ReturnInv
  <1>5. OwnInv
    <2>1. ASSUME NEW x \in Client
          PROVE  \A m \in 1 .. Len(open[x][x]) : open[x][x][m] = Said(x, Queued(x, x) + 1)
      <3>1. CASE x # Restarter
        BY <1>2, <3>1
      <3>2. CASE x = Restarter
        <4>1. Said(x, Queued(x, x) + 1) = FirstOrder
          BY <1>2, <3>2 DEF Said, RunOf, FirstOrder
        <4>2. Len(open[x][x]) = 1 /\ open[x][x][1] = FirstOrder
          BY <1>2, <3>2
        <4> QED BY <4>1, <4>2
      <3> QED BY <3>1, <3>2
    <2> QED BY <1>2, <2>1 DEF OwnInv
  <1>6. FlowInv
    <2>1. SUFFICES ASSUME NEW x \in Client, NEW i \in Client, x # i
                   PROVE  Leads(At(i, x), link[x][i], At(x, x))
      BY DEF FlowInv
    <2>2. At(i, x) \in Place /\ At(x, x) \in Place
      BY <1>1, AtType
    <2>3. At(i, x) = [beats |-> FirstBeat, part |-> <<>>]
      BY <1>2, <2>1 DEF At
    <2>4. CASE x # Restarter
      <3>1. At(x, x) = At(i, x) /\ link[x][i] = <<>>
        BY <1>2, <2>3, <2>4 DEF At
      <3> QED BY <2>2, <3>1, LeadsEmpty
    <2>5. CASE x = Restarter
      <3>1. At(x, x) = [beats |-> FirstBeat, part |-> <<FirstOrder>>]
        BY <1>2, <2>5 DEF At
      <3>2. link[x][i] = Append(<<>>, OrderMsg(FirstOrder))
        BY <1>2, <2>1, <2>5
      <3>3. Takes(At(i, x), OrderMsg(FirstOrder), At(x, x))
        <4>1. Append(<<>>, FirstOrder) = <<FirstOrder>>
          OBVIOUS
        <4>2. FirstOrder.beat = Len(FirstBeat) + 1
          BY DEF FirstOrder
        <4>3. OrderMsg(FirstOrder).op = "Order" /\ OrderMsg(FirstOrder).item = FirstOrder
          BY DEF OrderMsg
        <4>4. /\ At(i, x).beats = FirstBeat /\ At(i, x).part = <<>>
              /\ At(x, x).beats = FirstBeat /\ At(x, x).part = <<FirstOrder>>
          BY <2>3, <3>1
        <4> QED BY <4>1, <4>2, <4>3, <4>4 DEF Takes
      <3>4. Leads(At(i, x), <<>>, At(i, x))
        BY <2>2, LeadsEmpty
      <3> QED BY <2>2, <3>2, <3>3, <3>4, LeadsAppend
    <2> QED BY <2>4, <2>5
  <1>7. BacklogInv /\ OldInv /\ SeatInv
    BY <1>2, <1>3 DEF BacklogInv, OldInv, SeatInv
  <1> QED BY <1>4, <1>5, <1>6, <1>7 DEF StreamInv

(* and so are its acks.                                                      *)
LEMMA InitAcks == Init => AckInv
  <1> SUFFICES ASSUME Init PROVE AckInv
    OBVIOUS
  <1> USE PeersAre
  <1>1. /\ \A i, x \in Client : Queued(i, x) = 1
        /\ \A i \in Client : dispatched[i] = 1 /\ available[i] = 1
        /\ \A i, k, x \in Client : ack[i][k][x] = 1 /\ told[i][k][x] = 0
        /\ phase = "Up"
    BY InitIs
  <1>2. GoneInv /\ FloorInv /\ RunInv
    BY <1>1 DEF GoneInv, FloorInv, RunInv, Served, Away
  <1>3. HeldInv
    BY <1>1 DEF HeldInv
  <1>4. \A j \in Peer : TrueAcks(j)
    BY <1>1 DEF TrueAcks
  <1>5. EarlyInv
    BY <1>1, <1>4 DEF EarlyInv, TruthInv
  <1> QED BY <1>2, <1>3, <1>5 DEF AckInv

-----------------------------------------------------------------------------
(* Every step keeps the invariant.                                           *)
LEMMA InvariantStep ==
    ASSUME Prompt, IInv, [Next]_vars
    PROVE  IInv'
  <1>1. Types /\ StreamInv
    BY DEF IInv
  <1>2. FinishCatchUp => Prompt /\ Reported
    BY <1>1, AllBack
  <1>3. Types'
    BY <1>1, <1>2, TypesStep
  <1>4. \A k \in Peer : ReceiveCut(k) => GoesBack(k)
    BY CutsGoBack
  <1>5. StreamInv'
    BY <1>1, <1>3, <1>4, StreamStep
  <1>6. AckInv'
    BY <1>3, AckStep
  <1> QED BY <1>3, <1>5, <1>6 DEF IInv

(* The whole of it, when no link is slower than the recording's way round.   *)
THEOREM InvariantHolds == Prompt /\ Spec => []IInv
  <1>1. Init => IInv
    BY InitTypes, InitStreams, InitAcks DEF IInv
  <1>2. CASE Prompt
    <2>1. IInv /\ [Next]_vars => IInv'
      BY <1>2, InvariantStep
    <2> QED BY <1>1, <2>1, PTL DEF Spec
  <1>3. CASE ~Prompt
    BY <1>3, PTL
  <1> QED BY <1>2, <1>3

(* The types, nobody runs what it has not counted, and the bound on events.  *)
THEOREM TypeCorrect == Prompt /\ Spec => []TypeOK
  <1>1. IInv => TypeOK
    <2>1. SUFFICES ASSUME IInv PROVE TypeOK
      OBVIOUS
    <2>2. Types /\ \A i \in Client : dispatched[i] <= available[i]
      BY <2>1 DEF IInv, AckInv, HeldInv
    <2> QED BY <2>2 DEF Types, TypeOK, Beats, Orders
  <1> QED BY <1>1, InvariantHolds, PTL

(* A stream as anybody holds it is a beginning of one in which every beat is *)
(* whole: its player's own, or that of the run that has ended.               *)
LEMMA OneStream ==
    ASSUME IInv, NEW x \in Client
    PROVE  \E T \in Beats : Whole(T) /\ \A i \in Client : Agrees(stream[i][x], T)
  <1> USE PeersAre
  <1>1. Types /\ StreamInv
    BY DEF IInv
  <1>2. \A i \in Client : stream[i][x] \in Beats
    BY <1>1 DEF Types
  <1>3. ASSUME NEW T \in Beats, Away PROVE Agrees(stream[Restarter][x], T)
    <2>1. stream[Restarter][x] = <<>>
      BY <1>1, <1>3 DEF StreamInv, ReturnInv
    <2>2. Len(T) \in Nat
      BY <1>3 DEF Beats
    <2> QED BY <2>1, <2>2 DEF Agrees
  <1>4. CASE Playing(x)
    <2>1. Whole(stream[x][x])
      BY <1>1, <1>4 DEF StreamInv, OwnInv
    <2>2. ASSUME NEW i \in Client PROVE Agrees(stream[i][x], stream[x][x])
      <3>1. CASE i = x
        BY <1>2, <3>1, AgreesWithItself
      <3>2. CASE i # x /\ Playing(i)
        <4>1. Leads(At(i, x), link[x][i], At(x, x))
          BY <1>1, <1>4, <3>2 DEF StreamInv, FlowInv
        <4>2. Agrees(At(i, x).beats, At(x, x).beats)
          BY <4>1, LeadsAgree
        <4> QED BY <4>2 DEF At
      <3>3. CASE ~Playing(i)
        BY <1>2, <1>3, <3>3 DEF Playing, Away
      <3> QED BY <3>1, <3>2, <3>3
    <2> QED BY <1>2, <2>1, <2>2
  <1>5. CASE ~Playing(x)
    <2>1. Away /\ x = Restarter
      BY <1>5 DEF Playing, Away
    <2>2. PICK T \in Beats : Whole(T) /\ \A k \in Peer : OldWay(k, T)
      BY <1>1, <2>1 DEF StreamInv, OldInv
    <2>3. \A k \in Peer : Agrees(stream[k][x], T)
      BY <1>1, <2>1, <2>2, OldWayAgrees
    <2>4. \A i \in Client : Agrees(stream[i][x], T)
      BY <1>3, <2>1, <2>3
    <2> QED BY <2>2, <2>4
  <1> QED BY <1>4, <1>5

(* Two players ran the same messages in every beat both have run, through a  *)
(* crash, the cut of the old stream and the return: ApplyCut, FinishCatchUp. *)
THEOREM RunTheSame == Prompt /\ Spec => []RunsAgree
  <1>1. ASSUME IInv PROVE RunsAgree
    <2>1. SUFFICES ASSUME NEW i \in Client, NEW k \in Client, NEW x \in Client,
                          NEW b \in 1 .. Least(dispatched[i], dispatched[k])
                   PROVE  b <= Queued(i, x) /\ stream[i][x][b] = stream[k][x][b]
      BY DEF RunsAgree
    <2>2. ASSUME NEW j \in Client PROVE dispatched[j] \in Nat /\ dispatched[j] <= Queued(j, x)
      <3>1. dispatched[j] \in Nat /\ available[j] \in Nat /\ Queued(j, x) \in Nat
        BY <1>1, CountsAre DEF IInv
      <3>2. dispatched[j] <= available[j] /\ available[j] <= Queued(j, x)
        BY <1>1 DEF IInv, AckInv, HeldInv
      <3> QED BY <3>1, <3>2
    <2>3. b <= Queued(i, x) /\ b <= Queued(k, x) /\ b >= 1
      <3>1. b <= dispatched[i] /\ b <= dispatched[k]
        BY <2>1, <2>2 DEF Least
      <3>2. Queued(i, x) \in Nat /\ Queued(k, x) \in Nat
        BY <1>1, CountsAre DEF IInv
      <3> QED BY <2>1, <2>2, <3>1, <3>2
    <2>4. PICK T \in Beats : \A j \in Client : Agrees(stream[j][x], T)
      BY <1>1, OneStream
    <2>5. stream[i][x][b] = T[b] /\ stream[k][x][b] = T[b]
      <3>1. b \in 1 .. Len(stream[i][x]) /\ b \in 1 .. Len(stream[k][x])
        BY <2>1, <2>3 DEF Queued
      <3> QED BY <2>4, <3>1 DEF Agrees
    <2> QED BY <2>3, <2>5
  <1>2. IInv => RunsAgree
    BY <1>1
  <1> QED BY <1>2, InvariantHolds, PTL

(* Nobody holds a beat at another place of its stream, nor one joined from   *)
(* messages of two runs: FinishCatchUp, the skipping of what is held.        *)
THEOREM TakenOnce == Prompt /\ Spec => []BeatsTakenOnce
  <1>1. ASSUME IInv PROVE BeatsTakenOnce
    <2>1. ASSUME NEW i \in Client, NEW x \in Client PROVE Whole(stream[i][x])
      <3>1. PICK T \in Beats : Whole(T) /\ Agrees(stream[i][x], T)
        BY <1>1, OneStream
      <3>2. stream[i][x] \in Beats
        BY <1>1 DEF IInv, Types
      <3> QED BY <3>1, <3>2, WholeAgrees
    <2> QED BY <2>1 DEF BeatsTakenOnce, Whole, Queued
  <1>2. IInv => BeatsTakenOnce
    BY <1>1
  <1> QED BY <1>2, InvariantHolds, PTL

(* A peer told of a cut has run nothing past it and holds everything up to   *)
(* it, so it can go back: NotePeerReport's choice, ApplyCut's condition.     *)
THEOREM CutCanBeTaken == Prompt /\ Spec => []CutsFit
  <1>1. ASSUME IInv PROVE CutsFit
    <2>1. SUFFICES ASSUME NEW k \in Peer, NEW m \in 1 .. Len(link[Restarter][k]),
                          link[Restarter][k][m].op = "Cut"
                   PROVE  /\ dispatched[k] <= link[Restarter][k][m].cut
                          /\ link[Restarter][k][m].cut <= Queued(k, Restarter)
      BY DEF CutsFit
    <2>2. link[Restarter][k] \notin Seq(StreamMsg)
      <3>1. SUFFICES ASSUME link[Restarter][k] \in Seq(StreamMsg) PROVE FALSE
        OBVIOUS
      <3>2. link[Restarter][k][m] \in StreamMsg
        BY <2>1, <3>1
      <3> QED BY <2>1, <3>2 DEF StreamMsg
    <2>3. Away
      <3>1. SUFFICES ASSUME phase = "Up" PROVE FALSE
        BY DEF Away
      <3>2. Leads(At(k, Restarter), link[Restarter][k], At(Restarter, Restarter))
        BY <1>1, <3>1, PeersAre DEF IInv, StreamInv, FlowInv, Playing
      <3> QED BY <2>2, <3>2 DEF Leads
    <2>4. PICK c \in Nat : link[Restarter][k] = <<CutMsg(c)>>
      BY <1>1, <2>2, <2>3, OldOrCut DEF IInv
    <2>5. link[Restarter][k][m] = CutMsg(c)
      BY <2>1, <2>4
    <2>6. Floor(c)
      BY <1>1, <2>3, <2>4 DEF IInv, AckInv, FloorInv
    <2> QED BY <1>1, <2>3, <2>5, <2>6, CutFits, CutMsgIs
  <1>2. IInv => CutsFit
    BY <1>1
  <1> QED BY <1>2, InvariantHolds, PTL

===============================================================================
