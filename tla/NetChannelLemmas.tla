--------------------------- MODULE NetChannelLemmas ---------------------------
(***************************************************************************)
(* What the operators of the net channel do, for every window, bound and   *)
(* stream: the receive window, the two halves of the reliable stream, the  *)
(* datagrams remembered, acked and counted lost, the payload of a datagram *)
(* and the redundant lane.  NetChannelProofs stands on these lemmas.       *)
(***************************************************************************)
EXTENDS NetChannel, FiniteSetTheorems, WellFoundedInduction, NaturalsInduction, TLAPS

-----------------------------------------------------------------------------
(***************************************************************************)
(* Numbers and finite sets.                                                *)
(***************************************************************************)

(* A set of numbers that is not empty has a least one: the induction of this *)
(* module, whose definitions are recursive functions over finite sets.       *)
LEMMA LeastNumber ==
    ASSUME NEW T \in SUBSET Nat, T # {}
    PROVE  \E n \in T : \A m \in T : n <= m
  <1> DEFINE R == OpToRel(<, Nat)
  <1>1. IsWellFoundedOn(R, Nat)
    BY NatLessThanWellFounded
  <1>2. \A x, y \in Nat : x < y <=> <<x, y>> \in R
    BY DEF OpToRel
  <1> HIDE DEF R
  <1>3. PICK n \in T : \A m \in T : ~(<<m, n>> \in R)
    BY <1>1, WFMin
  <1>4. ASSUME NEW m \in T PROVE n <= m
    <2>1. n \in Nat /\ m \in Nat /\ ~(m < n)
      BY <1>2, <1>3
    <2> QED BY <2>1
  <1> QED BY <1>4

(* A finite one has a greatest.                                              *)
LEMMA GreatestNumber ==
    ASSUME NEW T \in SUBSET Nat, T # {}, IsFiniteSet(T)
    PROVE  \E n \in T : \A m \in T : m <= n
  <1> DEFINE HasGreatest(U) == \E n \in U : \A m \in U : m <= n
             Bad == {k \in Nat : \E U \in SUBSET Nat :
                        U # {} /\ IsFiniteSet(U) /\ Cardinality(U) = k /\ ~HasGreatest(U)}
  <1>1. SUFFICES ASSUME Bad # {} PROVE FALSE
    <2>1. SUFFICES ASSUME ~HasGreatest(T) PROVE Bad # {}
      OBVIOUS
    <2>2. Cardinality(T) \in Nat
      BY FS_CardinalityType
    <2>3. Cardinality(T) \in Bad
      BY <2>1, <2>2
    <2> QED BY <2>3
  <1>2. PICK k \in Bad : \A j \in Bad : k <= j
    BY <1>1, LeastNumber
  <1>3. PICK U \in SUBSET Nat :
           U # {} /\ IsFiniteSet(U) /\ Cardinality(U) = k /\ ~HasGreatest(U)
    BY <1>2
  <1>4. PICK x \in U : TRUE
    BY <1>3
  <1>5. /\ IsFiniteSet(U \ {x})
        /\ Cardinality(U \ {x}) = k - 1
        /\ Cardinality(U \ {x}) \in Nat
        /\ k \in Nat
    BY <1>3, <1>4, FS_RemoveElement, FS_CardinalityType
  <1>6. U \ {x} # {}
    <2>1. SUFFICES ASSUME U = {x} PROVE FALSE
      BY <1>4
    <2> QED BY <1>3, <1>4, <2>1
  <1>7. HasGreatest(U \ {x})
    <2>1. SUFFICES ASSUME ~HasGreatest(U \ {x}) PROVE FALSE
      OBVIOUS
    <2>2. k - 1 \in Bad
      BY <1>5, <1>6, <2>1
    <2> QED BY <1>2, <1>5, <2>2
  <1>8. PICK n \in U \ {x} : \A m \in U \ {x} : m <= n
    BY <1>7
  <1>9. n \in Nat /\ x \in Nat /\ n \in U
    BY <1>4, <1>8
  <1>10. CASE x <= n
    <2>1. \A m \in U : m <= n
      BY <1>8, <1>10
    <2> QED BY <1>3, <1>9, <2>1
  <1>11. CASE n <= x
    <2>1. \A m \in U : m <= x
      <3>1. TAKE m \in U
      <3>2. CASE m = x
        BY <1>9, <3>2
      <3>3. CASE m # x
        BY <1>8, <1>9, <1>11, <3>3
      <3> QED BY <3>2, <3>3
    <2> QED BY <1>3, <1>4, <2>1
  <1> QED BY <1>9, <1>10, <1>11

(* PrefixEnd is where the prefix ends: the choice it makes is there to make. *)
LEMMA PrefixEndIs ==
    ASSUME NEW S, IsFiniteSet(S)
    PROVE  /\ PrefixEnd(S) \in Nat
           /\ PrefixEnd(S) \notin S
           /\ 0 .. PrefixEnd(S) - 1 \subseteq S
  <1> DEFINE T == (0 .. Cardinality(S)) \ S
  <1>1. Cardinality(S) \in Nat
    BY FS_CardinalityType
  <1>2. T # {}
    <2>1. SUFFICES ASSUME 0 .. Cardinality(S) \subseteq S PROVE FALSE
      OBVIOUS
    <2>2. Cardinality(0 .. Cardinality(S)) = Cardinality(S) + 1
      BY <1>1, FS_Interval
    <2>3. Cardinality(0 .. Cardinality(S)) <= Cardinality(S)
      BY <2>1, FS_Subset
    <2> QED BY <1>1, <2>2, <2>3
  <1>3. PICK n \in T : \A m \in T : n <= m
    <2>1. T \in SUBSET Nat
      BY <1>1
    <2> HIDE DEF T
    <2> QED BY <1>2, <2>1, LeastNumber
  <1>4. n \in Nat /\ \A o \in 0 .. n - 1 : o \in S
    BY <1>1, <1>3
  <1>5. \E k \in 0 .. Cardinality(S) : k \notin S /\ 0 .. k - 1 \subseteq S
    BY <1>3, <1>4
  <1>6. PrefixEnd(S) \in 0 .. Cardinality(S) /\ PrefixEnd(S) \notin S /\ 0 .. PrefixEnd(S) - 1 \subseteq S
    BY <1>5 DEF PrefixEnd
  <1> QED BY <1>1, <1>6

-----------------------------------------------------------------------------
(***************************************************************************)
(* ReceiveWindow: the ring tells sequences apart.                          *)
(***************************************************************************)

(* Sequences less than a window apart have slots of their own.               *)
LEMMA SlotsDiffer ==
    ASSUME NEW a \in Nat, NEW b \in Nat, b < a, a - b < WindowSize
    PROVE  Slot(a) # Slot(b)
  <1>1. WindowSize \in Nat \ {0}
    BY WindowAssumption
  <1> SUFFICES ASSUME Slot(a) = Slot(b) PROVE FALSE
    OBVIOUS
  <1>2. \A n \in Nat : /\ n = WindowSize * (n \div WindowSize) + (n % WindowSize)
                      /\ n \div WindowSize \in Int
                      /\ n % WindowSize \in Int
    BY <1>1
  <1> DEFINE q == a \div WindowSize
             p == b \div WindowSize
  <1>3. a - b = WindowSize * (q - p)
    BY <1>1, <1>2 DEF Slot
  <1>4. q \in Int /\ p \in Int
    BY <1>2
  <1> HIDE DEF q, p
  <1>5. CASE q - p <= 0
    BY <1>1, <1>3, <1>4, <1>5
  <1>6. CASE q - p >= 1
    BY <1>1, <1>3, <1>4, <1>6
  <1> QED BY <1>4, <1>5, <1>6

(* A slot is one of the ring's.                                              *)
LEMMA SlotType ==
    ASSUME NEW s \in Nat
    PROVE  Slot(s) \in 0 .. WindowSize - 1
  BY WindowAssumption DEF Slot

(* What is new after a sequence is accepted was new before, and is another.  *)
LEMMA NewBefore ==
    ASSUME NEW w \in Window, NEW a \in Nat, NEW s \in Nat, IsNew(Accept(w, a), s)
    PROVE  IsNew(w, s) /\ s # a
  <1>1. WindowSize \in Nat \ {0} /\ w.newest \in Nat
    BY WindowAssumption DEF Window
  <1>2. CASE a <= w.newest
    <2>1. Accept(w, a) = [w EXCEPT !.seen = w.seen \cup {Slot(a)}]
      BY <1>1, <1>2 DEF Accept
    <2>2. /\ Accept(w, a).newest = w.newest
          /\ Accept(w, a).seen = w.seen \cup {Slot(a)}
      BY <2>1 DEF Window
    <2> QED BY <1>1, <1>2, <2>2 DEF IsNew
  <1>3. CASE a > w.newest
    <2>1. /\ Accept(w, a).newest = a
          /\ Accept(w, a).seen = (w.seen \ Cleared(w, a)) \cup {Slot(a)}
      BY <1>3 DEF Accept
    <2>2. s # a
      BY <2>1 DEF IsNew
    <2>3. CASE s > w.newest
      BY <2>2, <2>3 DEF IsNew
    <2>4. CASE s <= w.newest
      <3>1. s > 0 /\ a - s < WindowSize /\ Slot(s) \notin w.seen \ Cleared(w, a)
        BY <1>1, <1>3, <2>1, <2>4 DEF IsNew
      <3>2. Slot(s) \notin Cleared(w, a)
        <4>1. Cleared(w, a) = {Slot(x) : x \in w.newest + 1 .. a - 1}
          BY <1>1, <1>3, <2>4, <3>1 DEF Cleared
        <4>2. ASSUME NEW x \in w.newest + 1 .. a - 1 PROVE Slot(s) # Slot(x)
          <5>1. x \in Nat /\ s < x /\ x - s < WindowSize
            BY <1>1, <1>3, <2>4, <3>1
          <5> QED BY <5>1, SlotsDiffer
        <4> QED BY <4>1, <4>2
      <3> QED BY <1>1, <1>3, <2>2, <2>4, <3>1, <3>2 DEF IsNew
    <2> QED BY <1>1, <2>3, <2>4
  <1> QED BY <1>1, <1>2, <1>3

(* What the window reports after a sequence is accepted is that one, or was  *)
(* reported before.                                                          *)
LEMMA ReceivedBefore ==
    ASSUME NEW w \in Window, NEW a \in Nat, NEW s \in Nat,
           IsNew(w, a), Received(Accept(w, a), s)
    PROVE  s = a \/ Received(w, s)
  <1>1. WindowSize \in Nat \ {0} /\ w.newest \in Nat
    BY WindowAssumption DEF Window
  <1> SUFFICES ASSUME s # a PROVE Received(w, s)
    OBVIOUS
  <1>2. CASE a <= w.newest
    <2>1. Accept(w, a) = [w EXCEPT !.seen = w.seen \cup {Slot(a)}]
      BY <1>1, <1>2 DEF Accept
    <2>2. /\ Accept(w, a).newest = w.newest
          /\ Accept(w, a).seen = w.seen \cup {Slot(a)}
      BY <2>1 DEF Window
    <2>3. w.newest - a < WindowSize
      BY <1>1, <1>2 DEF IsNew
    <2>4. s \in 1 .. w.newest /\ w.newest - s < WindowSize
      BY <2>2 DEF Received
    <2>5. CASE s < a
      <3>1. Slot(s) # Slot(a)
        BY <1>1, <1>2, <2>4, <2>5, SlotsDiffer
      <3> QED BY <2>2, <3>1 DEF Received
    <2>6. CASE a < s
      <3>1. Slot(s) # Slot(a)
        BY <1>1, <2>3, <2>4, <2>6, SlotsDiffer
      <3> QED BY <2>2, <3>1 DEF Received
    <2> QED BY <2>5, <2>6
  <1>3. CASE a > w.newest
    <2>1. /\ Accept(w, a).newest = a
          /\ Accept(w, a).seen = (w.seen \ Cleared(w, a)) \cup {Slot(a)}
      BY <1>3 DEF Accept
    <2>2. s \in 1 .. a - 1 /\ a - s < WindowSize
      BY <2>1 DEF Received
    <2>3. Slot(s) # Slot(a)
      BY <2>2, SlotsDiffer
    <2>4. Slot(s) \in w.seen /\ Slot(s) \notin Cleared(w, a)
      BY <2>1, <2>3 DEF Received
    <2>5. s <= w.newest
      <3>1. SUFFICES ASSUME s > w.newest PROVE FALSE
        BY <1>1, <2>2
      <3>2. s \in w.newest + 1 .. a - 1
        BY <1>1, <2>2, <3>1
      <3>3. Slot(s) \in Cleared(w, a)
        BY <3>2, SlotType DEF Cleared
      <3> QED BY <2>4, <3>3
    <2> QED BY <1>1, <1>3, <2>2, <2>4, <2>5 DEF Received
  <1> QED BY <1>1, <1>2, <1>3

(* A window stays one, and its newest sequence only grows.                   *)
LEMMA AcceptType ==
    ASSUME NEW w \in Window, NEW a \in Nat
    PROVE  /\ Accept(w, a) \in Window
           /\ Accept(w, a).newest \in {w.newest, a}
           /\ Accept(w, a).newest >= w.newest
  <1>1. Slot(a) \in 0 .. WindowSize - 1
    BY SlotType
  <1>2. CASE a > w.newest
    <2>1. Accept(w, a) = [newest |-> a, seen |-> (w.seen \ Cleared(w, a)) \cup {Slot(a)}]
      BY <1>2 DEF Accept
    <2> QED BY <1>1, <1>2, <2>1 DEF Window
  <1>3. CASE ~(a > w.newest)
    <2>1. Accept(w, a) = [w EXCEPT !.seen = w.seen \cup {Slot(a)}]
      BY <1>3 DEF Accept
    <2> QED BY <1>1, <2>1 DEF Window
  <1> QED BY <1>2, <1>3

-----------------------------------------------------------------------------
(***************************************************************************)
(* Recursive functions over finite sets: TakeFragments and AcceptLane.     *)
(***************************************************************************)

(* Induction over the numbers, stated of a set.                              *)
LEMMA Induct ==
    ASSUME NEW T \in SUBSET Nat, 0 \in T, \A n \in T : n + 1 \in T
    PROVE  T = Nat
  <1> SUFFICES ASSUME Nat \ T # {} PROVE FALSE
    OBVIOUS
  <1>1. PICK n \in Nat \ T : \A m \in Nat \ T : n <= m
    BY LeastNumber
  <1>2. n # 0 /\ n - 1 \in Nat /\ ~(n <= n - 1)
    BY <1>1
  <1>3. n - 1 \in T
    BY <1>1, <1>2
  <1> QED BY <1>3

(* A set of subsets of S that holds the empty one, and every one of which it *)
(* holds what is left when an element is taken away, holds them all.         *)
LEMMA SubsetsInduct ==
    ASSUME NEW S, IsFiniteSet(S), NEW Good,
           {} \in Good,
           \A s \in SUBSET S : s # {} /\ (\A x \in s : s \ {x} \in Good) => s \in Good
    PROVE  SUBSET S \subseteq Good
  <1> DEFINE Bad == {Cardinality(s) : s \in (SUBSET S) \ Good}
  <1> SUFFICES ASSUME (SUBSET S) \ Good # {} PROVE FALSE
    OBVIOUS
  <1>1. \A s \in SUBSET S : IsFiniteSet(s) /\ Cardinality(s) \in Nat
    BY FS_Subset, FS_CardinalityType
  <1>2. Bad \in SUBSET Nat /\ Bad # {}
    BY <1>1
  <1>3. PICK k \in Bad : \A j \in Bad : k <= j
    <2> HIDE DEF Bad
    <2> QED BY <1>2, LeastNumber
  <1>4. PICK s \in (SUBSET S) \ Good : Cardinality(s) = k
    BY <1>3
  <1>5. ASSUME NEW x \in s PROVE s \ {x} \in Good
    <2>1. Cardinality(s \ {x}) = k - 1
      BY <1>1, <1>4, FS_RemoveElement
    <2>2. k \in Nat
      BY <1>1, <1>4
    <2>3. Cardinality(s \ {x}) \notin Bad
      BY <1>3, <2>1, <2>2
    <2> QED BY <1>4, <2>3
  <1> QED BY <1>4, <1>5

(* Folding S one element after another, from v: pick[s] is the last of the   *)
(* elements s, step[x][y] the value reached with x from y, and g[s] the      *)
(* value reached with all of s.                                              *)
Picks(pick, S) == \A s \in SUBSET S : s # {} => pick[s] \in s

Steps(F, S, V) == F \in [S -> [V -> V]]

FoldsTo(g, S, V, v, pick, F) ==
    /\ g \in [SUBSET S -> V]
    /\ g[{}] = v
    /\ \A s \in SUBSET S : s # {} => g[s] = F[pick[s]][g[s \ {pick[s]}]]

(* The recursive functions of the model that fold a finite set are defined: for *)
(* every S there is a g that folds it.                                       *)
LEMMA FoldExists ==
    ASSUME NEW S, IsFiniteSet(S), NEW V, NEW v \in V,
           NEW pick, Picks(pick, S), NEW F, Steps(F, S, V)
    PROVE  \E g : FoldsTo(g, S, V, v, pick, F)
  <1> USE DEF Picks, Steps
  <1> DEFINE Small(n) == {s \in SUBSET S : Cardinality(s) <= n}
             Body(g, s) == IF s = {} THEN v ELSE F[pick[s]][g[s \ {pick[s]}]]
             Good == {n \in Nat : \E g \in [Small(n) -> V] : \A s \in Small(n) : g[s] = Body(g, s)}
  <1>1. \A s \in SUBSET S : IsFiniteSet(s) /\ Cardinality(s) \in Nat
    BY FS_Subset, FS_CardinalityType
  <1>2. 0 \in Good
    <2>1. \A s \in Small(0) : s = {}
      BY <1>1, FS_EmptySet
    <2>2. [s \in Small(0) |-> v] \in [Small(0) -> V]
      OBVIOUS
    <2>3. \A t \in Small(0) : [s \in Small(0) |-> v][t] = Body([s \in Small(0) |-> v], t)
      BY <2>1
    <2> QED BY <2>2, <2>3
  <1>3. ASSUME NEW n \in Good PROVE n + 1 \in Good
    <2>1. PICK g \in [Small(n) -> V] : \A s \in Small(n) : g[s] = Body(g, s)
      OBVIOUS
    <2> DEFINE h == [s \in Small(n + 1) |-> Body(g, s)]
    <2>2. n \in Nat /\ Small(n) \subseteq Small(n + 1)
      BY <1>1
    <2>3. ASSUME NEW s \in Small(n + 1), s # {}
          PROVE  pick[s] \in S /\ s \ {pick[s]} \in Small(n)
      <3>1. pick[s] \in s /\ s \in SUBSET S
        BY <2>3
      <3>2. Cardinality(s \ {pick[s]}) = Cardinality(s) - 1
        BY <1>1, <3>1, FS_RemoveElement
      <3>3. Cardinality(s \ {pick[s]}) <= n
        BY <1>1, <2>2, <3>1, <3>2
      <3> QED BY <3>1, <3>3
    <2>4. ASSUME NEW s \in Small(n + 1) PROVE Body(g, s) \in V
      BY <2>3
    <2>5. h \in [Small(n + 1) -> V]
      BY <2>4
    <2>6. \A s \in Small(n) : h[s] = g[s]
      BY <2>1, <2>2
    <2>7. ASSUME NEW s \in Small(n + 1) PROVE h[s] = Body(h, s)
      <3>1. h[s] = Body(g, s)
        OBVIOUS
      <3>2. CASE s = {}
        BY <3>1, <3>2
      <3>3. CASE s # {}
        <4>1. h[s \ {pick[s]}] = g[s \ {pick[s]}]
          BY <2>3, <2>6, <3>3
        <4> HIDE DEF h
        <4> QED BY <3>1, <3>3, <4>1
      <3> QED BY <3>2, <3>3
    <2> HIDE DEF h
    <2>8. \E f \in [Small(n + 1) -> V] : \A s \in Small(n + 1) : f[s] = Body(f, s)
      <3> WITNESS h \in [Small(n + 1) -> V]
      <3> QED BY <2>7
    <2>9. n + 1 \in Nat
      BY <2>2
    <2> HIDE DEF Small, Body
    <2> QED BY <2>8, <2>9
  <1>4. Cardinality(S) \in Good
    <2>1. Good \in SUBSET Nat
      OBVIOUS
    <2>2. Good = Nat
      <3> HIDE DEF Good
      <3> QED BY <1>2, <1>3, <2>1, Induct
    <2> HIDE DEF Good
    <2> QED BY <1>1, <2>2
  <1>5. Small(Cardinality(S)) = SUBSET S
    <2>1. ASSUME NEW s \in SUBSET S PROVE Cardinality(s) <= Cardinality(S)
      BY FS_Subset
    <2> QED BY <2>1
  <1>6. PICK g \in [SUBSET S -> V] : \A s \in SUBSET S : g[s] = Body(g, s)
    BY <1>4, <1>5
  <1> QED BY <1>6 DEF FoldsTo

-----------------------------------------------------------------------------
(***************************************************************************)
(* ReliableSender: its books, and what each operation does to them.        *)
(***************************************************************************)

(* Max of the library is the greatest of a finite set of numbers.            *)
LEMMA GreatestIsMax ==
    ASSUME NEW T \in SUBSET Nat, T # {}, IsFiniteSet(T)
    PROVE  Max(T) \in T /\ \A m \in T : m <= Max(T)
  <1>1. PICK n \in T : \A m \in T : m <= n
    BY GreatestNumber
  <1>2. \A m \in T : n >= m
    BY <1>1
  <1>3. Max(T) \in T /\ \A m \in T : Max(T) >= m
    BY <1>1, <1>2 DEF Max
  <1> QED BY <1>3

(* A set of numbers below a bound is finite.                                 *)
LEMMA FiniteNumbers ==
    ASSUME NEW n \in Nat, NEW T, T \subseteq 0 .. n - 1
    PROVE  IsFiniteSet(T) /\ T \in SUBSET Nat
  <1>1. IsFiniteSet(0 .. n - 1)
    BY FS_Interval
  <1>2. IsFiniteSet(T)
    BY <1>1, FS_Subset
  <1> QED BY <1>2

(* What the sending half of a channel is made of.                            *)
Sender == [base : Nat, end : Nat, nextNew : Nat, acked : SUBSET Nat, lost : SUBSET Nat]

Remembered == [sequence : Nat, acked : BOOLEAN, lost : BOOLEAN, behind : Nat,
               reliable : SUBSET Nat, lane : SUBSET Nat]

LaneMessage == [sequence : Nat, repeats : Nat, sent : BOOLEAN]

Sending == [sent : SUBSET Remembered, largestAcked : Nat, threshold : Nat,
            sender : Sender, lane : SUBSET LaneMessage, owner : Owner]

(* The sender's books: a byte sent is acked, lost, or under way, and not two *)
(* of these.                                                                 *)
SenderOK(s) ==
    /\ s \in Sender
    /\ s.acked \subseteq 0 .. s.nextNew - 1
    /\ s.lost \subseteq 0 .. s.nextNew - 1
    /\ s.acked \cap s.lost = {}
    /\ s.nextNew <= s.end
    /\ s.nextNew <= PrefixEnd(s.acked) + MaxInFlight
    /\ s.base <= PrefixEnd(s.acked)

(* PrefixEnd of a set of numbers below n is at most n.                       *)
LEMMA AckedPrefix ==
    ASSUME NEW n \in Nat, NEW A, A \subseteq 0 .. n - 1
    PROVE  /\ PrefixEnd(A) \in 0 .. n
           /\ PrefixEnd(A) \notin A
           /\ 0 .. PrefixEnd(A) - 1 \subseteq A
  <1>1. IsFiniteSet(A)
    BY FiniteNumbers
  <1>2. PrefixEnd(A) \in Nat /\ PrefixEnd(A) \notin A /\ 0 .. PrefixEnd(A) - 1 \subseteq A
    BY <1>1, PrefixEndIs
  <1>3. PrefixEnd(A) <= n
    <2>1. SUFFICES ASSUME PrefixEnd(A) > n PROVE FALSE
      BY <1>2
    <2>2. n \in 0 .. PrefixEnd(A) - 1
      BY <1>2, <2>1
    <2> QED BY <1>2, <2>2
  <1> QED BY <1>2, <1>3

(* The prefix of a larger set ends no earlier.                               *)
LEMMA PrefixGrows ==
    ASSUME NEW n \in Nat, NEW A, NEW B, A \subseteq B, B \subseteq 0 .. n - 1
    PROVE  PrefixEnd(A) <= PrefixEnd(B)
  <1>1. PrefixEnd(B) \in Nat /\ PrefixEnd(B) \notin B
    <2>1. IsFiniteSet(B)
      BY FiniteNumbers
    <2> QED BY <2>1, PrefixEndIs
  <1>4. PrefixEnd(A) \in Nat /\ 0 .. PrefixEnd(A) - 1 \subseteq A
    <2>1. A \subseteq 0 .. n - 1
      OBVIOUS
    <2>2. IsFiniteSet(A)
      BY <2>1, FiniteNumbers
    <2> QED BY <2>2, PrefixEndIs
  <1>2. SUFFICES ASSUME PrefixEnd(B) < PrefixEnd(A) PROVE FALSE
    BY <1>1, <1>4
  <1>3. PrefixEnd(B) \in 0 .. PrefixEnd(A) - 1
    BY <1>1, <1>2, <1>4
  <1> QED BY <1>1, <1>3, <1>4

(* Compact drops no more than the acked prefix.                              *)
LEMMA CompactOK ==
    ASSUME NEW s, SenderOK(s)
    PROVE  /\ SenderOK(Compact(s))
           /\ Compact(s).acked = s.acked /\ Compact(s).lost = s.lost
           /\ Compact(s).nextNew = s.nextNew /\ Compact(s).end = s.end
  <1>1. PrefixEnd(s.acked) \in Nat
    BY AckedPrefix DEF SenderOK, Sender
  <1>2. Compact(s) = s \/ Compact(s) = [s EXCEPT !.base = PrefixEnd(s.acked)]
    BY DEF Compact
  <1>3. CASE Compact(s) = s
    BY <1>3
  <1>4. CASE Compact(s) = [s EXCEPT !.base = PrefixEnd(s.acked)]
    BY <1>1, <1>4 DEF SenderOK, Sender
  <1> QED BY <1>2, <1>3, <1>4

(* OnAcked keeps the sender's books.                                         *)
LEMMA OnAckedOK ==
    ASSUME NEW s, SenderOK(s), NEW X, X \subseteq 0 .. s.nextNew - 1
    PROVE  /\ SenderOK(OnAcked(s, X))
           /\ OnAcked(s, X).acked = s.acked \cup X /\ OnAcked(s, X).lost = s.lost \ X
           /\ OnAcked(s, X).nextNew = s.nextNew /\ OnAcked(s, X).end = s.end
  <1> DEFINE u == [s EXCEPT !.acked = @ \cup X, !.lost = @ \ X]
  <1>1. /\ u \in Sender
        /\ u.acked = s.acked \cup X /\ u.lost = s.lost \ X
        /\ u.nextNew = s.nextNew /\ u.end = s.end /\ u.base = s.base
    <2>1. s \in Sender /\ X \in SUBSET Nat
      BY DEF SenderOK, Sender
    <2> QED BY <2>1 DEF Sender
  <1>2. PrefixEnd(s.acked) <= PrefixEnd(u.acked)
    <2>1. s.nextNew \in Nat /\ s.acked \subseteq u.acked /\ u.acked \subseteq 0 .. s.nextNew - 1
      BY <1>1 DEF SenderOK, Sender
    <2> QED BY <2>1, PrefixGrows
  <1>3. PrefixEnd(s.acked) \in Nat /\ PrefixEnd(u.acked) \in Nat
    <2>1. s.nextNew \in Nat /\ s.acked \subseteq 0 .. s.nextNew - 1 /\ u.acked \subseteq 0 .. s.nextNew - 1
      BY <1>1 DEF SenderOK, Sender
    <2> QED BY <2>1, AckedPrefix
  <1>4. SenderOK(u)
    <2>1. /\ s.base \in Nat /\ s.nextNew \in Nat /\ s.end \in Nat /\ MaxInFlight \in Nat
          /\ s.nextNew <= PrefixEnd(s.acked) + MaxInFlight /\ s.base <= PrefixEnd(s.acked)
      BY StreamAssumption DEF SenderOK, Sender
    <2>2. u.nextNew <= PrefixEnd(u.acked) + MaxInFlight /\ u.base <= PrefixEnd(u.acked)
      BY <1>1, <1>2, <1>3, <2>1
    <2> HIDE DEF u
    <2> QED BY <1>1, <2>2 DEF SenderOK
  <1>5. OnAcked(s, X) = Compact(u)
    BY DEF OnAcked
  <1> HIDE DEF u
  <1> QED BY <1>1, <1>4, <1>5, CompactOK

(* OnLost does, and queues nothing again that was acked.                     *)
LEMMA OnLostOK ==
    ASSUME NEW s, SenderOK(s), NEW X, X \subseteq 0 .. s.nextNew - 1
    PROVE  /\ SenderOK(OnLost(s, X))
           /\ OnLost(s, X).acked = s.acked /\ OnLost(s, X).lost = s.lost \cup (X \ s.acked)
           /\ OnLost(s, X).nextNew = s.nextNew /\ OnLost(s, X).end = s.end
           /\ OnLost(s, X).base = s.base
  <1>1. s \in Sender /\ X \in SUBSET Nat
    BY DEF SenderOK, Sender
  <1>2. /\ OnLost(s, X) \in Sender
        /\ OnLost(s, X).acked = s.acked /\ OnLost(s, X).lost = s.lost \cup (X \ s.acked)
        /\ OnLost(s, X).nextNew = s.nextNew /\ OnLost(s, X).end = s.end
        /\ OnLost(s, X).base = s.base
    BY <1>1 DEF OnLost, Sender
  <1> QED BY <1>2 DEF SenderOK

(* So does Queue.                                                            *)
LEMMA QueueOK ==
    ASSUME NEW s, SenderOK(s), NEW k \in Nat
    PROVE  /\ SenderOK(Queue(s, k))
           /\ Queue(s, k).acked = s.acked /\ Queue(s, k).lost = s.lost
           /\ Queue(s, k).nextNew = s.nextNew
  <1>1. s \in Sender
    BY DEF SenderOK
  <1>2. /\ Queue(s, k) = [s EXCEPT !.end = s.end + k]
        /\ Queue(s, k) \in Sender /\ Queue(s, k).end >= s.end
    BY <1>1 DEF Queue, Sender
  <1>3. /\ Queue(s, k).acked = s.acked /\ Queue(s, k).lost = s.lost
        /\ Queue(s, k).nextNew = s.nextNew /\ Queue(s, k).base = s.base
    BY <1>1, <1>2 DEF Sender
  <1>4. s.nextNew <= Queue(s, k).end
    BY <1>1, <1>2 DEF Sender, SenderOK
  <1> QED BY <1>2, <1>3, <1>4 DEF SenderOK

(* What one datagram takes: lost bytes, and bytes never sent, within the     *)
(* limit.                                                                    *)
LEMMA WriteTakes ==
    ASSUME NEW s, SenderOK(s)
    PROVE  /\ Resends(s) \subseteq s.lost
           /\ s.nextNew + Cardinality(FirstSends(s)) \in Nat
           /\ FirstSends(s) = s.nextNew .. s.nextNew + Cardinality(FirstSends(s)) - 1
           /\ s.nextNew + Cardinality(FirstSends(s)) <= s.end
           /\ s.nextNew + Cardinality(FirstSends(s)) <= PrefixEnd(s.acked) + MaxInFlight
           /\ Cardinality(FirstSends(s)) \in Nat
  <1>1. /\ s.nextNew \in Nat /\ s.end \in Nat /\ s.nextNew <= s.end
        /\ s.nextNew <= PrefixEnd(s.acked) + MaxInFlight
        /\ PrefixEnd(s.acked) \in Nat /\ MaxInFlight \in Nat /\ Budget \in Nat
        /\ s.lost \subseteq 0 .. s.nextNew - 1
    BY StreamAssumption, AckedPrefix DEF SenderOK, Sender
  <1>2. Resends(s) \subseteq s.lost
    BY DEF Resends
  <1>3. Cardinality(Resends(s)) \in Nat
    <2>1. IsFiniteSet(Resends(s))
      BY <1>1, <1>2, FiniteNumbers
    <2> QED BY <2>1, FS_CardinalityType
  <1>4. Limit(s) \in Nat /\ s.nextNew <= Limit(s) /\ Limit(s) <= s.end
        /\ Limit(s) <= PrefixEnd(s.acked) + MaxInFlight
    BY <1>1 DEF Limit, Least
  <1> DEFINE top == Least(Limit(s), s.nextNew + Budget - Cardinality(Resends(s)))
  <1>5. top \in Int /\ top <= Limit(s)
    BY <1>1, <1>3, <1>4 DEF Least
  <1>6. FirstSends(s) = s.nextNew .. top - 1
    BY DEF FirstSends
  <1> HIDE DEF top
  <1>7. Cardinality(FirstSends(s)) = IF s.nextNew > top - 1 THEN 0 ELSE top - s.nextNew
    <2>1. Cardinality(s.nextNew .. top - 1) = IF s.nextNew > top - 1 THEN 0 ELSE (top - 1) - s.nextNew + 1
      <3>1. s.nextNew \in Int /\ top - 1 \in Int
        BY <1>1, <1>5
      <3> QED BY <3>1, FS_Interval
    <2> QED BY <1>1, <1>5, <1>6, <2>1
  <1>8. CASE s.nextNew > top - 1
    <2>1. FirstSends(s) = {} /\ Cardinality(FirstSends(s)) = 0
      BY <1>1, <1>5, <1>6, <1>7, <1>8
    <2> QED BY <1>1, <1>2, <2>1
  <1>9. CASE s.nextNew <= top - 1
    <2>1. Cardinality(FirstSends(s)) = top - s.nextNew
      BY <1>1, <1>5, <1>7, <1>9
    <2>2. s.nextNew + Cardinality(FirstSends(s)) = top /\ Cardinality(FirstSends(s)) \in Nat
      BY <1>1, <1>5, <1>9, <2>1
    <2> QED BY <1>1, <1>2, <1>4, <1>5, <1>6, <2>2
  <1> QED BY <1>1, <1>5, <1>8, <1>9

(* And so does Write, which stays within the allowance.                      *)
LEMMA AfterWriteOK ==
    ASSUME NEW s, SenderOK(s)
    PROVE  /\ SenderOK(AfterWrite(s))
           /\ AfterWrite(s).acked = s.acked /\ AfterWrite(s).lost = s.lost \ Resends(s)
           /\ AfterWrite(s).end = s.end /\ AfterWrite(s).base = s.base
           /\ AfterWrite(s).nextNew >= s.nextNew
           /\ FirstSends(s) = s.nextNew .. AfterWrite(s).nextNew - 1
           /\ Resends(s) \subseteq s.lost
  <1>1. s \in Sender
    BY DEF SenderOK
  <1>2. /\ Resends(s) \subseteq s.lost
        /\ s.nextNew + Cardinality(FirstSends(s)) \in Nat
        /\ FirstSends(s) = s.nextNew .. s.nextNew + Cardinality(FirstSends(s)) - 1
        /\ s.nextNew + Cardinality(FirstSends(s)) <= s.end
        /\ s.nextNew + Cardinality(FirstSends(s)) <= PrefixEnd(s.acked) + MaxInFlight
        /\ Cardinality(FirstSends(s)) \in Nat
    BY WriteTakes
  <1> DEFINE n == s.nextNew + Cardinality(FirstSends(s))
  <1>8. FirstSends(s) = s.nextNew .. n - 1
    <2>1. n - 1 = s.nextNew + Cardinality(FirstSends(s)) - 1
      BY <1>1, <1>2 DEF Sender
    <2> QED BY <1>2, <2>1
  <1>3. AfterWrite(s) = [s EXCEPT !.lost = s.lost \ Resends(s), !.nextNew = n]
    BY <1>1 DEF AfterWrite, Sender
  <1>4. n \in Nat /\ n >= s.nextNew /\ s.nextNew \in Nat
    BY <1>1, <1>2 DEF Sender
  <1>5. n <= s.end /\ n <= PrefixEnd(s.acked) + MaxInFlight
    BY <1>2
  <1> HIDE DEF n
  <1>6. /\ AfterWrite(s) \in Sender
        /\ AfterWrite(s).acked = s.acked /\ AfterWrite(s).lost = s.lost \ Resends(s)
        /\ AfterWrite(s).end = s.end /\ AfterWrite(s).base = s.base
        /\ AfterWrite(s).nextNew = n
    BY <1>1, <1>3, <1>4 DEF Sender
  <1>7. s.acked \subseteq 0 .. n - 1 /\ s.lost \ Resends(s) \subseteq 0 .. n - 1
    BY <1>1, <1>4 DEF SenderOK
  <1> QED BY <1>2, <1>4, <1>5, <1>6, <1>7, <1>8 DEF SenderOK

-----------------------------------------------------------------------------
(***************************************************************************)
(* The sending half: mSent and what acks and losses do to it.              *)
(***************************************************************************)

(* The sending half of a channel that has used the sequences below n.        *)
SendingOK(t, n) ==
    /\ t \in Sending
    /\ SenderOK(t.sender)
    /\ t.largestAcked < n
    /\ \A p \in t.sent : p.sequence \in 1 .. n - 1
    /\ \A p \in t.sent : p.reliable \subseteq 0 .. t.sender.nextNew - 1

(* Every byte sent is acked, queued to go again, or carried by a datagram    *)
(* that may still be acked or counted lost.                                  *)
Owed(t) ==
    \A o \in 0 .. t.sender.nextNew - 1 :
        \/ o \in t.sender.acked \cup t.sender.lost
        \/ \E p \in t.sent : ~p.acked /\ ~p.lost /\ o \in p.reliable

(* What u remembers as sent, t remembered: with the same bytes.              *)
Remembers(t, u) ==
    \A p \in u.sent : \E q \in t.sent :
        q.sequence = p.sequence /\ q.reliable = p.reliable

(* DropSettled forgets only datagrams, and none that may still be acked or   *)
(* counted lost.                                                             *)
LEMMA DropSettledKeeps ==
    ASSUME NEW t \in Sending, NEW x
    PROVE  /\ DropSettled(t, x) \in Sending
           /\ DropSettled(t, x).sender = t.sender
           /\ DropSettled(t, x).largestAcked = t.largestAcked
           /\ DropSettled(t, x).lane = t.lane
           /\ DropSettled(t, x).owner = t.owner
           /\ DropSettled(t, x).sent \subseteq t.sent
           /\ \A p \in t.sent : ~p.acked /\ ~p.lost => p \in DropSettled(t, x).sent
  <1> DEFINE kept == {p \in t.sent : \E q \in t.sent :
                        q.sequence <= p.sequence /\ ~Settled(t, q, x)}
  <1>1. DropSettled(t, x) = [t EXCEPT !.sent = kept]
    BY DEF DropSettled
  <1>2. kept \subseteq t.sent
    OBVIOUS
  <1>3. ASSUME NEW p \in t.sent, ~p.acked, ~p.lost PROVE p \in kept
    <2>1. p.sequence <= p.sequence
      BY DEF Sending, Remembered
    <2>2. ~Settled(t, p, x)
      BY <1>3 DEF Settled
    <2> QED BY <2>1, <2>2
  <1> HIDE DEF kept
  <1>4. /\ DropSettled(t, x) \in Sending
        /\ DropSettled(t, x).sent = kept
    BY <1>1, <1>2 DEF Sending
  <1>5. /\ DropSettled(t, x).sender = t.sender
        /\ DropSettled(t, x).largestAcked = t.largestAcked
        /\ DropSettled(t, x).lane = t.lane
        /\ DropSettled(t, x).owner = t.owner
    BY <1>1 DEF Sending
  <1> QED BY <1>2, <1>3, <1>4, <1>5

(* A datagram counted lost keeps its sequence and bytes.                     *)
LEMMA MarkLostIs ==
    ASSUME NEW t \in Sending, NEW p \in Remembered
    PROVE  /\ MarkLost(t, p) \in Remembered
           /\ MarkLost(t, p).sequence = p.sequence
           /\ MarkLost(t, p).reliable = p.reliable
  <1>1. BehindBy(t, p) \in Nat
    BY DEF BehindBy, Sending, Remembered
  <1> DEFINE b == IF BehindBy(t, p) >= t.threshold THEN BehindBy(t, p) ELSE 0
  <1>2. b \in Nat
    BY <1>1
  <1>3. MarkLost(t, p) = [p EXCEPT !.lost = TRUE, !.behind = b]
    BY DEF MarkLost
  <1> HIDE DEF b
  <1> QED BY <1>2, <1>3 DEF Remembered

(* DetectLoss takes nothing off the sender's books: what a datagram counted  *)
(* lost carried is acked or queued to go again.                              *)
LEMMA DetectLossOK ==
    ASSUME NEW n \in Nat, NEW t, SendingOK(t, n), NEW a, NEW l, NEW x,
           NEW u, u = DetectLoss(t, a, l, x)
    PROVE  /\ SendingOK(u, n)
           /\ u.sender.acked = t.sender.acked /\ u.sender.nextNew = t.sender.nextNew
           /\ u.sender.end = t.sender.end /\ u.sender.base = t.sender.base
           /\ u.lane = t.lane /\ u.owner = t.owner
           /\ Remembers(t, u)
           /\ Owed(t) => Owed(u)
  <1> DEFINE gone == {p \in t.sent : CountsAsLost(t, p, a, l)}
             bytes == UNION {p.reliable : p \in gone}
             marked == {MarkLost(t, p) : p \in gone}
             m == [t EXCEPT !.sent = (t.sent \ gone) \cup marked,
                            !.sender = OnLost(t.sender, bytes)]
  <1>1. t \in Sending /\ SenderOK(t.sender)
    BY DEF SendingOK
  <1>2. bytes \subseteq 0 .. t.sender.nextNew - 1
    BY DEF SendingOK
  <1>3. gone \subseteq t.sent /\ t.sent \subseteq Remembered
    BY <1>1 DEF Sending
  <1>4. \A p \in marked : /\ p \in Remembered
                          /\ \E q \in gone : p.sequence = q.sequence /\ p.reliable = q.reliable
    BY <1>1, <1>3, MarkLostIs
  <1>5. u = DropSettled(m, x)
    <2>1. m = [t EXCEPT !.sent = (@ \ gone) \cup marked, !.sender = OnLost(@, bytes)]
      BY <1>1 DEF Sending
    <2> QED BY <2>1 DEF DetectLoss
  <1>7. \A p \in gone : p.reliable \subseteq bytes
    OBVIOUS
  <1>8. \A p \in t.sent : p \in gone \/ p \in (t.sent \ gone) \cup marked
    OBVIOUS
  <1> DEFINE s == OnLost(t.sender, bytes)
  <1>9. /\ SenderOK(s)
        /\ s.acked = t.sender.acked /\ s.lost = t.sender.lost \cup (bytes \ t.sender.acked)
        /\ s.nextNew = t.sender.nextNew /\ s.end = t.sender.end /\ s.base = t.sender.base
    <2> HIDE DEF bytes
    <2> QED BY <1>1, <1>2, OnLostOK
  <1> HIDE DEF gone, bytes, marked, s
  <1>10. /\ m \in Sending
         /\ m.sent = (t.sent \ gone) \cup marked /\ m.sender = s
    <2>1. s \in Sender
      BY <1>9 DEF SenderOK
    <2>2. (t.sent \ gone) \cup marked \in SUBSET Remembered
      BY <1>3, <1>4
    <2> QED BY <1>1, <2>1, <2>2 DEF Sending, s
  <1>11. m.largestAcked = t.largestAcked /\ m.lane = t.lane /\ m.owner = t.owner
    BY <1>1 DEF Sending
  <1> HIDE DEF m
  <1>12. /\ u \in Sending /\ u.sender = s /\ u.largestAcked = t.largestAcked
         /\ u.lane = t.lane /\ u.owner = t.owner
         /\ u.sent \subseteq (t.sent \ gone) \cup marked
         /\ \A p \in m.sent : ~p.acked /\ ~p.lost => p \in u.sent
    BY <1>5, <1>10, <1>11, DropSettledKeeps
  <1>13. Remembers(t, u)
    BY <1>3, <1>4, <1>12 DEF Remembers
  <1>14. SendingOK(u, n)
    <2>1. \A p \in u.sent : p.sequence \in 1 .. n - 1
      BY <1>13 DEF Remembers, SendingOK
    <2>2. \A p \in u.sent : p.reliable \subseteq 0 .. u.sender.nextNew - 1
      BY <1>9, <1>12, <1>13 DEF Remembers, SendingOK
    <2> QED BY <1>9, <1>12, <2>1, <2>2 DEF SendingOK
  <1>15. ASSUME Owed(t) PROVE Owed(u)
    <2>1. SUFFICES ASSUME NEW o \in 0 .. t.sender.nextNew - 1,
                          o \notin s.acked \cup s.lost
                   PROVE  \E p \in u.sent : ~p.acked /\ ~p.lost /\ o \in p.reliable
      BY <1>9, <1>12 DEF Owed
    <2>2. o \notin t.sender.acked \cup t.sender.lost /\ o \notin bytes
      BY <1>9, <2>1
    <2>3. PICK p \in t.sent : ~p.acked /\ ~p.lost /\ o \in p.reliable
      BY <1>15, <2>1, <2>2 DEF Owed
    <2>4. p \notin gone
      BY <1>7, <2>2, <2>3
    <2>5. p \in m.sent
      BY <1>10, <2>3, <2>4
    <2> QED BY <1>12, <2>3, <2>5
  <1> QED BY <1>9, <1>12, <1>13, <1>14, <1>15

(* The reordering allowance stays a number.                                  *)
LEMMA AllowanceIs ==
    ASSUME NEW t \in Sending, NEW now \in SUBSET Remembered
    PROVE  Max(Allowances(t, now)) \in Nat
  <1> DEFINE A == Allowances(t, now)
             top == IF t.threshold >= MaxThreshold THEN t.threshold ELSE MaxThreshold
  <1>1. t.threshold \in Nat /\ MaxThreshold \in Nat
    BY ChannelAssumption DEF Sending
  <1>2. \A p \in now : Least(p.behind + 1, MaxThreshold) \in 0 .. MaxThreshold
    BY <1>1 DEF Least, Remembered
  <1>3. \A k \in A : k \in Nat /\ k <= top
    BY <1>1, <1>2 DEF Allowances
  <1>4. t.threshold \in A /\ top \in Nat
    BY <1>1 DEF Allowances
  <1> HIDE DEF A, top
  <1>5. A \in SUBSET Nat /\ A # {}
    BY <1>3, <1>4
  <1>6. IsFiniteSet(A)
    BY <1>3, <1>4, <1>5, FS_BoundedSetOfNaturals
  <1> QED BY <1>5, <1>6, GreatestIsMax DEF A

(* ProcessAcks counts as acked only what datagrams named by the acks         *)
(* carried, and takes nothing else off the books.                            *)
LEMMA ProcessAcksOK ==
    ASSUME NEW n \in Nat, NEW t, SendingOK(t, n), NEW d, d.ack \in Nat, d.ack < n, NEW x,
           NEW u, u = ProcessAcks(t, d, x)
    PROVE  /\ SendingOK(u, n)
           /\ t.sender.acked \subseteq u.sender.acked
           /\ \A o \in u.sender.acked \ t.sender.acked :
                \E p \in t.sent : p.sequence \in d.acks /\ o \in p.reliable
           /\ u.sender.nextNew = t.sender.nextNew
           /\ u.lane \subseteq t.lane /\ u.owner = t.owner
           /\ Remembers(t, u)
           /\ Owed(t) => Owed(u)
  <1>1. t \in Sending /\ SenderOK(t.sender)
    BY DEF SendingOK
  <1>2. CASE d.ack = 0
    <2>1. u = t
      BY <1>2 DEF ProcessAcks
    <2> QED BY <2>1 DEF Remembers
  <1>3. CASE d.ack # 0
    <2> DEFINE now == {p \in t.sent : ~p.acked /\ p.sequence \in d.acks}
               bytes == UNION {p.reliable : p \in now}
               marked == {[p EXCEPT !.acked = TRUE] : p \in now}
               s == OnAcked(t.sender, bytes)
               largest == IF d.ack > t.largestAcked THEN d.ack ELSE t.largestAcked
               allowance == Max(Allowances(t, now))
               lane == LaneAcked(t.lane, UNION {p.lane : p \in now})
               m == [t EXCEPT !.sent = (t.sent \ now) \cup marked,
                              !.largestAcked = largest, !.threshold = allowance,
                              !.sender = s, !.lane = lane]
    <2>1. bytes \subseteq 0 .. t.sender.nextNew - 1
      BY DEF SendingOK
    <2>2. now \subseteq t.sent /\ t.sent \subseteq Remembered
      BY <1>1 DEF Sending
    <2>3. \A p \in marked : /\ p \in Remembered
                            /\ \E q \in now : p.sequence = q.sequence /\ p.reliable = q.reliable
      BY <2>2 DEF Remembered
    <2>4. u = DropSettled(m, x)
      <3>1. m = [t EXCEPT !.sent = (@ \ now) \cup marked,
                          !.largestAcked = IF d.ack > @ THEN d.ack ELSE @,
                          !.threshold = allowance,
                          !.sender = OnAcked(@, bytes),
                          !.lane = LaneAcked(@, UNION {p.lane : p \in now})]
        BY <1>1 DEF Sending
      <3> QED BY <1>3, <3>1 DEF ProcessAcks
    <2>5. \A o \in bytes : \E p \in t.sent : p.sequence \in d.acks /\ o \in p.reliable
      OBVIOUS
    <2>6. \A p \in now : p.reliable \subseteq bytes
      OBVIOUS
    <2>7. /\ SenderOK(s)
          /\ s.acked = t.sender.acked \cup bytes /\ s.lost = t.sender.lost \ bytes
          /\ s.nextNew = t.sender.nextNew
      <3> HIDE DEF bytes
      <3> QED BY <1>1, <2>1, OnAckedOK
    <2>8. allowance \in Nat
      <3>1. now \in SUBSET Remembered
        BY <2>2
      <3> HIDE DEF now
      <3> QED BY <1>1, <3>1, AllowanceIs
    <2>9. lane \subseteq t.lane
      BY DEF LaneAcked
    <2>10. largest \in Nat /\ largest < n
      BY <1>1 DEF Sending, SendingOK
    <2> HIDE DEF now, bytes, marked, s, largest, allowance, lane
    <2>11. s \in Sender /\ (t.sent \ now) \cup marked \in SUBSET Remembered
           /\ lane \in SUBSET LaneMessage
      BY <1>1, <2>2, <2>3, <2>7, <2>9 DEF SenderOK, Sending
    <2>12. /\ m \in Sending
           /\ m.sent = (t.sent \ now) \cup marked /\ m.sender = s
           /\ m.largestAcked = largest /\ m.lane = lane /\ m.owner = t.owner
      BY <1>1, <2>8, <2>10, <2>11 DEF Sending
    <2> HIDE DEF m
    <2>13. /\ u \in Sending /\ u.sender = s /\ u.largestAcked = largest
           /\ u.lane = lane /\ u.owner = t.owner
           /\ u.sent \subseteq (t.sent \ now) \cup marked
           /\ \A p \in m.sent : ~p.acked /\ ~p.lost => p \in u.sent
      BY <2>4, <2>12, DropSettledKeeps
    <2>14. Remembers(t, u)
      BY <2>2, <2>3, <2>13 DEF Remembers
    <2>15. SendingOK(u, n)
      <3>1. \A p \in u.sent : p.sequence \in 1 .. n - 1
        BY <2>14 DEF Remembers, SendingOK
      <3>2. \A p \in u.sent : p.reliable \subseteq 0 .. u.sender.nextNew - 1
        BY <2>7, <2>13, <2>14 DEF Remembers, SendingOK
      <3> QED BY <2>7, <2>10, <2>13, <3>1, <3>2 DEF SendingOK
    <2>16. ASSUME Owed(t) PROVE Owed(u)
      <3>1. SUFFICES ASSUME NEW o \in 0 .. t.sender.nextNew - 1,
                            o \notin s.acked \cup s.lost
                     PROVE  \E p \in u.sent : ~p.acked /\ ~p.lost /\ o \in p.reliable
        BY <2>7, <2>13 DEF Owed
      <3>2. o \notin t.sender.acked \cup t.sender.lost /\ o \notin bytes
        BY <2>7, <3>1
      <3>3. PICK p \in t.sent : ~p.acked /\ ~p.lost /\ o \in p.reliable
        BY <2>16, <3>1, <3>2 DEF Owed
      <3>4. p \notin now
        BY <2>6, <3>2, <3>3
      <3>5. p \in m.sent
        BY <2>12, <3>3, <3>4
      <3> QED BY <2>13, <3>3, <3>5
    <2>17. /\ t.sender.acked \subseteq u.sender.acked
           /\ \A o \in u.sender.acked \ t.sender.acked :
                \E p \in t.sent : p.sequence \in d.acks /\ o \in p.reliable
      BY <2>5, <2>7, <2>13
    <2> QED BY <2>7, <2>9, <2>13, <2>14, <2>15, <2>16, <2>17
  <1> QED BY <1>2, <1>3

-----------------------------------------------------------------------------
(***************************************************************************)
(* The payload of a datagram.                                              *)
(***************************************************************************)

(* WriteLane invents no message, and writes only what the lane holds.        *)
LEMMA WrittenLane ==
    ASSUME NEW lane, lane \subseteq LaneMessage
    PROVE  /\ AfterWriteLane(lane) \subseteq LaneMessage
           /\ \A m \in AfterWriteLane(lane) : \E n \in lane : n.sequence = m.sequence
           /\ LaneCarried(lane) \subseteq {m.sequence : m \in lane}
  <1>1. ASSUME NEW m \in lane
        PROVE  Written(m) \in LaneMessage /\ Written(m).sequence = m.sequence
    <2>1. m \in LaneMessage
      OBVIOUS
    <2>2. CASE ~m.sent
      BY <2>1, <2>2 DEF Written, LaneMessage
    <2>3. CASE m.sent /\ m.repeats > 0
      BY <2>1, <2>3 DEF Written, LaneMessage
    <2>4. CASE m.sent /\ ~(m.repeats > 0)
      <3>1. Written(m) = m
        BY <2>4 DEF Written
      <3> QED BY <2>1, <3>1
    <2> QED BY <2>2, <2>3, <2>4
  <1>2. \A m \in AfterWriteLane(lane) : \E n \in lane : m = Written(n)
    BY DEF AfterWriteLane
  <1>3. LaneCarried(lane) \subseteq {m.sequence : m \in lane}
    BY DEF LaneCarried
  <1> QED BY <1>1, <1>2, <1>3

(* The sending half once the payload of a datagram with data is written.     *)
Taken(t) == [t EXCEPT !.sender = AfterWrite(@), !.lane = AfterWriteLane(@)]

Taking(t) == Resends(t.sender) \cup FirstSends(t.sender)

(* Writing a payload keeps the books of the sending half.                    *)
LEMMA TakenOK ==
    ASSUME NEW n \in Nat, NEW t, SendingOK(t, n)
    PROVE  /\ SendingOK(Taken(t), n)
           /\ Taken(t).sender = AfterWrite(t.sender)
           /\ Taken(t).sent = t.sent /\ Taken(t).owner = t.owner
           /\ Taken(t).sender.acked = t.sender.acked
           /\ Taken(t).sender.nextNew >= t.sender.nextNew
           /\ Taken(t).sender.nextNew \in Nat
           /\ Taking(t) \subseteq 0 .. Taken(t).sender.nextNew - 1
           /\ \A m \in Taken(t).lane : \E k \in t.lane : k.sequence = m.sequence
  <1>1. t \in Sending /\ SenderOK(t.sender)
    BY DEF SendingOK
  <1> DEFINE s == AfterWrite(t.sender)
             lane == AfterWriteLane(t.lane)
  <1>2. /\ SenderOK(s)
        /\ s.acked = t.sender.acked /\ s.lost = t.sender.lost \ Resends(t.sender)
        /\ s.nextNew >= t.sender.nextNew
        /\ FirstSends(t.sender) = t.sender.nextNew .. s.nextNew - 1
        /\ Resends(t.sender) \subseteq t.sender.lost
    BY <1>1, AfterWriteOK
  <1>3. lane \subseteq LaneMessage /\ \A m \in lane : \E k \in t.lane : k.sequence = m.sequence
    BY <1>1, WrittenLane DEF Sending
  <1>4. Taken(t) = [t EXCEPT !.sender = s, !.lane = lane]
    BY <1>1 DEF Taken, Sending
  <1> HIDE DEF s, lane
  <1>5. s \in Sender /\ s.nextNew \in Nat /\ t.sender.nextNew \in Nat
    BY <1>1, <1>2 DEF SenderOK, Sender
  <1>6. /\ Taken(t) \in Sending
        /\ Taken(t).sender = s /\ Taken(t).lane = lane
        /\ Taken(t).sent = t.sent /\ Taken(t).owner = t.owner
        /\ Taken(t).largestAcked = t.largestAcked
    BY <1>1, <1>3, <1>4, <1>5 DEF Sending
  <1>7. \A p \in t.sent : p.reliable \subseteq 0 .. s.nextNew - 1
    BY <1>2, <1>5 DEF SendingOK
  <1>8. SendingOK(Taken(t), n)
    BY <1>2, <1>6, <1>7 DEF SendingOK
  <1>9. Taking(t) \subseteq 0 .. s.nextNew - 1
    <2>1. Resends(t.sender) \subseteq 0 .. s.nextNew - 1
      BY <1>1, <1>2, <1>5 DEF SenderOK
    <2>2. FirstSends(t.sender) \subseteq 0 .. s.nextNew - 1
      BY <1>2, <1>5
    <2> QED BY <2>1, <2>2 DEF Taking
  <1> QED BY <1>2, <1>3, <1>5, <1>6, <1>8, <1>9 DEF s

(* What mSent keeps of a datagram that has just gone out.                    *)
LEMMA SentIs ==
    ASSUME NEW n \in Nat, NEW bytes \in SUBSET Nat, NEW lane \in SUBSET Nat
    PROVE  /\ Sent(n, bytes, lane) \in Remembered
           /\ Sent(n, bytes, lane).sequence = n
           /\ Sent(n, bytes, lane).reliable = bytes
           /\ ~Sent(n, bytes, lane).acked /\ ~Sent(n, bytes, lane).lost
  BY DEF Sent, Remembered

(* A datagram that went out is remembered.                                   *)
Remembering(t, n, bytes, lane) == [t EXCEPT !.sent = @ \cup {Sent(n, bytes, lane)}]

(* It keeps the books, of a half that has used one sequence more.            *)
LEMMA RememberedOK ==
    ASSUME NEW n \in Nat \ {0}, NEW t, SendingOK(t, n),
           NEW bytes, bytes \subseteq 0 .. t.sender.nextNew - 1, NEW lane \in SUBSET Nat
    PROVE  /\ SendingOK(Remembering(t, n, bytes, lane), n + 1)
           /\ Remembering(t, n, bytes, lane).sent = t.sent \cup {Sent(n, bytes, lane)}
           /\ Remembering(t, n, bytes, lane).sender = t.sender
           /\ Remembering(t, n, bytes, lane).lane = t.lane
           /\ Remembering(t, n, bytes, lane).owner = t.owner
  <1> DEFINE u == Remembering(t, n, bytes, lane)
  <1>1. t \in Sending
    BY DEF SendingOK
  <1>2. bytes \in SUBSET Nat
    BY <1>1 DEF Sending, Sender
  <1> DEFINE p == Sent(n, bytes, lane)
  <1>3. p \in Remembered /\ p.sequence = n /\ p.reliable = bytes
    BY <1>2, SentIs
  <1> HIDE DEF p
  <1>4. u = [t EXCEPT !.sent = t.sent \cup {p}]
    BY <1>1 DEF Sending, p, Remembering
  <1> HIDE DEF u
  <1>5. u \in Sending /\ u.sent = t.sent \cup {p}
    BY <1>1, <1>3, <1>4 DEF Sending
  <1>6. /\ u.sender = t.sender /\ u.lane = t.lane /\ u.owner = t.owner
        /\ u.largestAcked = t.largestAcked
    BY <1>1, <1>4 DEF Sending
  <1>7. u.largestAcked < n + 1
    BY <1>1, <1>6 DEF SendingOK, Sending
  <1>8. ASSUME NEW q \in u.sent
        PROVE  q.sequence \in 1 .. (n + 1) - 1 /\ q.reliable \subseteq 0 .. t.sender.nextNew - 1
    <2>1. CASE q = p
      <3>1. p.sequence \in 1 .. (n + 1) - 1
        BY <1>3
      <3>2. p.reliable \subseteq 0 .. t.sender.nextNew - 1
        BY <1>3
      <3> QED BY <2>1, <3>1, <3>2
    <2>2. CASE q \in t.sent
      <3>1. q.sequence \in 1 .. n - 1 /\ q.reliable \subseteq 0 .. t.sender.nextNew - 1
        BY <2>2 DEF SendingOK
      <3> QED BY <3>1
    <2> QED BY <1>5, <2>1, <2>2
  <1>9. SendingOK(u, n + 1)
    BY <1>5, <1>6, <1>7, <1>8 DEF SendingOK
  <1> QED BY <1>5, <1>6, <1>9 DEF u, p

(* The sending half once a datagram with data is out.                        *)
LEMMA TakenIsSent ==
    ASSUME NEW n \in Nat \ {0}, NEW t, SendingOK(t, n), NEW lane \in SUBSET Nat
    PROVE  /\ SendingOK(Remembering(Taken(t), n, Taking(t), lane), n + 1)
           /\ Remembering(Taken(t), n, Taking(t), lane).sent
                = t.sent \cup {Sent(n, Taking(t), lane)}
           /\ Remembering(Taken(t), n, Taking(t), lane).sender = Taken(t).sender
           /\ Remembering(Taken(t), n, Taking(t), lane).lane = Taken(t).lane
           /\ Remembering(Taken(t), n, Taking(t), lane).owner = Taken(t).owner
  <1>1. /\ SendingOK(Taken(t), n)
        /\ Taken(t).sent = t.sent
        /\ Taking(t) \subseteq 0 .. Taken(t).sender.nextNew - 1
    BY TakenOK
  <1> QED BY <1>1, RememberedOK

(* What was owed stays owed when bytes are taken into a datagram.            *)
LEMMA TakenIsOwed ==
    ASSUME NEW n \in Nat \ {0}, NEW t, SendingOK(t, n), Owed(t), NEW lane \in SUBSET Nat
    PROVE  Owed(Remembering(Taken(t), n, Taking(t), lane))
  <1> DEFINE u == Remembering(Taken(t), n, Taking(t), lane)
  <1>1. /\ SendingOK(Taken(t), n)
        /\ Taken(t).sender = AfterWrite(t.sender)
        /\ Taken(t).sent = t.sent
        /\ Taking(t) \subseteq 0 .. Taken(t).sender.nextNew - 1
    BY TakenOK
  <1>2. /\ u.sent = t.sent \cup {Sent(n, Taking(t), lane)}
        /\ u.sender = AfterWrite(t.sender)
    BY <1>1, TakenIsSent
  <1> HIDE DEF u
  <1>3. SenderOK(t.sender)
    BY DEF SendingOK
  <1> DEFINE s == AfterWrite(t.sender)
  <1>4. /\ s.acked = t.sender.acked /\ s.lost = t.sender.lost \ Resends(t.sender)
        /\ FirstSends(t.sender) = t.sender.nextNew .. s.nextNew - 1
        /\ s.nextNew \in Nat /\ t.sender.nextNew \in Nat
    BY <1>3, AfterWriteOK DEF SenderOK, Sender
  <1>5. Taking(t) \in SUBSET Nat
    BY <1>1, <1>4
  <1> HIDE DEF s
  <1>6. SUFFICES ASSUME NEW o \in 0 .. s.nextNew - 1, o \notin s.acked \cup s.lost
                 PROVE  \E p \in u.sent : ~p.acked /\ ~p.lost /\ o \in p.reliable
    BY <1>2 DEF Owed, s, u
  <1>7. CASE o \in Taking(t)
    <2>1. /\ Sent(n, Taking(t), lane) \in u.sent
          /\ Sent(n, Taking(t), lane).reliable = Taking(t)
          /\ ~Sent(n, Taking(t), lane).acked /\ ~Sent(n, Taking(t), lane).lost
      <3>1. /\ Sent(n, Taking(t), lane).reliable = Taking(t)
            /\ ~Sent(n, Taking(t), lane).acked /\ ~Sent(n, Taking(t), lane).lost
        BY <1>5, SentIs
      <3> QED BY <1>2, <3>1
    <2> QED BY <1>7, <2>1
  <1>8. CASE o \notin Taking(t)
    <2>1. o \notin Resends(t.sender) /\ o \notin FirstSends(t.sender)
      BY <1>8 DEF Taking
    <2>2. o \in 0 .. t.sender.nextNew - 1 /\ o \notin t.sender.acked \cup t.sender.lost
      BY <1>4, <1>6, <2>1
    <2>3. PICK p \in t.sent : ~p.acked /\ ~p.lost /\ o \in p.reliable
      BY <2>2 DEF Owed
    <2> QED BY <1>2, <2>3
  <1> QED BY <1>7, <1>8 DEF u

(* The runs of a set of offsets cover it.                                    *)
LEMMA RunsCover ==
    ASSUME NEW n \in Nat, NEW S, S \subseteq 0 .. n - 1
    PROVE  /\ Runs(S) \subseteq (0 .. n) \X (0 .. n)
           /\ \A o \in S : \E f \in Runs(S) : f[1] <= o /\ o < f[2]
  <1>1. ASSUME NEW f \in Runs(S) PROVE f \in (0 .. n) \X (0 .. n)
    <2>1. f \in S \X {o + 1 : o \in S}
      BY DEF Runs
    <2>2. f = <<f[1], f[2]>> /\ f[1] \in S /\ f[2] \in {o + 1 : o \in S}
      BY <2>1
    <2>3. f[1] \in 0 .. n /\ f[2] \in 0 .. n
      BY <2>2
    <2> QED BY <2>2, <2>3
  <1>2. ASSUME NEW o \in S PROVE \E f \in Runs(S) : f[1] <= o /\ o < f[2]
    <2> DEFINE Below == {x \in Nat : x <= o /\ x .. o \subseteq S}
               Above == {x \in Nat : x > o /\ x \notin S}
    <2>1. o \in Nat /\ o < n
      OBVIOUS
    <2>2. o \in Below /\ n \in Above
      BY <2>1
    <2>3. PICK b \in Below : \A x \in Below : b <= x
      <3>1. Below \in SUBSET Nat /\ Below # {}
        BY <2>2
      <3> HIDE DEF Below
      <3> QED BY <3>1, LeastNumber
    <2>4. PICK e \in Above : \A x \in Above : e <= x
      <3>1. Above \in SUBSET Nat /\ Above # {}
        BY <2>2
      <3> HIDE DEF Above
      <3> QED BY <3>1, LeastNumber
    <2>5. b \in S /\ b \in Nat /\ b <= o
      BY <2>1, <2>3
    <2>6. e \in Nat /\ o < e /\ e \notin S
      BY <2>4
    <2>7. b - 1 \notin S
      <3>1. SUFFICES ASSUME b - 1 \in S PROVE FALSE
        OBVIOUS
      <3>2. b - 1 \in Nat
        BY <3>1
      <3>3. \A x \in b - 1 .. o : x \in S
        <4>1. TAKE x \in b - 1 .. o
        <4>2. CASE x = b - 1
          BY <3>1, <4>2
        <4>3. CASE x # b - 1
          <5>1. x \in b .. o
            BY <2>5, <4>1, <4>3
          <5> QED BY <2>3, <5>1
        <4> QED BY <4>2, <4>3
      <3>4. b - 1 \in Below
        BY <2>1, <2>5, <3>2, <3>3
      <3> QED BY <2>3, <2>5, <3>4
    <2>8. \A x \in b .. e - 1 : x \in S
      <3>1. TAKE x \in b .. e - 1
      <3>2. CASE x <= o
        <4>1. x \in b .. o
          BY <2>1, <2>5, <2>6, <3>2
        <4> QED BY <2>3, <4>1
      <3>3. CASE x > o
        <4>1. x \in Nat /\ ~(e <= x)
          BY <2>5, <2>6
        <4> QED BY <2>4, <3>3, <4>1
      <3> QED BY <2>1, <2>5, <3>2, <3>3
    <2>9. e - 1 \in b .. e - 1 /\ e = (e - 1) + 1
      BY <2>1, <2>5, <2>6
    <2>10. <<b, e>> \in S \X {x + 1 : x \in S}
      BY <2>5, <2>8, <2>9
    <2>11. <<b, e>> \in Runs(S)
      BY <2>1, <2>5, <2>6, <2>7, <2>8, <2>10 DEF Runs
    <2> QED BY <2>5, <2>6, <2>11
  <1> QED BY <1>1, <1>2

(* The fragments of a datagram lie in the stream, and cover what it took.    *)
LEMMA FragmentsCover ==
    ASSUME NEW n \in Nat, NEW t, SendingOK(t, n)
    PROVE  /\ Fragments(t.sender) \subseteq
                (0 .. Taken(t).sender.nextNew) \X (0 .. Taken(t).sender.nextNew)
           /\ \A o \in Taking(t) : \E f \in Fragments(t.sender) : f[1] <= o /\ o < f[2]
  <1> DEFINE m == Taken(t).sender.nextNew
  <1>1. m \in Nat /\ Taking(t) \subseteq 0 .. m - 1
    BY TakenOK
  <1>2. Resends(t.sender) \subseteq 0 .. m - 1 /\ FirstSends(t.sender) \subseteq 0 .. m - 1
    BY <1>1 DEF Taking
  <1> HIDE DEF m
  <1>3. /\ Runs(Resends(t.sender)) \subseteq (0 .. m) \X (0 .. m)
        /\ \A o \in Resends(t.sender) : \E f \in Runs(Resends(t.sender)) : f[1] <= o /\ o < f[2]
    BY <1>1, <1>2, RunsCover
  <1>4. /\ Runs(FirstSends(t.sender)) \subseteq (0 .. m) \X (0 .. m)
        /\ \A o \in FirstSends(t.sender) : \E f \in Runs(FirstSends(t.sender)) : f[1] <= o /\ o < f[2]
    BY <1>1, <1>2, RunsCover
  <1> QED BY <1>3, <1>4 DEF Fragments, Taking, m

-----------------------------------------------------------------------------
(***************************************************************************)
(* ReliableReceiver.                                                       *)
(***************************************************************************)

(* A receiver that holds nothing past the first n bytes.                     *)
ReceiverOK(r, n) ==
    /\ r.delivered \in 0 .. n
    /\ r.held \subseteq r.delivered + 1 .. n - 1

Receivers(n) ==
    {r \in [delivered : 0 .. n, held : SUBSET (0 .. n - 1)] : ReceiverOK(r, n)}

(* Append delivers or holds what it is given, and drops nothing it had.      *)
LEMMA TakeInOK ==
    ASSUME NEW n \in Nat, NEW r \in Receivers(n),
           NEW X, X \subseteq r.delivered .. n - 1
    PROVE  /\ TakeIn(r, X) \in Receivers(n)
           /\ TakeIn(r, X).delivered >= r.delivered
           /\ \A o \in Int : Has(r, o) \/ o \in X => Has(TakeIn(r, X), o)
  <1>1. /\ r.delivered \in 0 .. n /\ r.held \subseteq r.delivered + 1 .. n - 1
        /\ r = [delivered |-> r.delivered, held |-> r.held]
    BY DEF Receivers, ReceiverOK
  <1> DEFINE have == r.held \cup X
             d == r.delivered
  <1>2. have \subseteq d .. n - 1 /\ have \subseteq 0 .. n - 1 /\ d \in Nat
    BY <1>1
  <1>3. IsFiniteSet(have) /\ Cardinality(have) \in Nat
    <2> HIDE DEF have, d
    <2>1. IsFiniteSet(have)
      BY <1>2, FiniteNumbers
    <2> QED BY <2>1, FS_CardinalityType
  <1> HIDE DEF have, d
  <1> DEFINE T == (d .. d + Cardinality(have)) \ have
  <1>4. T # {}
    <2>1. SUFFICES ASSUME d .. d + Cardinality(have) \subseteq have PROVE FALSE
      OBVIOUS
    <2>2. Cardinality(d .. d + Cardinality(have)) = Cardinality(have) + 1
      <3>1. d \in Int /\ d + Cardinality(have) \in Int /\ ~(d > d + Cardinality(have))
        BY <1>2, <1>3
      <3>2. Cardinality(d .. d + Cardinality(have)) = (d + Cardinality(have)) - d + 1
        BY <3>1, FS_Interval
      <3> QED BY <1>2, <1>3, <3>2
    <2>3. Cardinality(d .. d + Cardinality(have)) <= Cardinality(have)
      BY <1>3, <2>1, FS_Subset
    <2> QED BY <1>3, <2>2, <2>3
  <1>5. PICK k \in T : \A m \in T : k <= m
    <2>1. T \in SUBSET Nat
      BY <1>2, <1>3
    <2> HIDE DEF T
    <2> QED BY <1>4, <2>1, LeastNumber
  <1>6. /\ k \in d .. d + Cardinality(have) /\ k \notin have
        /\ \A o \in d .. k - 1 : o \in have
    BY <1>2, <1>3, <1>5
  <1> DEFINE upTo == CHOOSE m \in d .. d + Cardinality(have) :
                        m \notin have /\ d .. m - 1 \subseteq have
  <1>7. /\ upTo \in d .. d + Cardinality(have) /\ upTo \notin have
        /\ d .. upTo - 1 \subseteq have
    <2>1. \E m \in d .. d + Cardinality(have) : m \notin have /\ d .. m - 1 \subseteq have
      BY <1>6
    <2> QED BY <2>1
  <1>8. TakeIn(r, X) = [delivered |-> upTo, held |-> {o \in have : o > upTo}]
    BY DEF TakeIn, have, d
  <1> HIDE DEF upTo
  <1>9. upTo \in Nat /\ upTo >= d
    BY <1>2, <1>3, <1>7
  <1>10. upTo <= n
    <2>1. SUFFICES ASSUME upTo > n PROVE FALSE
      BY <1>9
    <2>2. d <= n
      BY <1>1 DEF d
    <2>3. n \in d .. upTo - 1
      BY <1>2, <1>9, <2>1, <2>2
    <2>4. n \in have
      BY <1>7, <2>3
    <2> QED BY <1>2, <2>4
  <1>11. {o \in have : o > upTo} \subseteq upTo + 1 .. n - 1
    <2>1. ASSUME NEW o \in have, o > upTo PROVE o \in upTo + 1 .. n - 1
      BY <1>2, <1>9, <2>1
    <2> QED BY <2>1
  <1>12. {o \in have : o > upTo} \subseteq 0 .. n - 1
    BY <1>2
  <1>13. TakeIn(r, X) \in Receivers(n)
    BY <1>8, <1>9, <1>10, <1>11, <1>12 DEF Receivers, ReceiverOK
  <1>14. ASSUME NEW o \in Int, Has(r, o) \/ o \in X PROVE Has(TakeIn(r, X), o)
    <2>1. o < d \/ o \in have
      BY <1>14 DEF Has, have, d
    <2>2. CASE o < upTo
      BY <1>8, <2>2 DEF Has
    <2>3. CASE o >= upTo
      <3>1. o \in have /\ o # upTo
        BY <1>7, <1>9, <2>1, <2>3, <1>2
      <3>2. o > upTo
        BY <1>9, <2>3, <3>1
      <3> QED BY <1>8, <3>1, <3>2 DEF Has
    <2> QED BY <1>9, <2>2, <2>3
  <1> QED BY <1>8, <1>9, <1>13, <1>14 DEF d

(* A fragment within the window is taken whole; one that is not is dropped;  *)
(* nothing the receiver has is lost.                                         *)
LEMMA OnFragmentOK ==
    ASSUME NEW n \in Nat, NEW r \in Receivers(n), NEW b \in Nat, NEW e \in 0 .. n
    PROVE  /\ OnFragment(r, b, e) \in Receivers(n)
           /\ OnFragment(r, b, e).delivered >= r.delivered
           /\ \A o \in Int : Has(r, o) => Has(OnFragment(r, b, e), o)
           /\ e <= r.delivered + HoldLimit =>
                \A o \in Int : b <= o /\ o < e => Has(OnFragment(r, b, e), o)
  <1>1. r.delivered \in Nat /\ HoldLimit \in Nat
    BY StreamAssumption DEF Receivers, ReceiverOK
  <1>2. CASE e <= r.delivered
    <2>1. OnFragment(r, b, e) = r
      BY <1>2 DEF OnFragment
    <2>2. \A o \in Int : o < e => Has(r, o)
      BY <1>1, <1>2 DEF Has
    <2> QED BY <1>1, <2>1, <2>2
  <1>3. CASE e > r.delivered + HoldLimit
    <2>1. OnFragment(r, b, e) = r
      BY <1>3 DEF OnFragment
    <2> QED BY <1>1, <1>3, <2>1
  <1>4. CASE e > r.delivered /\ e <= r.delivered + HoldLimit
    <2> DEFINE X == {o \in b .. e - 1 : o >= r.delivered}
    <2>1. OnFragment(r, b, e) = TakeIn(r, X)
      BY <1>1, <1>4 DEF OnFragment
    <2>2. X \subseteq r.delivered .. n - 1
      BY <1>1
    <2>3. \A o \in Int : b <= o /\ o < e => Has(r, o) \/ o \in X
      BY <1>1 DEF Has
    <2> HIDE DEF X
    <2>4. /\ TakeIn(r, X) \in Receivers(n)
          /\ TakeIn(r, X).delivered >= r.delivered
          /\ \A o \in Int : Has(r, o) \/ o \in X => Has(TakeIn(r, X), o)
      BY <2>2, TakeInOK
    <2> QED BY <2>1, <2>3, <2>4
  <1> QED BY <1>1, <1>2, <1>3, <1>4

(* So do the fragments of a datagram, one after another.                     *)
LEMMA TakeFragmentsOK ==
    ASSUME NEW n \in Nat, NEW r \in Receivers(n),
           NEW fragments, fragments \subseteq (0 .. n) \X (0 .. n)
    PROVE  /\ TakeFragments(r, fragments) \in Receivers(n)
           /\ TakeFragments(r, fragments).delivered >= r.delivered
           /\ \A o \in Int : Has(r, o) => Has(TakeFragments(r, fragments), o)
           /\ (\A f \in fragments : f[2] <= r.delivered + HoldLimit) =>
                \A o \in Int : \A f \in fragments :
                    f[1] <= o /\ o < f[2] => Has(TakeFragments(r, fragments), o)
  <1> DEFINE Latest(some) == CHOOSE f \in some : \A g \in some : g[1] <= f[1]
             last == [some \in (SUBSET fragments) \ {{}} |-> Latest(some)]
             F == [f \in fragments |-> [s \in Receivers(n) |-> OnFragment(s, f[1], f[2])]]
             Body(g, some) == IF some = {} THEN r
                              ELSE OnFragment(g[some \ {Latest(some)}], Latest(some)[1], Latest(some)[2])
             Taken1 == CHOOSE g : g = [some \in SUBSET fragments |-> Body(g, some)]
  <1>1. IsFiniteSet(fragments)
    <2>1. IsFiniteSet(0 .. n)
      BY FS_Interval
    <2>2. IsFiniteSet((0 .. n) \X (0 .. n))
      BY <2>1, FS_Product
    <2> QED BY <2>2, FS_Subset
  <1>2. ASSUME NEW some \in SUBSET fragments, some # {} PROVE last[some] \in some
    <2> DEFINE B == {f[1] : f \in some}
    <2>1. B \subseteq 0 .. n
      OBVIOUS
    <2>2. B \in SUBSET Nat /\ B # {} /\ IsFiniteSet(B)
      <3>1. IsFiniteSet(0 .. n)
        BY FS_Interval
      <3>2. IsFiniteSet(B)
        <4> HIDE DEF B
        <4> QED BY <2>1, <3>1, FS_Subset
      <3> QED BY <1>2, <2>1, <3>2
    <2>3. PICK k \in B : \A m \in B : m <= k
      <3> HIDE DEF B
      <3> QED BY <2>2, GreatestNumber
    <2>4. \E f \in some : \A g \in some : g[1] <= f[1]
      BY <2>3
    <2> QED BY <2>4
  <1>3. ASSUME NEW f \in fragments, NEW s \in Receivers(n)
        PROVE  /\ OnFragment(s, f[1], f[2]) \in Receivers(n)
               /\ F[f][s] = OnFragment(s, f[1], f[2])
    <2>1. f[1] \in Nat /\ f[2] \in 0 .. n
      OBVIOUS
    <2>2. OnFragment(s, f[1], f[2]) \in Receivers(n)
      BY <2>1, OnFragmentOK
    <2> QED BY <2>2
  <1>4. F \in [fragments -> [Receivers(n) -> Receivers(n)]]
    BY <1>3
  <1>5. PICK g : FoldsTo(g, fragments, Receivers(n), r, last, F)
    <2>1. Picks(last, fragments)
      BY <1>2 DEF Picks
    <2>2. Steps(F, fragments, Receivers(n))
      BY <1>4 DEF Steps
    <2> HIDE DEF F, last, Latest
    <2> QED BY <1>1, <2>1, <2>2, FoldExists
  <1>6. \A some \in SUBSET fragments : g[some] = Body(g, some)
    <2>1. TAKE some \in SUBSET fragments
    <2>2. CASE some = {}
      <3> HIDE DEF last, F
      <3> QED BY <1>5, <2>2 DEF FoldsTo
    <2>3. CASE some # {}
      <3>1. last[some] \in fragments /\ g[some \ {last[some]}] \in Receivers(n)
        <4>1. last[some] \in some
          BY <1>2, <2>3
        <4> HIDE DEF last
        <4> QED BY <1>5, <4>1 DEF FoldsTo
      <3>2. g[some] = F[last[some]][g[some \ {last[some]}]]
        <4> HIDE DEF last, F
        <4> QED BY <1>5, <2>3 DEF FoldsTo
      <3>3. g[some] = OnFragment(g[some \ {last[some]}], last[some][1], last[some][2])
        <4> HIDE DEF last, F
        <4> QED BY <1>3, <3>1, <3>2
      <3>4. last[some] = Latest(some)
        BY <2>3
      <3> HIDE DEF last, Latest
      <3> QED BY <2>3, <3>3, <3>4
    <2> QED BY <2>2, <2>3
  <1>7. \E h : h = [some \in SUBSET fragments |-> Body(h, some)]
    <2>1. g = [some \in SUBSET fragments |-> Body(g, some)]
      <3> HIDE DEF Body
      <3> QED BY <1>5, <1>6 DEF FoldsTo
    <2> HIDE DEF Body
    <2> QED BY <2>1
  <1>8. Taken1 = [some \in SUBSET fragments |-> Body(Taken1, some)]
    <2> HIDE DEF Body
    <2> QED BY <1>7
  <1>9. TakeFragments(r, fragments) = Taken1[fragments]
    BY DEF TakeFragments
  <1> DEFINE Good == {some \in SUBSET fragments :
                        /\ Taken1[some] \in Receivers(n)
                        /\ Taken1[some].delivered >= r.delivered
                        /\ \A o \in Int : Has(r, o) => Has(Taken1[some], o)
                        /\ (\A f \in fragments : f[2] <= r.delivered + HoldLimit) =>
                             \A o \in Int : \A f \in some :
                                 f[1] <= o /\ o < f[2] => Has(Taken1[some], o)}
  <1>10. \A some \in SUBSET fragments : Taken1[some] = Body(Taken1, some)
    <2> HIDE DEF Taken1, Body
    <2> QED BY <1>8
  <1> HIDE DEF Taken1
  <1>11. {} \in Good
    <2>1. Taken1[{}] = r
      BY <1>10
    <2>2. r.delivered \in Nat
      BY DEF Receivers, ReceiverOK
    <2> QED BY <2>1, <2>2
  <1>12. ASSUME NEW some \in SUBSET fragments, some # {}, \A x \in some : some \ {x} \in Good
         PROVE  some \in Good
    <2> DEFINE f == Latest(some)
               s == Taken1[some \ {f}]
    <2>1. f \in some
      BY <1>2, <1>12
    <2> HIDE DEF f
    <2>2. some \ {f} \in Good
      BY <1>12, <2>1
    <2>3. Taken1[some] = OnFragment(s, f[1], f[2])
      BY <1>10, <1>12 DEF f
    <2>4. f[1] \in Nat /\ f[2] \in 0 .. n /\ f \in fragments
      BY <2>1
    <2>5. /\ s \in Receivers(n) /\ s.delivered >= r.delivered
          /\ \A o \in Int : Has(r, o) => Has(s, o)
      BY <2>2
    <2>6. (\A h \in fragments : h[2] <= r.delivered + HoldLimit) =>
             \A o \in Int : \A h \in some \ {f} : h[1] <= o /\ o < h[2] => Has(s, o)
      BY <2>2
    <2> HIDE DEF s, Good
    <2>7. /\ Taken1[some] \in Receivers(n)
          /\ Taken1[some].delivered >= s.delivered
          /\ \A o \in Int : Has(s, o) => Has(Taken1[some], o)
          /\ f[2] <= s.delivered + HoldLimit =>
                \A o \in Int : f[1] <= o /\ o < f[2] => Has(Taken1[some], o)
      BY <2>3, <2>4, <2>5, OnFragmentOK
    <2>8. r.delivered \in Nat /\ s.delivered \in Nat /\ Taken1[some].delivered \in Nat
          /\ HoldLimit \in Nat
      BY <2>5, <2>7, StreamAssumption DEF Receivers, ReceiverOK
    <2>9. Taken1[some].delivered >= r.delivered
      BY <2>5, <2>7, <2>8
    <2>10. ASSUME \A h \in fragments : h[2] <= r.delivered + HoldLimit,
                  NEW o \in Int, NEW h \in some, h[1] <= o, o < h[2]
           PROVE  Has(Taken1[some], o)
      <3>1. CASE h = f
        <4>1. f[2] <= s.delivered + HoldLimit
          BY <2>4, <2>5, <2>8, <2>10
        <4> QED BY <2>7, <2>10, <3>1, <4>1
      <3>2. CASE h # f
        <4>1. Has(s, o)
          BY <2>6, <2>10, <3>2
        <4> QED BY <2>7, <4>1
      <3> QED BY <3>1, <3>2
    <2>11. \A o \in Int : Has(r, o) => Has(Taken1[some], o)
      BY <2>5, <2>7
    <2> QED BY <2>7, <2>9, <2>10, <2>11 DEF Good
  <1>13. fragments \in Good
    <2> HIDE DEF Good
    <2> QED BY <1>1, <1>11, <1>12, SubsetsInduct
  <1> QED BY <1>9, <1>13

-----------------------------------------------------------------------------
(***************************************************************************)
(* The redundant lane, and what is handed out.                             *)
(***************************************************************************)

(* A redundant message accepted from a datagram is not new again.            *)
LEMMA AcceptLaneOK ==
    ASSUME NEW w \in Window, NEW T \in SUBSET Nat, IsFiniteSet(T)
    PROVE  /\ AcceptLane(w, T) \in Window
           /\ \A s \in Nat : IsNew(AcceptLane(w, T), s) => IsNew(w, s) /\ s \notin T
  <1> DEFINE fresh == NewLane(w, T)
             last == [some \in SUBSET fresh |-> Max(some)]
             F == [s \in fresh |-> [v \in Window |-> Accept(v, s)]]
             Body(g, some) == IF some = {} THEN w
                              ELSE Accept(g[some \ {Max(some)}], Max(some))
             Accepted1 == CHOOSE g : g = [some \in SUBSET fresh |-> Body(g, some)]
  <1>1. fresh \in SUBSET Nat /\ fresh \subseteq T /\ IsFiniteSet(fresh)
    <2>1. fresh \subseteq T
      BY DEF NewLane
    <2> HIDE DEF fresh
    <2>2. IsFiniteSet(fresh)
      BY <2>1, FS_Subset
    <2> QED BY <2>1, <2>2
  <1>2. AcceptLane(w, T) = Accepted1[fresh]
    BY DEF AcceptLane
  <1>3. \A s \in T : IsNew(w, s) => s \in fresh
    BY DEF NewLane
  <1> HIDE DEF fresh
  <1>4. ASSUME NEW some \in SUBSET fresh, some # {} PROVE Max(some) \in some
    <2>1. some \in SUBSET Nat /\ IsFiniteSet(some)
      BY <1>1, FS_Subset
    <2> QED BY <1>4, <2>1, GreatestIsMax
  <1>5. \A s \in fresh : \A v \in Window : Accept(v, s) \in Window
    BY <1>1, AcceptType
  <1>6. PICK g : FoldsTo(g, fresh, Window, w, last, F)
    <2>1. Picks(last, fresh)
      BY <1>4 DEF Picks
    <2>2. Steps(F, fresh, Window)
      BY <1>5 DEF Steps
    <2> HIDE DEF F, last
    <2> QED BY <1>1, <2>1, <2>2, FoldExists
  <1>7. \A some \in SUBSET fresh : g[some] = Body(g, some)
    <2>1. TAKE some \in SUBSET fresh
    <2>2. CASE some = {}
      <3> HIDE DEF last, F
      <3> QED BY <1>6, <2>2 DEF FoldsTo
    <2>3. CASE some # {}
      <3>1. Max(some) \in fresh /\ g[some \ {Max(some)}] \in Window
        BY <1>4, <1>6, <2>3 DEF FoldsTo
      <3>2. g[some] = F[last[some]][g[some \ {last[some]}]]
        <4> HIDE DEF last, F
        <4> QED BY <1>6, <2>3 DEF FoldsTo
      <3>3. last[some] = Max(some)
        OBVIOUS
      <3>4. F[Max(some)][g[some \ {Max(some)}]] = Accept(g[some \ {Max(some)}], Max(some))
        BY <3>1
      <3> HIDE DEF last, F
      <3> QED BY <2>3, <3>2, <3>3, <3>4
    <2> QED BY <2>2, <2>3
  <1>8. \E h : h = [some \in SUBSET fresh |-> Body(h, some)]
    <2>1. g = [some \in SUBSET fresh |-> Body(g, some)]
      <3> HIDE DEF Body
      <3> QED BY <1>6, <1>7 DEF FoldsTo
    <2> HIDE DEF Body
    <2> QED BY <2>1
  <1>9. Accepted1 = [some \in SUBSET fresh |-> Body(Accepted1, some)]
    <2> HIDE DEF Body
    <2> QED BY <1>8
  <1>10. \A some \in SUBSET fresh : Accepted1[some] = Body(Accepted1, some)
    <2> HIDE DEF Accepted1, Body
    <2> QED BY <1>9
  <1> HIDE DEF Accepted1
  <1> DEFINE Good == {some \in SUBSET fresh :
                        /\ Accepted1[some] \in Window
                        /\ \A s \in Nat : IsNew(Accepted1[some], s) => IsNew(w, s) /\ s \notin some}
  <1>11. {} \in Good
    <2>1. Accepted1[{}] = w
      BY <1>10
    <2> QED BY <2>1
  <1>12. ASSUME NEW some \in SUBSET fresh, some # {}, \A x \in some : some \ {x} \in Good
         PROVE  some \in Good
    <2> DEFINE m == Max(some)
               v == Accepted1[some \ {m}]
    <2>1. m \in some
      BY <1>4, <1>12
    <2>2. Accepted1[some] = Accept(v, m)
      BY <1>10, <1>12
    <2> HIDE DEF m
    <2>3. some \ {m} \in Good /\ m \in Nat
      BY <1>1, <1>12, <2>1
    <2>4. /\ v \in Window
          /\ \A s \in Nat : IsNew(v, s) => IsNew(w, s) /\ s \notin some \ {m}
      BY <2>3
    <2> HIDE DEF v, Good
    <2>5. Accepted1[some] \in Window
      BY <2>2, <2>3, <2>4, AcceptType
    <2>6. ASSUME NEW s \in Nat, IsNew(Accepted1[some], s) PROVE IsNew(w, s) /\ s \notin some
      <3>1. IsNew(v, s) /\ s # m
        BY <2>2, <2>3, <2>4, <2>6, NewBefore
      <3> QED BY <2>4, <3>1
    <2> QED BY <2>5, <2>6 DEF Good
  <1>13. fresh \in Good
    <2> HIDE DEF Good
    <2> QED BY <1>1, <1>11, <1>12, SubsetsInduct
  <1>14. \A s \in Nat : IsNew(Accepted1[fresh], s) => IsNew(w, s) /\ s \notin fresh
    BY <1>13
  <1> QED BY <1>2, <1>3, <1>13, <1>14

(* A set laid out as a sequence: each element once.                          *)
LEMMA SetToSeqIs ==
    ASSUME NEW S, IsFiniteSet(S)
    PROVE  /\ SetToSeq(S) \in Seq(S)
           /\ \A i, j \in DOMAIN SetToSeq(S) : SetToSeq(S)[i] = SetToSeq(S)[j] => i = j
  <1>1. Cardinality(S) \in Nat /\ ExistsBijection(1 .. Cardinality(S), S)
    BY FS_CardinalityType
  <1>2. PICK f : f \in Bijection(1 .. Cardinality(S), S)
    BY <1>1 DEF ExistsBijection
  <1>3. f \in [1 .. Cardinality(S) -> S] /\ \A a, b \in 1 .. Cardinality(S) : f[a] = f[b] => a = b
    BY <1>2 DEF Bijection, Injection, IsInjective
  <1>4. \E g \in [1 .. Cardinality(S) -> S] : IsInjective(g)
    BY <1>3 DEF IsInjective
  <1>5. SetToSeq(S) \in [1 .. Cardinality(S) -> S] /\ IsInjective(SetToSeq(S))
    BY <1>4 DEF SetToSeq
  <1>6. SetToSeq(S) \in Seq(S)
    BY <1>1, <1>5
  <1> QED BY <1>5, <1>6 DEF IsInjective

=============================================================================
