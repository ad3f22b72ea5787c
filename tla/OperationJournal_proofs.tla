----------------------- MODULE OperationJournal_proofs -----------------------
(***************************************************************************)
(* Proofs about the event history of one operation: whatever writes fail   *)
(* and wherever the process dies, a history that is read from its start    *)
(* marks each of its holes.                                                *)
(***************************************************************************)
EXTENDS OperationJournal, Filtering_proofs, TLAPS

-----------------------------------------------------------------------------
(* The invariant: the window is in order with its holes marked, and the    *)
(* file is at most the event that is owed ahead of it.                     *)

(* Sequences that rise, with a marker where one is passed over.            *)
Rising(es) == \A i, j \in 1..Len(es) : i < j => es[i].seq < es[j].seq
Marked(es) == \A i \in 1..Len(es) - 1 : es[i + 1].seq = es[i].seq + 1 \/ es[i].gap
WellMarked(es) == Rising(es) /\ Marked(es)

(* No line has an event past the n-th.                                     *)
UpTo(j, n) == \A i \in 1..Len(j.lines) : j.lines[i] # None => j.lines[i].seq <= n

(* The journal is at most one event ahead of the window, and then only with*)
(* the event that is owed.                                                 *)
NotAhead == UpTo(journal, Sequence(window) + (IF debt = 0 THEN 0 ELSE 1))

(* An event with the n-th sequence is on the last line, and nothing is torn*)
(* behind it: at the bound, a marker of damage has a sequence left.        *)
EndsWith(j, n) == \A i \in 1..Len(j.lines) : j.lines[i] # None /\ j.lines[i].seq = n =>
                      i = Len(j.lines) /\ j.tail # "torn"

JournalInv == JournalTypeOK /\ WellMarked(window) /\ NotAhead /\ EndsWith(journal, MaxSequence)

-----------------------------------------------------------------------------
(* Lists of events.                                                        *)

(* What the events of a list are.                                          *)
LEMMA EventFacts ==
    ASSUME NEW es \in Seq(Event)
    PROVE  /\ Len(es) \in Nat
           /\ \A i \in 1..Len(es) : /\ es[i] \in Event /\ es[i].seq \in 1..MaxSequence /\ es[i].seq \in Nat
                                   /\ es[i].gap \in BOOLEAN
  <1>1. Len(es) \in Nat
    OBVIOUS
  <1>2. ASSUME NEW i \in 1..Len(es)
        PROVE  /\ es[i] \in Event /\ es[i].seq \in 1..MaxSequence /\ es[i].seq \in Nat
               /\ es[i].gap \in BOOLEAN
    <2>1. es[i] \in Event
      OBVIOUS
    <2> DEFINE e == es[i]
    <2> HIDE DEF e
    <2>2. e \in Event => e.seq \in 1..MaxSequence /\ e.gap \in BOOLEAN
      BY DEF Event
    <2>3. MaxSequence \in Nat
      BY JournalConstants
    <2> QED BY <2>1, <2>2, <2>3 DEF e
  <1> QED BY <1>1, <1>2

(* A list in the order of its ranks is in the order of its sequences, and  *)
(* has every event.                                                        *)
LEMMA InOrderHolds ==
    ASSUME NEW es, IsFiniteSet(es), \A e \in es : e.seq \in Nat,
           \A d, e \in es : d.seq = e.seq => d = e
    PROVE  /\ InOrder(es) \in Seq(es) /\ Elements(InOrder(es)) = es /\ Rising(InOrder(es))
  <1> DEFINE Below(e) == {d \in es : d.seq <= e.seq}
             rank(e) == Cardinality(Below(e))
             N == Cardinality(es)
             s == InOrder(es)
  <1>1. N \in Nat
    BY FS_CardinalityType
  <1>2. ASSUME NEW e \in es PROVE IsFiniteSet(Below(e)) /\ rank(e) \in 1..N
    <2>1. e \in Below(e) /\ Below(e) \in SUBSET es
      OBVIOUS
    <2> HIDE DEF Below
    <2>2. IsFiniteSet(Below(e)) /\ rank(e) <= N
      BY <2>1, FS_Subset
    <2>3. rank(e) \in Nat
      BY <2>2, FS_CardinalityType
    <2>4. rank(e) # 0
      BY <2>1, <2>2, FS_EmptySet
    <2> HIDE DEF N, rank
    <2> QED BY <1>1, <2>2, <2>3, <2>4
  <1>3. ASSUME NEW d \in es, NEW e \in es, d.seq < e.seq PROVE rank(d) < rank(e)
    <2>1. Below(d) \in SUBSET Below(e) /\ e \notin Below(d) /\ e \in Below(e)
      BY <1>3
    <2>2. IsFiniteSet(Below(e)) /\ rank(e) \in 1..N /\ rank(d) \in 1..N
      BY <1>2
    <2> HIDE DEF Below
    <2>3. rank(d) <= rank(e) /\ rank(d) # rank(e)
      BY <2>1, <2>2, FS_Subset
    <2> HIDE DEF N, rank
    <2> QED BY <1>1, <2>2, <2>3
  <1>4. ASSUME NEW d \in es, NEW e \in es, rank(d) = rank(e) PROVE d = e
    <2>1. rank(d) \in Nat /\ rank(e) \in Nat
      <3>1. rank(d) \in 1..N /\ rank(e) \in 1..N
        BY <1>2
      <3> HIDE DEF rank, N
      <3> QED BY <1>1, <3>1
    <2>2. ~(d.seq < e.seq) /\ ~(e.seq < d.seq)
      <3> HIDE DEF rank
      <3> QED BY <1>3, <1>4, <2>1
    <2> QED BY <2>2
  <1> DEFINE r == [e \in es |-> rank(e)]
  <1>5. r \in Injection(es, 1..N)
    <2>1. r \in [es -> 1..N]
      <3> HIDE DEF rank, N
      <3> QED BY <1>2
    <2>2. IsInjective(r)
      <3> HIDE DEF rank, N
      <3> QED BY <1>4 DEF IsInjective
    <2> HIDE DEF r, N
    <2> QED BY <2>1, <2>2 DEF Injection
  <1>6. r \in Surjection(es, 1..N)
    <2>1. IsFiniteSet(1..N) /\ Cardinality(1..N) = N
      BY <1>1, FS_Interval
    <2> HIDE DEF r
    <2> QED BY <1>5, <2>1, FS_Injection
  <1>7. \A i \in 1..N : \E e \in es : rank(e) = i
    <2>1. \A i \in 1..N : \E e \in es : r[e] = i
      <3> HIDE DEF r, N
      <3> QED BY <1>6 DEF Surjection
    <2> HIDE DEF rank, N
    <2> QED BY <2>1
  <1>8. s = [i \in 1..N |-> CHOOSE e \in es : rank(e) = i]
    BY DEF InOrder
  <1> HIDE DEF s, N, rank
  <1>9. \A i \in 1..N : s[i] \in es /\ rank(s[i]) = i
    BY <1>7, <1>8
  <1>10. s \in Seq(es) /\ Len(s) = N
    BY <1>1, <1>8, <1>9
  <1>11. Elements(s) = es
    <2>1. ASSUME NEW e \in es PROVE e \in Elements(s)
      <3>1. rank(e) \in 1..N /\ s[rank(e)] \in es /\ rank(s[rank(e)]) = rank(e)
        BY <1>2, <1>9
      <3>2. s[rank(e)] = e
        BY <1>4, <3>1
      <3> QED BY <1>10, <3>1, <3>2 DEF Elements
    <2> QED BY <1>9, <1>10, <2>1 DEF Elements
  <1>12. ASSUME NEW i \in 1..N, NEW j \in 1..N, i < j PROVE s[i].seq < s[j].seq
    <2>1. s[i] \in es /\ s[j] \in es /\ rank(s[i]) = i /\ rank(s[j]) = j
      BY <1>9
    <2>2. s[i].seq # s[j].seq
      BY <1>1, <1>12, <2>1
    <2>3. ~(s[j].seq < s[i].seq)
      BY <1>1, <1>3, <1>12, <2>1
    <2> QED BY <2>1, <2>2, <2>3
  <1> QED BY <1>10, <1>11, <1>12 DEF s, Rising

(* Sequences that rise from line to line rise.                             *)
LEMMA StepsRise ==
    ASSUME NEW es \in Seq(Event), \A i \in 1..Len(es) - 1 : es[i].seq < es[i + 1].seq
    PROVE  Rising(es)
  <1> SUFFICES ASSUME NEW i \in 1..Len(es), NEW j \in 1..Len(es), i < j, ~(es[i].seq < es[j].seq)
               PROVE  FALSE
    BY DEF Rising
  <1> DEFINE T == {k \in i + 1..Len(es) : ~(es[i].seq < es[k].seq)}
  <1>1. Len(es) \in Nat /\ \A k \in 1..Len(es) : es[k].seq \in Nat
    BY EventFacts
  <1>2. T \in SUBSET Nat /\ j \in T
    BY <1>1
  <1>3. PICK k \in T : \A m \in T : k <= m
    <2> HIDE DEF T
    <2> QED BY <1>2, LeastNumber
  <1>4. k \in i + 1..Len(es) /\ ~(es[i].seq < es[k].seq)
    OBVIOUS
  <1>5. CASE k = i + 1
    <2>1. i \in 1..Len(es) - 1
      BY <1>1, <1>4
    <2> QED BY <1>4, <1>5, <2>1
  <1>6. CASE k # i + 1
    <2>1. k - 1 \in i + 1..Len(es) /\ k - 1 < k /\ k - 1 \in 1..Len(es) - 1 /\ k \in 1..Len(es)
      BY <1>1, <1>4, <1>6
    <2>2. es[i].seq < es[k - 1].seq
      <3>1. k - 1 \notin T
        BY <1>3, <2>1
      <3> QED BY <2>1, <3>1
    <2>3. es[k - 1].seq < es[(k - 1) + 1].seq /\ (k - 1) + 1 = k
      BY <2>1
    <2> QED BY <1>1, <1>4, <2>1, <2>2, <2>3
  <1> QED BY <1>5, <1>6

(* The end of a list is its last elements.                                 *)
LEMMA SuffixHolds ==
    ASSUME NEW S, NEW s \in Seq(S), NEW n \in Nat \ {0}
    PROVE  /\ Suffix(s, n) \in Seq(S) /\ Len(Suffix(s, n)) <= n
           /\ \E d \in Nat : /\ Len(s) = Len(Suffix(s, n)) + d
                             /\ \A i \in 1..Len(Suffix(s, n)) : Suffix(s, n)[i] = s[i + d]
           /\ s # << >> => Suffix(s, n) # << >>
  <1> DEFINE a == Max({1, Len(s) - n + 1})
             t == Suffix(s, n)
  <1>1. Len(s) \in Nat
    OBVIOUS
  <1>2. a = IF Len(s) - n + 1 >= 1 THEN Len(s) - n + 1 ELSE 1
    <2> DEFINE b == Len(s) - n + 1
    <2>1. b \in Int
      BY <1>1
    <2> HIDE DEF b
    <2>2. Max({1, b}) = IF b >= 1 THEN b ELSE 1
      BY <2>1 DEF Max
    <2> QED BY <2>2 DEF b
  <1>3. a \in 1..Len(s) + 1 /\ Len(s) - a + 1 <= n /\ (Len(s) > 0 => a <= Len(s)) /\ t = SubSeq(s, a, Len(s))
    BY <1>1, <1>2 DEF Suffix
  <1> HIDE DEF a, t
  <1>4. t \in Seq(S) /\ Len(t) = Len(s) - a + 1 /\ \A i \in 1..Len(t) : t[i] = s[i + (a - 1)]
    BY <1>1, <1>3
  <1>5. a - 1 \in Nat /\ Len(s) = Len(t) + (a - 1)
    BY <1>1, <1>3, <1>4
  <1>6. s # << >> => t # << >>
    <2>1. ASSUME s # << >> PROVE Len(t) > 0
      <3>1. Len(s) > 0
        BY <2>1
      <3> QED BY <1>1, <1>3, <1>4, <3>1
    <2> QED BY <1>4, <2>1
  <1> QED BY <1>1, <1>3, <1>4, <1>5, <1>6 DEF t

(* The end of a well-marked list is one, with the same last event.         *)
LEMMA SuffixMarked ==
    ASSUME NEW es \in Seq(Event), WellMarked(es), NEW n \in Nat \ {0}
    PROVE  /\ Suffix(es, n) \in Seq(Event) /\ Len(Suffix(es, n)) <= n
           /\ WellMarked(Suffix(es, n)) /\ Sequence(Suffix(es, n)) = Sequence(es)
  <1> DEFINE t == Suffix(es, n)
  <1>1. t \in Seq(Event) /\ Len(t) <= n /\ (es # << >> => t # << >>)
    BY SuffixHolds
  <1>2. PICK d \in Nat : Len(es) = Len(t) + d /\ \A i \in 1..Len(t) : t[i] = es[i + d]
    BY SuffixHolds
  <1> HIDE DEF t
  <1>3. \A i \in 1..Len(t) : i + d \in 1..Len(es)
    BY <1>1, <1>2
  <1>4. ASSUME NEW i \in 1..Len(t), NEW j \in 1..Len(t), i < j PROVE t[i].seq < t[j].seq
    <2>1. i + d \in 1..Len(es) /\ j + d \in 1..Len(es) /\ i + d < j + d
      BY <1>1, <1>2, <1>3, <1>4
    <2>2. es[i + d].seq < es[j + d].seq
      BY <2>1 DEF WellMarked, Rising
    <2> QED BY <1>2, <2>2
  <1>5. ASSUME NEW i \in 1..Len(t) - 1 PROVE t[i + 1].seq = t[i].seq + 1 \/ t[i].gap
    <2>1. i \in 1..Len(t) /\ i + 1 \in 1..Len(t) /\ i + d \in 1..Len(es) - 1 /\ (i + d) + 1 = (i + 1) + d
      BY <1>1, <1>2
    <2>2. es[(i + d) + 1].seq = es[i + d].seq + 1 \/ es[i + d].gap
      BY <2>1 DEF WellMarked, Marked
    <2> QED BY <1>2, <2>1, <2>2
  <1>6. Sequence(t) = Sequence(es)
    <2>1. CASE es = << >>
      <3>1. Len(t) = 0
        BY <1>1, <1>2, <2>1
      <3> QED BY <1>1, <2>1, <3>1 DEF Sequence
    <2>2. CASE es # << >>
      <3>1. Len(t) \in 1..Len(t) /\ Len(t) + d = Len(es)
        BY <1>1, <1>2, <2>2
      <3> QED BY <1>1, <1>2, <2>2, <3>1 DEF Sequence
    <2> QED BY <2>1, <2>2
  <1> QED BY <1>1, <1>4, <1>5, <1>6 DEF t, WellMarked, Rising, Marked

(* The last event has the greatest sequence.                               *)
LEMMA LastIsGreatest ==
    ASSUME NEW es \in Seq(Event), Rising(es)
    PROVE  /\ Sequence(es) \in 0..MaxSequence
           /\ \A i \in 1..Len(es) : es[i].seq <= Sequence(es)
  <1>1. /\ Len(es) \in Nat /\ MaxSequence \in Nat
        /\ \A i \in 1..Len(es) : es[i].seq \in 1..MaxSequence /\ es[i].seq \in Nat
    BY EventFacts, JournalConstants
  <1>2. CASE es = << >>
    <2>1. Sequence(es) = 0 /\ Len(es) = 0
      BY <1>2 DEF Sequence
    <2> QED BY <1>1, <2>1
  <1>3. CASE es # << >>
    <2>1. Len(es) \in 1..Len(es) /\ Sequence(es) = es[Len(es)].seq
      BY <1>1, <1>3 DEF Sequence
    <2>2. ASSUME NEW i \in 1..Len(es) PROVE es[i].seq <= es[Len(es)].seq
      <3>1. i < Len(es) \/ i = Len(es)
        BY <1>1
      <3>2. i < Len(es) => es[i].seq < es[Len(es)].seq
        BY <2>1 DEF Rising
      <3> QED BY <1>1, <2>1, <3>1, <3>2
    <2>3. Sequence(es) \in 0..MaxSequence
      BY <1>1, <2>1
    <2> QED BY <2>1, <2>2, <2>3
  <1> QED BY <1>2, <1>3

-----------------------------------------------------------------------------
(* Reading the file.                                                       *)

(* The lines that are read are events, in the order of their sequences.    *)
LEMMA ParsedHolds ==
    ASSUME NEW j \in Journal
    PROVE  /\ Sound(j.lines) \in 0..Len(j.lines) /\ Parsed(j) \in Seq(Event)
           /\ Len(Parsed(j)) = Sound(j.lines) /\ Rising(Parsed(j))
           /\ \A i \in 1..Len(Parsed(j)) : Parsed(j)[i] = j.lines[i]
  <1> DEFINE ls == j.lines
             Fits(n) == /\ \A i \in 1..n : ls[i] # None
                        /\ \A i \in 1..n-1 : ls[i].seq < ls[i + 1].seq
             M == {n \in 0..Len(ls) : Fits(n)}
             n == Sound(ls)
             es == Parsed(j)
  <1>1. ls \in Seq(Event \cup {None}) /\ Len(ls) \in Nat
    BY DEF Journal
  <1>2. n = Max(M)
    BY DEF Sound
  <1>3. 0 \in M /\ M \in SUBSET Nat /\ \A m \in M : m <= Len(ls)
    BY <1>1
  <1>4. n \in M
    <2> HIDE DEF M, n
    <2>1. PICK g \in M : \A m \in M : m <= g
      BY <1>1, <1>3, GreatestNumber
    <2>2. \A m \in M : g >= m
      BY <1>3, <2>1
    <2>3. Max(M) \in M
      BY <2>1, <2>2 DEF Max
    <2> QED BY <1>2, <2>3
  <1>5. n \in 0..Len(ls) /\ Fits(n)
    <2> HIDE DEF n, Fits
    <2> QED BY <1>4
  <1>6. es = SubSeq(ls, 1, n)
    BY DEF Parsed
  <1> HIDE DEF n, ls, es
  <1>7. es \in Seq(Event) /\ Len(es) = n /\ \A i \in 1..n : es[i] = ls[i]
    <2>1. \A i \in 1..n : ls[i] \in Event
      BY <1>1, <1>5
    <2> QED BY <1>1, <1>5, <1>6, <2>1
  <1>8. Rising(es)
    <2>1. \A i \in 1..Len(es) - 1 : es[i].seq < es[i + 1].seq
      BY <1>1, <1>5, <1>7
    <2> QED BY <1>7, <2>1, StepsRise
  <1> QED BY <1>5, <1>7, <1>8 DEF ls, n, es

(* What the file holds is at most the last sequence, and less when what    *)
(* follows could not be read.                                              *)
LEMMA DamagedIsLess ==
    ASSUME NEW j \in Journal, EndsWith(j, MaxSequence), Damaged(j)
    PROVE  Sequence(Parsed(j)) + 1 \in 1..MaxSequence
  <1> DEFINE es == Parsed(j)
  <1>1. /\ es \in Seq(Event) /\ Len(es) \in Nat /\ Len(es) <= Len(j.lines) /\ Len(j.lines) \in Nat
        /\ Len(es) = Sound(j.lines) /\ \A i \in 1..Len(es) : es[i] = j.lines[i]
    <2>1. j.lines \in Seq(Event \cup {None})
      BY DEF Journal
    <2> QED BY <2>1, ParsedHolds
  <1>2. Rising(es)
    BY ParsedHolds
  <1> HIDE DEF es
  <1>3. Sequence(es) \in 0..MaxSequence /\ MaxSequence \in Nat \ {0}
    BY <1>1, <1>2, LastIsGreatest, JournalConstants
  <1>4. Sequence(es) # MaxSequence
    <2> SUFFICES ASSUME Sequence(es) = MaxSequence PROVE FALSE
      OBVIOUS
    <2>1. Len(es) \in 1..Len(es) /\ es[Len(es)].seq = MaxSequence
      BY <1>1, <1>3 DEF Sequence
    <2>2. es[Len(es)] \in Event
      BY <1>1, <2>1
    <2>3. j.lines[Len(es)] # None /\ j.lines[Len(es)].seq = MaxSequence /\ Len(es) \in 1..Len(j.lines)
      BY <1>1, <2>1, <2>2, JournalRecords
    <2>4. Len(es) = Len(j.lines) /\ j.tail # "torn"
      BY <2>3 DEF EndsWith
    <2> QED BY <1>1, <2>4 DEF Damaged
  <1> QED BY <1>3, <1>4 DEF es

(* loadEvents returns events in order, with a marker at every hole, and    *)
(* reaches as far as the file.                                             *)
LEMMA LoadedHolds ==
    ASSUME NEW j \in Journal, EndsWith(j, MaxSequence)
    PROVE  /\ Loaded(j) \in Seq(Event) /\ WellMarked(Loaded(j))
           /\ Sequence(Parsed(j)) <= Sequence(Loaded(j))
  <1> DEFINE es == Parsed(j)
             torn == IF Damaged(j) THEN {Gap(Sequence(es) + 1)} ELSE {}
             S == ToSet(es) \cup Holes(es) \cup torn
             s == InOrder(S)
  <1>1. es \in Seq(Event) /\ Rising(es) /\ Len(es) \in Nat
    BY ParsedHolds
  <1>2. /\ \A i \in 1..Len(es) : /\ es[i] \in Event /\ es[i].seq \in 1..MaxSequence
                                 /\ es[i].seq \in Nat /\ es[i].gap \in BOOLEAN
        /\ MaxSequence \in Nat
    BY <1>1, EventFacts, JournalConstants
  <1>3. Damaged(j) => Sequence(es) + 1 \in 1..MaxSequence
    BY DamagedIsLess
  <1>4. Loaded(j) = s
    BY DEF Loaded
  <1>5. ToSet(es) = {es[i] : i \in 1..Len(es)}
    BY <1>1 DEF ToSet
  <1>6. Sequence(es) \in 0..MaxSequence /\ \A i \in 1..Len(es) : es[i].seq <= Sequence(es)
    BY <1>1, LastIsGreatest
  <1> HIDE DEF es
  <1>7. ASSUME NEW n \in 1..MaxSequence
        PROVE  Gap(n) \in Event /\ Gap(n).seq = n /\ Gap(n).gap = TRUE
    <2> DEFINE yes == TRUE
    <2>1. yes \in BOOLEAN /\ Gap(n) = [seq |-> n, gap |-> yes]
      BY DEF Gap
    <2> HIDE DEF yes
    <2>2. Gap(n) \in Event /\ Gap(n).seq = n /\ Gap(n).gap = yes
      BY <2>1 DEF Event
    <2> QED BY <2>2 DEF yes
  (* A marker of a hole lies between two events.                           *)
  <1>8. ASSUME NEW e \in Holes(es)
        PROVE  \E i \in 1..Len(es) - 1 : /\ i \in 1..Len(es) /\ i + 1 \in 1..Len(es)
                                         /\ e = Gap(es[i].seq + 1) /\ es[i].seq + 1 \in 1..MaxSequence
                                         /\ es[i].seq + 1 < es[i + 1].seq
    <2>1. PICK i \in 1..Len(es) - 1 : es[i + 1].seq > es[i].seq + 1 /\ e = Gap(es[i].seq + 1)
      BY DEF Holes
    <2>2. i \in 1..Len(es) /\ i + 1 \in 1..Len(es)
      BY <1>1
    <2>3. es[i].seq + 1 \in 1..MaxSequence
      BY <1>2, <2>1, <2>2
    <2> QED BY <1>2, <2>1, <2>2, <2>3
  <1>9. ASSUME NEW e \in S
        PROVE  /\ e \in Event /\ e.seq \in 1..MaxSequence
               /\ e.gap \/ \E k \in 1..Len(es) : e = es[k]
    <2>1. CASE e \in ToSet(es)
      BY <1>2, <1>5, <2>1
    <2>2. CASE e \in Holes(es)
      BY <1>7, <1>8, <2>2
    <2>3. CASE e \in torn
      BY <1>3, <1>7, <2>3
    <2> QED BY <2>1, <2>2, <2>3
  (* No event of the file has the sequence of a marker.                    *)
  <1>10. ASSUME NEW e \in Holes(es) \cup torn, NEW k \in 1..Len(es) PROVE e.seq # es[k].seq
    <2>1. CASE e \in Holes(es)
      <3>1. PICK i \in 1..Len(es) - 1 : /\ i \in 1..Len(es) /\ i + 1 \in 1..Len(es)
                                        /\ e = Gap(es[i].seq + 1) /\ es[i].seq + 1 \in 1..MaxSequence
                                        /\ es[i].seq + 1 < es[i + 1].seq
        BY <1>8, <2>1
      <3>2. e.seq = es[i].seq + 1
        BY <1>7, <3>1
      <3>3. k < i \/ k = i \/ k = i + 1 \/ i + 1 < k
        BY <1>1, <3>1
      <3>4. /\ k < i => es[k].seq < es[i].seq
            /\ i + 1 < k => es[i + 1].seq < es[k].seq
        BY <1>1, <3>1 DEF Rising
      <3> QED BY <1>2, <3>1, <3>2, <3>3, <3>4
    <2>2. CASE e \in torn
      <3>1. e.seq = Sequence(es) + 1
        BY <1>3, <1>7, <2>2
      <3> QED BY <1>2, <1>6, <3>1
    <2> QED BY <2>1, <2>2
  <1>11. ASSUME NEW d \in S, NEW e \in S, d.seq = e.seq PROVE d = e
    <2>1. ASSUME NEW x \in Holes(es) \cup torn PROVE x = Gap(x.seq)
      <3>1. CASE x \in Holes(es)
        BY <1>7, <1>8, <3>1
      <3>2. CASE x \in torn
        BY <1>3, <1>7, <3>2
      <3> QED BY <3>1, <3>2
    <2>2. CASE d \in ToSet(es) /\ e \in ToSet(es)
      <3>1. PICK i \in 1..Len(es), k \in 1..Len(es) : d = es[i] /\ e = es[k]
        BY <1>5, <2>2
      <3>2. (i < k => es[i].seq < es[k].seq) /\ (k < i => es[k].seq < es[i].seq)
        BY <1>1 DEF Rising
      <3>3. i = k
        BY <1>1, <1>2, <1>11, <3>1, <3>2
      <3> QED BY <3>1, <3>3
    <2>3. CASE d \in Holes(es) \cup torn /\ e \in Holes(es) \cup torn
      BY <1>11, <2>1, <2>3
    <2>4. CASE d \in ToSet(es) /\ e \in Holes(es) \cup torn
      BY <1>5, <1>10, <1>11, <2>4
    <2>5. CASE d \in Holes(es) \cup torn /\ e \in ToSet(es)
      BY <1>5, <1>10, <1>11, <2>5
    <2> QED BY <2>2, <2>3, <2>4, <2>5
  <1>12. IsFiniteSet(S)
    <2> DEFINE f == [e \in S |-> e.seq]
    <2> HIDE DEF S
    <2>1. f \in [S -> 1..MaxSequence]
      BY <1>9
    <2>2. IsInjective(f)
      BY <1>11 DEF IsInjective
    <2> HIDE DEF f
    <2>3. f \in Injection(S, 1..MaxSequence)
      BY <2>1, <2>2 DEF Injection
    <2>4. IsFiniteSet(1..MaxSequence)
      BY <1>2, FS_Interval
    <2> QED BY <2>3, <2>4, FS_Injection
  <1>13. ToSet(es) \subseteq S /\ Holes(es) \subseteq S /\ torn \subseteq S
    OBVIOUS
  <1>14. s \in Seq(S) /\ Elements(s) = S /\ Rising(s)
    <2>1. \A e \in S : e.seq \in Nat
      BY <1>2, <1>9
    <2> HIDE DEF S
    <2> QED BY <1>11, <1>12, <2>1, InOrderHolds
  <1>15. s \in Seq(Event) /\ Len(s) \in Nat /\ \A i \in 1..Len(s) : s[i] \in S
    <2> HIDE DEF S, s
    <2> QED BY <1>9, <1>14
  <1> HIDE DEF s
  (* After an event there is the next one, or its marker, or nothing.      *)
  <1>16. ASSUME NEW k \in 1..Len(es), NEW e \in S, es[k].seq < e.seq
         PROVE  \E d \in S : d.seq = es[k].seq + 1
    <2>1. CASE k < Len(es)
      <3>1. k \in 1..Len(es) - 1 /\ k + 1 \in 1..Len(es) /\ es[k].seq < es[k + 1].seq
        BY <1>1, <2>1 DEF Rising
      <3>2. CASE es[k + 1].seq = es[k].seq + 1
        <4>1. es[k + 1] \in S
          BY <1>5, <1>13, <3>1
        <4> QED BY <3>2, <4>1
      <3>3. CASE es[k + 1].seq # es[k].seq + 1
        <4>1. es[k + 1].seq > es[k].seq + 1
          BY <1>2, <3>1, <3>3
        <4>2. Gap(es[k].seq + 1) \in Holes(es)
          BY <3>1, <4>1 DEF Holes
        <4>3. es[k].seq + 1 \in 1..MaxSequence
          BY <1>2, <3>1, <4>1
        <4> QED BY <1>7, <1>13, <4>2, <4>3
      <3> QED BY <3>2, <3>3
    <2>2. CASE k = Len(es)
      <3>1. es[k].seq = Sequence(es)
        BY <1>1, <2>2 DEF Sequence
      <3>2. e \notin ToSet(es)
        BY <1>2, <1>5, <1>6, <1>9, <1>16, <3>1
      <3>3. e \notin Holes(es)
        <4> SUFFICES ASSUME e \in Holes(es) PROVE FALSE
          OBVIOUS
        <4>1. PICK i \in 1..Len(es) - 1 : /\ i \in 1..Len(es) /\ i + 1 \in 1..Len(es)
                                          /\ e = Gap(es[i].seq + 1) /\ es[i].seq + 1 \in 1..MaxSequence
                                          /\ es[i].seq + 1 < es[i + 1].seq
          BY <1>8
        <4>2. e.seq = es[i].seq + 1 /\ es[i + 1].seq <= Sequence(es)
          BY <1>6, <1>7, <4>1
        <4> QED BY <1>2, <1>6, <1>16, <3>1, <4>1, <4>2
      <3>4. e \in torn
        BY <3>2, <3>3
      <3>5. e.seq = es[k].seq + 1
        BY <1>3, <1>7, <3>1, <3>4
      <3> QED BY <3>5
    <2> QED BY <1>1, <2>1, <2>2
  <1> HIDE DEF S, torn
  <1>17. Marked(s)
    <2> SUFFICES ASSUME NEW i \in 1..Len(s) - 1, ~s[i].gap PROVE s[i + 1].seq = s[i].seq + 1
      BY DEF Marked
    <2>1. i \in 1..Len(s) /\ i + 1 \in 1..Len(s) /\ s[i] \in S /\ s[i + 1] \in S
      BY <1>15
    <2>2. PICK k \in 1..Len(es) : s[i] = es[k]
      BY <1>9, <2>1
    <2>3. s[i].seq < s[i + 1].seq
      BY <1>14, <2>1 DEF Rising
    <2>4. PICK d \in S : d.seq = s[i].seq + 1
      BY <1>16, <2>1, <2>2, <2>3
    <2>5. PICK m \in 1..Len(s) : s[m] = d
      BY <1>14 DEF Elements
    <2>6. s[m].seq = s[i].seq + 1 /\ s[i].seq \in Nat /\ s[i + 1].seq \in Nat
      BY <1>2, <1>9, <2>1, <2>4, <2>5
    <2>7. (m < i => s[m].seq < s[i].seq) /\ (i + 1 < m => s[i + 1].seq < s[m].seq)
      BY <1>14, <2>1 DEF Rising
    <2>8. m = i + 1
      BY <1>15, <2>1, <2>3, <2>6, <2>7
    <2> QED BY <2>6, <2>8
  <1>18. Sequence(es) <= Sequence(s)
    <2>1. Sequence(s) \in 0..MaxSequence /\ \A i \in 1..Len(s) : s[i].seq <= Sequence(s)
      BY <1>14, <1>15, LastIsGreatest
    <2>2. CASE es = << >>
      BY <1>2, <2>1, <2>2 DEF Sequence
    <2>3. CASE es # << >>
      <3>1. Len(es) \in 1..Len(es) /\ Sequence(es) = es[Len(es)].seq
        BY <1>1, <2>3 DEF Sequence
      <3>2. es[Len(es)] \in S
        BY <1>5, <1>13, <3>1
      <3>3. PICK m \in 1..Len(s) : s[m] = es[Len(es)]
        BY <1>14, <3>2 DEF Elements
      <3> QED BY <2>1, <3>1, <3>3
    <2> QED BY <2>2, <2>3
  <1> QED BY <1>4, <1>14, <1>15, <1>17, <1>18 DEF WellMarked, es

-----------------------------------------------------------------------------
(* What a marked list tells.                                               *)

(* The sequences of the events, and those of the markers.                  *)
LEMMA SequencesAre ==
    ASSUME NEW es \in Seq(Event)
    PROVE  /\ Sequences(es, FALSE) = {es[k].seq : k \in {k \in 1..Len(es) : ~es[k].gap}}
           /\ Sequences(es, TRUE) = {es[k].seq : k \in {k \in 1..Len(es) : es[k].gap}}
  <1>1. ToSet(es) = {es[k] : k \in 1..Len(es)}
    BY DEF ToSet
  <1>2. \A k \in 1..Len(es) : es[k].gap \in BOOLEAN
    BY EventFacts
  <1>3. ASSUME NEW k \in 1..Len(es) PROVE (es[k].gap = FALSE <=> ~es[k].gap) /\ (es[k].gap = TRUE <=> es[k].gap)
    BY <1>2, Zenon
  <1>4. Sequences(es, FALSE) = {es[k].seq : k \in {k \in 1..Len(es) : es[k].gap = FALSE}}
    BY <1>1, Zenon DEF Sequences
  <1>5. Sequences(es, TRUE) = {es[k].seq : k \in {k \in 1..Len(es) : es[k].gap = TRUE}}
    BY <1>1, Zenon DEF Sequences
  <1> QED BY <1>3, <1>4, <1>5, Zenon

(* The numbers between two.                                                *)
LEMMA Between ==
    ASSUME NEW m \in Nat, NEW g \in Nat, NEW x \in Min({m, g})..Max({m, g})
    PROVE  x \in Nat /\ (g <= m => g <= x /\ x <= m) /\ (m < g => m <= x /\ x <= g)
  <1>1. CASE g <= m
    <2>1. Min({m, g}) = g /\ Max({m, g}) = m
      BY <1>1 DEF Min, Max
    <2> QED BY <1>1, <2>1
  <1>2. CASE m < g
    <2>1. Min({m, g}) = m /\ Max({m, g}) = g
      BY <1>2 DEF Min, Max
    <2> QED BY <1>2, <2>1
  <1> QED BY <1>1, <1>2

(* A well-marked list that begins with the first event or with a marker    *)
(* accounts for all that it leaves out.                                    *)
LEMMA MarkedIsHonest ==
    ASSUME NEW es \in Seq(Event), WellMarked(es), es = << >> \/ es[1].seq = 1 \/ es[1].gap
    PROVE  Accounted(Sequence(es), Sequences(es, FALSE), Sequences(es, TRUE))
  <1> DEFINE got == Sequences(es, FALSE)
             gaps == Sequences(es, TRUE)
             last == Sequence(es)
             missed == (1..last) \ got
  <1>1. /\ Len(es) \in Nat /\ MaxSequence \in Nat
        /\ \A i \in 1..Len(es) : /\ es[i] \in Event /\ es[i].seq \in 1..MaxSequence /\ es[i].seq \in Nat
                                 /\ es[i].gap \in BOOLEAN
    BY EventFacts, JournalConstants
  <1>2. last \in 0..MaxSequence /\ \A i \in 1..Len(es) : es[i].seq <= last
    BY LastIsGreatest DEF WellMarked
  <1>3. ASSUME NEW x PROVE x \in got <=> \E k \in 1..Len(es) : ~es[k].gap /\ es[k].seq = x
    <2>1. got = {es[k].seq : k \in {k \in 1..Len(es) : ~es[k].gap}}
      BY SequencesAre, Zenon
    <2> QED BY <2>1, Zenon
  <1>4. ASSUME NEW x PROVE x \in gaps <=> \E k \in 1..Len(es) : es[k].gap /\ es[k].seq = x
    <2>1. gaps = {es[k].seq : k \in {k \in 1..Len(es) : es[k].gap}}
      BY SequencesAre, Zenon
    <2> QED BY <2>1, Zenon
  <1> HIDE DEF got, gaps
  <1>5. SUFFICES ASSUME NEW m \in missed
                 PROVE  \E g \in gaps : Min({m, g})..Max({m, g}) \subseteq missed
    BY DEF Accounted, got, gaps
  <1>6. m \in 1..last /\ m \notin got /\ m \in Nat /\ last \in Nat
    BY <1>1, <1>2
  <1> HIDE DEF missed
  (* It is enough that the numbers from the marker on are missed.          *)
  <1>7. ASSUME NEW i \in 1..Len(es), es[i].gap,
               \A k \in 1..Len(es) : k < i => es[k].seq < m /\ es[k].seq < es[i].seq,
               \A k \in 1..Len(es) : i < k => m < es[k].seq /\ es[i].seq < es[k].seq
        PROVE  \E g \in gaps : Min({m, g})..Max({m, g}) \subseteq missed
    <2> DEFINE g == es[i].seq
    <2>1. g \in gaps /\ g \in 1..last /\ g \in Nat
      BY <1>1, <1>2, <1>4, <1>7
    <2> HIDE DEF g
    <2>2. ASSUME NEW x \in Min({m, g})..Max({m, g}) PROVE x \in missed
      <3>1. x \in Nat /\ (g <= m => g <= x /\ x <= m) /\ (m < g => m <= x /\ x <= g)
        BY <1>6, <2>1, Between
      <3>2. x \in 1..last
        BY <1>6, <2>1, <3>1
      <3>3. ASSUME NEW k \in 1..Len(es), ~es[k].gap, es[k].seq = x PROVE FALSE
        <4>1. k # i
          BY <1>7, <3>3
        <4>2. CASE k < i
          <5>1. es[k].seq < m /\ es[k].seq < g
            BY <1>7, <4>2 DEF g
          <5> QED BY <1>6, <2>1, <3>1, <3>3, <5>1
        <4>3. CASE i < k
          <5>1. m < es[k].seq /\ g < es[k].seq
            BY <1>7, <4>3 DEF g
          <5> QED BY <1>6, <2>1, <3>1, <3>3, <5>1
        <4> QED BY <1>1, <4>1, <4>2, <4>3
      <3> QED BY <1>3, <3>2, <3>3 DEF missed
    <2> QED BY <2>1, <2>2
  <1>8. es # << >> /\ 1 \in 1..Len(es)
    <2>1. es # << >>
      BY <1>6 DEF Sequence
    <2> QED BY <1>1, <2>1
  <1>9. CASE m < es[1].seq
    <2>1. es[1].gap
      BY <1>1, <1>6, <1>8, <1>9
    <2>2. \A k \in 1..Len(es) : 1 < k => es[1].seq < es[k].seq /\ m < es[k].seq
      <3> SUFFICES ASSUME NEW k \in 1..Len(es), 1 < k PROVE es[1].seq < es[k].seq /\ m < es[k].seq
        OBVIOUS
      <3>1. es[1].seq < es[k].seq
        BY <1>8 DEF WellMarked, Rising
      <3> QED BY <1>1, <1>6, <1>8, <1>9, <3>1
    <2>3. \A k \in 1..Len(es) : ~(k < 1)
      BY <1>1
    <2>4. \A k \in 1..Len(es) : k < 1 => es[k].seq < m /\ es[k].seq < es[1].seq
      BY <2>3
    <2>5. \A k \in 1..Len(es) : 1 < k => m < es[k].seq /\ es[1].seq < es[k].seq
      BY <2>2
    <2> QED BY <1>7, <1>8, <2>1, <2>4, <2>5, Zenon
  <1>10. CASE es[1].seq <= m
    <2> DEFINE T == {i \in 1..Len(es) : es[i].seq <= m}
    <2>1. T \in SUBSET Nat /\ 1 \in T /\ \A i \in T : i <= Len(es)
      BY <1>1, <1>8, <1>10
    <2>2. PICK i \in T : \A k \in T : k <= i
      <3> HIDE DEF T
      <3> QED BY <1>1, <2>1, GreatestNumber
    <2>3. i \in 1..Len(es) /\ es[i].seq <= m
      OBVIOUS
    <2>4. ASSUME NEW k \in 1..Len(es), i < k PROVE m < es[k].seq
      <3>1. k \notin T
        BY <1>1, <2>2, <2>3, <2>4
      <3> QED BY <1>1, <1>6, <3>1
    <2>5. \A k \in 1..Len(es) : /\ k < i => es[k].seq < es[i].seq
                                /\ i < k => es[i].seq < es[k].seq
      BY <2>3 DEF WellMarked, Rising
    <2> HIDE DEF T
    <2>6. es[i].gap
      <3>1. CASE es[i].seq = m
        BY <1>1, <1>3, <1>6, <2>3, <3>1
      <3>2. CASE es[i].seq # m
        <4>1. i # Len(es)
          <5>1. i = Len(es) => es[i].seq = last
            BY <1>8 DEF Sequence
          <5> QED BY <1>1, <1>6, <2>3, <3>2, <5>1
        <4>2. i \in 1..Len(es) - 1 /\ i + 1 \in 1..Len(es) /\ i < i + 1
          BY <1>1, <2>3, <4>1
        <4>3. m < es[i + 1].seq
          BY <2>4, <4>2
        <4>4. es[i + 1].seq # es[i].seq + 1
          BY <1>1, <1>6, <2>3, <3>2, <4>2, <4>3
        <4> QED BY <4>2, <4>4 DEF WellMarked, Marked
      <3> QED BY <3>1, <3>2
    <2>7. \A k \in 1..Len(es) : k < i => es[k].seq < m
      BY <1>1, <1>6, <2>3, <2>5
    <2> QED BY <1>7, <2>3, <2>4, <2>5, <2>6, <2>7
  <1>11. m < es[1].seq \/ es[1].seq <= m
    BY <1>1, <1>6, <1>8
  <1> QED BY <1>9, <1>10, <1>11, Zenon

(* A marker before the first event makes one list of both.                 *)
LEMMA HeadIsMarked ==
    ASSUME NEW es \in Seq(Event), WellMarked(es), First(es) > 1
    PROVE  LET whole == <<Gap(First(es) - 1)>> \o es
           IN  whole \in Seq(Event) /\ WellMarked(whole) /\ whole # << >> /\ whole[1].gap
  <1> DEFINE n == First(es) - 1
             g == Gap(n)
             whole == <<g>> \o es
  <1>1. /\ Len(es) \in Nat /\ MaxSequence \in Nat
        /\ \A i \in 1..Len(es) : es[i].seq \in 1..MaxSequence /\ es[i].seq \in Nat
    BY EventFacts, JournalConstants
  <1>2. Len(es) > 0 /\ 1 \in 1..Len(es) /\ First(es) = es[1].seq
    <2>1. es # << >>
      BY DEF First
    <2> QED BY <1>1, <2>1 DEF First
  <1>3. n \in 1..MaxSequence /\ n + 1 = es[1].seq /\ n \in Nat
    BY <1>1, <1>2
  <1> HIDE DEF n
  <1>4. g \in Event /\ g.seq = n /\ g.gap
    <2> DEFINE yes == TRUE
    <2>1. yes \in BOOLEAN /\ g = [seq |-> n, gap |-> yes]
      BY DEF Gap
    <2> HIDE DEF yes, g
    <2>2. g \in Event /\ g.seq = n /\ g.gap = yes
      BY <1>3, <2>1 DEF Event
    <2> QED BY <2>2 DEF yes
  <1> HIDE DEF g
  <1>5. /\ whole \in Seq(Event) /\ Len(whole) = Len(es) + 1 /\ whole[1] = g
        /\ \A i \in 2..Len(whole) : whole[i] = es[i - 1] /\ i - 1 \in 1..Len(es)
    BY <1>1, <1>4
  <1> HIDE DEF whole
  <1>6. \A k \in 1..Len(es) : n < es[k].seq
    <2> SUFFICES ASSUME NEW k \in 1..Len(es) PROVE n < es[k].seq
      OBVIOUS
    <2>1. k = 1 \/ 1 < k
      BY <1>1
    <2>2. 1 < k => es[1].seq < es[k].seq
      BY <1>2 DEF WellMarked, Rising
    <2> QED BY <1>1, <1>2, <1>3, <2>1, <2>2
  <1>7. Rising(whole)
    <2> SUFFICES ASSUME NEW i \in 1..Len(whole), NEW j \in 1..Len(whole), i < j
                 PROVE  whole[i].seq < whole[j].seq
      BY DEF Rising
    <2>1. j \in 2..Len(whole)
      BY <1>1, <1>5
    <2>2. CASE i = 1
      BY <1>4, <1>5, <1>6, <2>1, <2>2
    <2>3. CASE i # 1
      <3>1. i \in 2..Len(whole) /\ i - 1 < j - 1
        BY <1>1, <1>5, <2>1, <2>3
      <3>2. es[i - 1].seq < es[j - 1].seq
        BY <1>5, <2>1, <3>1 DEF WellMarked, Rising
      <3> QED BY <1>5, <2>1, <3>1, <3>2
    <2> QED BY <2>2, <2>3
  <1>8. Marked(whole)
    <2> SUFFICES ASSUME NEW i \in 1..Len(whole) - 1, ~whole[i].gap
                 PROVE  whole[i + 1].seq = whole[i].seq + 1
      BY DEF Marked
    <2>1. i # 1
      BY <1>4, <1>5
    <2>2. i \in 2..Len(whole) /\ i + 1 \in 2..Len(whole) /\ i - 1 \in 1..Len(es) - 1 /\ (i - 1) + 1 = (i + 1) - 1
      BY <1>1, <1>5, <2>1
    <2>3. es[(i - 1) + 1].seq = es[i - 1].seq + 1 \/ es[i - 1].gap
      BY <2>2 DEF WellMarked, Marked
    <2> QED BY <1>5, <2>2, <2>3
  <1>9. whole # << >>
    BY <1>1, <1>5
  <1> QED BY <1>4, <1>5, <1>7, <1>8, <1>9 DEF WellMarked, whole, g, n
-----------------------------------------------------------------------------
(* What writing leaves.                                                    *)

(* What a journal is made of.                                              *)
LEMMA JournalFields ==
    ASSUME NEW j \in Journal
    PROVE  /\ j.lines \in Seq(Event \cup {None}) /\ j.tail \in Tails /\ j.open \in BOOLEAN
           /\ j = [lines |-> j.lines, tail |-> j.tail, open |-> j.open]
           /\ Len(j.lines) \in Nat
  BY DEF Journal

(* A journal of lines, a tail and a handle is one.                         *)
LEMMA JournalRecord ==
    ASSUME NEW ls \in Seq(Event \cup {None}), NEW t \in Tails, NEW b \in BOOLEAN
    PROVE  LET j == [lines |-> ls, tail |-> t, open |-> b]
           IN  j \in Journal /\ j.lines = ls /\ j.tail = t /\ j.open = b
  BY DEF Journal

(* Opening the file adds no event.                                         *)
LEMMA OpenedHolds ==
    ASSUME NEW j \in Journal, NEW n \in Nat
    PROVE  /\ Opened(j) \in Journal
           /\ UpTo(j, n) => UpTo(Opened(j), n)
           /\ j.tail # "torn" => Opened(j).lines = j.lines
  <1>1. /\ j.lines \in Seq(Event \cup {None}) /\ j.tail \in Tails /\ j.open \in BOOLEAN
        /\ Len(j.lines) \in Nat
    BY JournalFields
  <1>2. CASE j.open
    <2>1. Opened(j) = j
      BY <1>2, Zenon DEF Opened
    <2> QED BY <2>1
  <1>3. CASE ~j.open
    <2> DEFINE yes == TRUE
               clean == "clean"
               ls == IF j.tail = "torn" THEN Append(j.lines, None) ELSE j.lines
               o == Opened(j)
    <2>1. o = [lines |-> ls, tail |-> clean, open |-> yes]
      BY <1>3, Zenon DEF Opened
    <2>2. yes \in BOOLEAN /\ clean \in Tails /\ ls \in Seq(Event \cup {None})
      BY <1>1 DEF Tails
    <2>3. (j.tail # "torn" => ls = j.lines) /\ Len(ls) \in Nat
          /\ \A i \in 1..Len(ls) : ls[i] # None => i \in 1..Len(j.lines) /\ ls[i] = j.lines[i]
      BY <1>1
    <2> HIDE DEF yes, clean, ls, o
    <2>4. o \in Journal /\ o.lines = ls
      BY <2>1, <2>2, JournalRecord
    <2>5. UpTo(j, n) => UpTo(o, n)
      BY <2>3, <2>4 DEF UpTo
    <2> QED BY <2>3, <2>4, <2>5 DEF o
  <1> QED BY <1>2, <1>3

(* The lower watermark is below the cap.                                   *)
LEMMA Watermark ==
    ASSUME NEW m \in Nat \ {0}, NEW n \in Nat \ {0}
    PROVE  LET keep == Min({n, Max({1, (m * 3) \div 4 - 1})})
           IN  keep \in Nat \ {0} /\ keep <= m
  <1> DEFINE k == (m * 3) \div 4 - 1
             u == Max({1, k})
  <1>1. k \in Int /\ k <= m
    OBVIOUS
  <1> HIDE DEF k
  <1>2. u \in Nat \ {0} /\ u <= m
    <2>1. CASE k <= 1
      <3>1. u = 1
        BY <1>1, <2>1 DEF Max
      <3> QED BY <3>1
    <2>2. CASE 1 < k
      <3>1. u = k
        BY <1>1, <2>2 DEF Max
      <3> QED BY <1>1, <2>2, <3>1
    <2> QED BY <1>1, <2>1, <2>2
  <1> HIDE DEF u
  <1>3. CASE n <= u
    <2>1. Min({n, u}) = n
      BY <1>2, <1>3 DEF Min
    <2> QED BY <1>2, <1>3, <2>1 DEF u, k
  <1>4. CASE u < n
    <2>1. Min({n, u}) = u
      BY <1>2, <1>4 DEF Min
    <2> QED BY <1>2, <2>1 DEF u, k
  <1> QED BY <1>2, <1>3, <1>4

(* A compacted journal has events of the journal only, and fits the cap.   *)
LEMMA CompactedHolds ==
    ASSUME NEW j \in Journal, NEW n \in Nat
    PROVE  /\ Compacted(j) \in Journal /\ Len(Compacted(j).lines) <= MaxLines
           /\ UpTo(j, n) => UpTo(Compacted(j), n)
           /\ Compacted(j).tail # "torn"
  <1> DEFINE keep == Min({MaxEvents, Max({1, (MaxLines * 3) \div 4 - 1})})
             es == Parsed(j)
             t == Suffix(es, keep)
             no == FALSE
             clean == "clean"
             c == Compacted(j)
  <1>1. c = [lines |-> t, tail |-> clean, open |-> no]
    BY Zenon DEF Compacted
  <1>2. keep \in Nat \ {0} /\ keep <= MaxLines /\ MaxLines \in Nat
    BY JournalConstants, Watermark
  <1> HIDE DEF keep
  <1>3. /\ es \in Seq(Event) /\ Len(es) = Sound(j.lines) /\ Sound(j.lines) \in 0..Len(j.lines)
        /\ \A i \in 1..Len(es) : es[i] = j.lines[i]
    BY ParsedHolds
  <1>4. Len(es) \in Nat /\ Len(j.lines) \in Nat
    BY <1>3, JournalFields
  <1> HIDE DEF es
  <1>5. t \in Seq(Event) /\ Len(t) <= keep
    BY <1>2, <1>3, SuffixHolds
  <1>6. PICK d \in Nat : Len(es) = Len(t) + d /\ \A i \in 1..Len(t) : t[i] = es[i + d]
    BY <1>2, <1>3, SuffixHolds
  <1> HIDE DEF t
  <1>7. t \in Seq(Event \cup {None}) /\ no \in BOOLEAN /\ clean \in Tails /\ clean # "torn" /\ Len(t) \in Nat
    BY <1>5 DEF Tails
  <1> HIDE DEF no, clean, c
  <1>8. c \in Journal /\ c.lines = t /\ c.tail = clean
    BY <1>1, <1>7, JournalRecord
  <1>9. ASSUME UpTo(j, n), NEW i \in 1..Len(t), t[i] # None PROVE t[i].seq <= n
    <2>1. i + d \in 1..Len(es) /\ i + d \in 1..Len(j.lines)
      BY <1>3, <1>4, <1>6, <1>7
    <2>2. t[i] = j.lines[i + d]
      BY <1>3, <1>6, <2>1
    <2> QED BY <1>9, <2>1, <2>2 DEF UpTo
  <1>10. UpTo(j, n) => UpTo(c, n)
    BY <1>8, <1>9 DEF UpTo
  <1> QED BY <1>2, <1>5, <1>7, <1>8, <1>10 DEF c

(* Making the file ready for a line adds no event, and leaves room for it. *)
LEMMA ReadyHolds ==
    ASSUME NEW j \in Journal, NEW n \in Nat
    PROVE  /\ Ready(j) \in Journal /\ Len(Ready(j).lines) <= MaxLines
           /\ UpTo(j, n) => UpTo(Ready(j), n)
  <1> DEFINE o == Opened(j)
             c == Compacted(o)
             p == Opened(c)
  <1>1. o \in Journal /\ (UpTo(j, n) => UpTo(o, n)) /\ Len(o.lines) \in Nat
    BY OpenedHolds, JournalFields
  <1>2. Ready(j) = IF Len(o.lines) + 1 > MaxLines THEN p ELSE o
    BY Zenon DEF Ready
  <1>3. MaxLines \in Nat
    BY JournalConstants
  <1> HIDE DEF o
  <1>4. c \in Journal /\ Len(c.lines) <= MaxLines /\ (UpTo(o, n) => UpTo(c, n)) /\ c.tail # "torn"
    BY <1>1, CompactedHolds
  <1> HIDE DEF c
  <1>5. p \in Journal /\ p.lines = c.lines /\ (UpTo(c, n) => UpTo(p, n))
    BY <1>4, OpenedHolds
  <1> HIDE DEF p
  <1>6. CASE Len(o.lines) + 1 > MaxLines
    BY <1>1, <1>2, <1>4, <1>5, <1>6
  <1>7. CASE ~(Len(o.lines) + 1 > MaxLines)
    BY <1>1, <1>2, <1>3, <1>7
  <1> QED BY <1>6, <1>7

(* The lines that a write leaves from before it.                           *)
LEMMA JoinedHolds ==
    ASSUME NEW j \in Journal
    PROVE  /\ Joined(j) \in Seq(Event \cup {None}) /\ Len(Joined(j)) \in Nat
           /\ Len(Joined(j)) <= Len(j.lines)
           /\ \A i \in 1..Len(Joined(j)) : i \in 1..Len(j.lines) /\ Joined(j)[i] = j.lines[i]
  <1>1. j.lines \in Seq(Event \cup {None}) /\ Len(j.lines) \in Nat
    BY JournalFields
  <1>2. CASE j.tail = "unterminated"
    <2> DEFINE f == SubSeq(j.lines, 1, Len(j.lines) - 1)
    <2>1. Joined(j) = f
      BY <1>2, Zenon DEF Joined, Front
    <2>2. CASE Len(j.lines) = 0
      <3>1. f = << >>
        BY <1>1, <2>2
      <3> QED BY <1>1, <2>1, <3>1
    <2>3. CASE Len(j.lines) > 0
      <3>1. f \in Seq(Event \cup {None}) /\ Len(f) = Len(j.lines) - 1
            /\ \A i \in 1..Len(f) : f[i] = j.lines[i]
        BY <1>1, <2>3
      <3> QED BY <1>1, <2>1, <2>3, <3>1
    <2> QED BY <1>1, <2>2, <2>3
  <1>3. CASE j.tail # "unterminated"
    <2>1. Joined(j) = j.lines
      BY <1>3, Zenon DEF Joined
    <2> QED BY <1>1, <2>1
  <1> QED BY <1>2, <1>3

(* What a write makes of a journal.                                        *)
LEMMA WrittenForms ==
    ASSUME NEW j \in Journal, NEW e \in Event, NEW w \in Writes
    PROVE  \E ls \in Seq(Event \cup {None}), t \in Tails :
               /\ Written(j, e, w) = [lines |-> ls, tail |-> t, open |-> j.open]
               /\ \/ ls = j.lines
                  \/ ls = Append(j.lines, e) /\ t # "torn"
                  \/ ls = Append(Joined(j), None)
                  \/ ls = Joined(j)
  <1>1. /\ j.lines \in Seq(Event \cup {None}) /\ j.tail \in Tails /\ j.open \in BOOLEAN
        /\ j = [lines |-> j.lines, tail |-> j.tail, open |-> j.open]
    BY JournalFields
  <1>2. Joined(j) \in Seq(Event \cup {None})
    BY JoinedHolds
  <1> DEFINE added == Append(j.lines, e)
             broken == Append(Joined(j), None)
  <1>3. added \in Seq(Event \cup {None}) /\ broken \in Seq(Event \cup {None})
    BY <1>1, <1>2
  <1>4. "clean" \in Tails /\ "unterminated" \in Tails /\ "torn" \in Tails
    BY DEF Tails
  <1>5. w \in {"all", "nothing", "part", "no newline"}
    BY JournalConstants
  <1> HIDE DEF added, broken
  <1>6. CASE w = "nothing"
    <2>1. Written(j, e, w) = j
      BY <1>6, Zenon DEF Written
    <2> QED BY <1>1, <2>1
  <1>7. CASE w = "all" /\ j.tail = "clean"
    <2>1. Written(j, e, w) = [j EXCEPT !.lines = added]
      BY <1>7 DEF Written, added
    <2>2. Written(j, e, w) = [lines |-> added, tail |-> j.tail, open |-> j.open]
      BY <1>1, <2>1
    <2>3. j.tail # "torn"
      BY <1>7
    <2> QED BY <1>1, <1>3, <2>2, <2>3 DEF added
  <1>8. CASE w = "all" /\ j.tail # "clean"
    <2> DEFINE clean == "clean"
    <2>1. Written(j, e, w) = [j EXCEPT !.lines = broken, !.tail = clean]
      BY <1>8 DEF Written, broken
    <2>2. clean \in Tails
      BY <1>4
    <2> HIDE DEF clean
    <2>3. Written(j, e, w) = [lines |-> broken, tail |-> clean, open |-> j.open]
      BY <1>1, <2>1
    <2> QED BY <1>3, <2>2, <2>3 DEF broken
  <1>9. CASE w = "no newline" /\ j.tail = "clean"
    <2> DEFINE loose == "unterminated"
    <2>1. Written(j, e, w) = [j EXCEPT !.lines = added, !.tail = loose]
      BY <1>9 DEF Written, added
    <2>2. loose \in Tails /\ loose # "torn"
      BY <1>4
    <2> HIDE DEF loose
    <2>3. Written(j, e, w) = [lines |-> added, tail |-> loose, open |-> j.open]
      BY <1>1, <2>1
    <2> QED BY <1>3, <2>2, <2>3 DEF added
  <1>10. CASE w = "part" \/ (w = "no newline" /\ j.tail # "clean")
    <2> DEFINE torn == "torn"
               ls == Joined(j)
    <2>1. Written(j, e, w) = [j EXCEPT !.lines = ls, !.tail = torn]
      BY <1>10 DEF Written
    <2>2. torn \in Tails
      BY <1>4
    <2> HIDE DEF torn, ls
    <2>3. Written(j, e, w) = [lines |-> ls, tail |-> torn, open |-> j.open]
      BY <1>1, <2>1
    <2> QED BY <1>2, <2>2, <2>3 DEF ls
  <1> QED BY <1>5, <1>6, <1>7, <1>8, <1>9, <1>10, Zenon

(* A write adds at most its event, and that at the end.                    *)
LEMMA WrittenHolds ==
    ASSUME NEW j \in Journal, Len(j.lines) <= MaxLines, NEW e \in Event, NEW w \in Writes, NEW n \in Nat
    PROVE  /\ Written(j, e, w) \in Journal
           /\ Len(Written(j, e, w).lines) <= MaxLines + 1
           /\ UpTo(j, n) /\ e.seq <= n => UpTo(Written(j, e, w), n)
           /\ UpTo(j, n) /\ e.seq = n + 1 => EndsWith(Written(j, e, w), n + 1)
  <1> DEFINE k == Written(j, e, w)
  <1>1. PICK ls \in Seq(Event \cup {None}), t \in Tails :
               /\ k = [lines |-> ls, tail |-> t, open |-> j.open]
               /\ \/ ls = j.lines
                  \/ ls = Append(j.lines, e) /\ t # "torn"
                  \/ ls = Append(Joined(j), None)
                  \/ ls = Joined(j)
    BY WrittenForms
  <1> HIDE DEF k
  <1>2. j.lines \in Seq(Event \cup {None}) /\ j.open \in BOOLEAN /\ Len(j.lines) \in Nat
    BY JournalFields
  <1>3. k \in Journal /\ k.lines = ls /\ k.tail = t
    BY <1>1, <1>2, JournalRecord
  <1>4. /\ Joined(j) \in Seq(Event \cup {None}) /\ Len(Joined(j)) \in Nat
        /\ Len(Joined(j)) <= Len(j.lines)
        /\ \A i \in 1..Len(Joined(j)) : i \in 1..Len(j.lines) /\ Joined(j)[i] = j.lines[i]
    BY JoinedHolds
  <1>5. MaxLines \in Nat
    BY JournalConstants
  <1> DEFINE jl == Joined(j)
  <1> HIDE DEF jl
  <1>6. Len(ls) \in Nat /\ Len(ls) <= MaxLines + 1
    BY <1>1, <1>2, <1>4, <1>5 DEF jl
  <1>7. ASSUME NEW i \in 1..Len(ls), ls[i] # None
        PROVE  \/ i \in 1..Len(j.lines) /\ ls[i] = j.lines[i]
               \/ i = Len(ls) /\ ls[i] = e /\ t # "torn"
    <2>1. CASE ls = j.lines
      BY <1>7, <2>1
    <2>2. CASE ls = Append(j.lines, e) /\ t # "torn"
      BY <1>2, <1>7, <2>2
    <2>3. CASE ls = Append(jl, None)
      BY <1>4, <1>7, <2>3 DEF jl
    <2>4. CASE ls = jl
      BY <1>4, <1>7, <2>4 DEF jl
    <2> QED BY <1>1, <2>1, <2>2, <2>3, <2>4 DEF jl
  <1>8. ASSUME UpTo(j, n), e.seq <= n PROVE UpTo(k, n)
    BY <1>3, <1>7, <1>8 DEF UpTo
  <1>9. ASSUME UpTo(j, n), e.seq = n + 1 PROVE EndsWith(k, n + 1)
    <2> SUFFICES ASSUME NEW i \in 1..Len(ls), ls[i] # None, ls[i].seq = n + 1
                 PROVE  i = Len(ls) /\ t # "torn"
      BY <1>3 DEF EndsWith
    <2>1. ASSUME i \in 1..Len(j.lines), ls[i] = j.lines[i] PROVE FALSE
      <3>1. j.lines[i].seq <= n
        BY <1>9, <2>1 DEF UpTo
      <3> QED BY <2>1, <3>1
    <2> QED BY <1>7, <2>1
  <1> QED BY <1>3, <1>6, <1>8, <1>9 DEF k

(* Repairing a journal keeps a prefix of it.                               *)
LEMMA RepairedHolds ==
    ASSUME NEW j \in Journal, NEW n \in Nat, NEW b \in BOOLEAN
    PROVE  LET k == [lines |-> Parsed(j), tail |-> "clean", open |-> b]
           IN  /\ k \in Journal /\ Len(k.lines) <= Len(j.lines)
               /\ UpTo(j, n) => UpTo(k, n)
               /\ EndsWith(j, n) => EndsWith(k, n)
  <1> DEFINE es == Parsed(j)
             clean == "clean"
             k == [lines |-> es, tail |-> clean, open |-> b]
  <1>1. /\ es \in Seq(Event) /\ Len(es) = Sound(j.lines) /\ Sound(j.lines) \in 0..Len(j.lines)
        /\ \A i \in 1..Len(es) : es[i] = j.lines[i]
    BY ParsedHolds
  <1>2. Len(j.lines) \in Nat
    BY JournalFields
  <1>3. Len(es) \in Nat /\ Len(es) <= Len(j.lines) /\ es \in Seq(Event \cup {None})
        /\ \A i \in 1..Len(es) : i \in 1..Len(j.lines)
    BY <1>1, <1>2
  <1>4. clean \in Tails /\ clean # "torn"
    BY DEF Tails
  <1> HIDE DEF es, clean
  <1>5. k \in Journal /\ k.lines = es /\ k.tail = clean
    BY <1>3, <1>4, JournalRecord
  <1> HIDE DEF k
  <1>6. UpTo(j, n) => UpTo(k, n)
    BY <1>1, <1>3, <1>5 DEF UpTo
  <1>7. EndsWith(j, n) => EndsWith(k, n)
    <2> SUFFICES ASSUME EndsWith(j, n), NEW i \in 1..Len(es), es[i] # None, es[i].seq = n
                 PROVE  i = Len(es)
      BY <1>4, <1>5 DEF EndsWith
    <2>1. i = Len(j.lines)
      BY <1>1, <1>3 DEF EndsWith
    <2> QED BY <1>2, <1>3, <2>1
  <1> QED BY <1>3, <1>5, <1>6, <1>7 DEF k, es, clean

(* The window takes the next event, and loses the oldest.                  *)
LEMMA PushedHolds ==
    ASSUME NEW es \in Seq(Event), WellMarked(es), NEW e \in Event, e.seq = Sequence(es) + 1
    PROVE  /\ Pushed(es, e) \in Seq(Event) /\ Len(Pushed(es, e)) <= MaxEvents
           /\ WellMarked(Pushed(es, e)) /\ Sequence(Pushed(es, e)) = e.seq
  <1> DEFINE t == Append(es, e)
  <1>1. /\ Len(es) \in Nat /\ MaxSequence \in Nat
        /\ \A i \in 1..Len(es) : es[i].seq \in 1..MaxSequence /\ es[i].seq \in Nat
    BY EventFacts, JournalConstants
  <1>2. Sequence(es) \in 0..MaxSequence /\ \A i \in 1..Len(es) : es[i].seq <= Sequence(es)
    BY LastIsGreatest DEF WellMarked
  <1>3. /\ t \in Seq(Event) /\ Len(t) = Len(es) + 1 /\ t[Len(t)] = e
        /\ \A i \in 1..Len(es) : t[i] = es[i]
    BY <1>1
  <1>4. Sequence(t) = e.seq
    <2>1. t # << >>
      BY <1>1
    <2> QED BY <1>3, <2>1 DEF Sequence
  <1>5. Len(es) > 0 => es[Len(es)].seq = Sequence(es)
    <2>1. Len(es) > 0 => es # << >>
      BY <1>1
    <2> QED BY <2>1 DEF Sequence
  <1> HIDE DEF t
  <1>6. ASSUME NEW i \in 1..Len(t), NEW l \in 1..Len(t), i < l PROVE t[i].seq < t[l].seq
    <2>1. i \in 1..Len(es) /\ t[i] = es[i]
      BY <1>1, <1>3, <1>6
    <2>2. CASE l = Len(t)
      BY <1>1, <1>2, <1>3, <2>1, <2>2
    <2>3. CASE l # Len(t)
      <3>1. l \in 1..Len(es) /\ t[l] = es[l]
        BY <1>1, <1>3, <2>3
      <3> QED BY <1>6, <2>1, <3>1 DEF WellMarked, Rising
    <2> QED BY <2>2, <2>3
  <1>7. ASSUME NEW i \in 1..Len(t) - 1 PROVE t[i + 1].seq = t[i].seq + 1 \/ t[i].gap
    <2>1. i \in 1..Len(es) /\ t[i] = es[i]
      BY <1>1, <1>3
    <2>2. CASE i = Len(es)
      BY <1>1, <1>2, <1>3, <1>5, <2>1, <2>2
    <2>3. CASE i # Len(es)
      <3>1. i \in 1..Len(es) - 1 /\ i + 1 \in 1..Len(es) /\ t[i + 1] = es[i + 1]
        BY <1>1, <1>3, <2>1, <2>3
      <3> QED BY <2>1, <3>1 DEF WellMarked, Marked
    <2> QED BY <2>2, <2>3
  <1>8. WellMarked(t)
    BY <1>6, <1>7 DEF WellMarked, Rising, Marked
  <1>9. MaxEvents \in Nat \ {0} /\ Pushed(es, e) = Suffix(t, MaxEvents)
    BY JournalConstants DEF Pushed, t
  <1> QED BY <1>3, <1>4, <1>8, <1>9, SuffixMarked

-----------------------------------------------------------------------------
(* Every step keeps the invariant.                                         *)

(* An event and a marker of a number are what they are called.             *)
LEMMA RealAndGap ==
    ASSUME NEW n \in 1..MaxSequence
    PROVE  /\ Real(n) \in Event /\ Real(n).seq = n
           /\ Gap(n) \in Event /\ Gap(n).seq = n
  <1> DEFINE yes == TRUE
             no == FALSE
  <1>1. /\ Real(n) = [seq |-> n, gap |-> no] /\ Gap(n) = [seq |-> n, gap |-> yes]
        /\ yes \in BOOLEAN /\ no \in BOOLEAN
    BY DEF Real, Gap
  <1> HIDE DEF yes, no
  <1> QED BY <1>1 DEF Event

(* A line for the next event, or the attempt at it, is one event more.     *)
LEMMA LineAdded ==
    ASSUME NEW j \in Journal, NEW n \in Nat, UpTo(j, n), n + 1 <= MaxSequence,
           NEW e \in Event, e.seq = n + 1, NEW w \in Writes
    PROVE  LET k == Written(Ready(j), e, w)
           IN  k \in Journal /\ Len(k.lines) <= MaxLines + 1 /\ UpTo(k, n + 1) /\ EndsWith(k, MaxSequence)
  <1> DEFINE r == Ready(j)
             k == Written(r, e, w)
  <1>1. r \in Journal /\ Len(r.lines) <= MaxLines /\ UpTo(r, n) /\ r.lines \in Seq(Event \cup {None})
    BY ReadyHolds, JournalFields
  <1>2. UpTo(r, n + 1)
    <2> SUFFICES ASSUME NEW i \in 1..Len(r.lines), r.lines[i] # None PROVE r.lines[i].seq <= n + 1
      BY DEF UpTo
    <2> DEFINE d == r.lines[i]
    <2>1. d \in Event /\ d.seq <= n
      BY <1>1 DEF UpTo
    <2> HIDE DEF d
    <2>2. d.seq \in 1..MaxSequence /\ MaxSequence \in Nat
      BY <2>1, JournalConstants DEF Event
    <2> QED BY <2>1, <2>2 DEF d
  <1> HIDE DEF r
  <1>3. /\ k \in Journal /\ Len(k.lines) <= MaxLines + 1
        /\ UpTo(k, n + 1) /\ EndsWith(k, n + 1)
    <2>1. n + 1 \in Nat /\ e.seq <= n + 1
      OBVIOUS
    <2> QED BY <1>1, <1>2, <2>1, WrittenHolds
  <1> HIDE DEF k
  <1>4. EndsWith(k, MaxSequence)
    <2>1. CASE n + 1 = MaxSequence
      BY <1>3, <2>1
    <2>2. CASE n + 1 < MaxSequence
      <3> SUFFICES ASSUME NEW i \in 1..Len(k.lines), k.lines[i] # None, k.lines[i].seq = MaxSequence
                   PROVE  FALSE
        BY DEF EndsWith
      <3>1. k.lines[i].seq <= n + 1 /\ MaxSequence \in Nat
        BY <1>3, JournalConstants DEF UpTo
      <3> QED BY <2>2, <3>1
    <2>3. MaxSequence \in Nat
      BY JournalConstants
    <2> QED BY <2>1, <2>2, <2>3
  <1> QED BY <1>3, <1>4 DEF k, r

(* The next event without a debt.                                          *)
LEMMA AppendKeeps ==
    ASSUME JournalInv, NEW w \in Writes, AppendEvent(w)
    PROVE  JournalInv'
  <1>1. /\ journal \in Journal /\ window \in Seq(Event) /\ WellMarked(window)
        /\ debt = 0 /\ UpTo(journal, Sequence(window)) /\ Len(window) <= MaxEvents
    <2>1. /\ journal \in Journal /\ window \in Seq(Event) /\ WellMarked(window)
          /\ debt = 0 /\ Len(window) <= MaxEvents
          /\ UpTo(journal, Sequence(window) + (IF debt = 0 THEN 0 ELSE 1))
      BY Zenon DEF JournalInv, JournalTypeOK, NotAhead, AppendEvent
    <2>2. Sequence(window) \in 0..MaxSequence /\ MaxSequence \in Nat
      BY <2>1, LastIsGreatest, JournalConstants DEF WellMarked
    <2>3. Sequence(window) + (IF debt = 0 THEN 0 ELSE 1) = Sequence(window)
      BY <2>1, <2>2
    <2> QED BY <2>1, <2>3, Zenon
  <1>2. PICK n : n = Sequence(window)
    OBVIOUS
  <1>3. n \in Nat /\ n + 1 \in 1..MaxSequence /\ MaxSequence \in Nat /\ n + 1 <= MaxSequence
        /\ MaxDebt \in Nat \ {0}
    <2>1. n \in 0..MaxSequence
      BY <1>1, <1>2, LastIsGreatest DEF WellMarked
    <2>2. n + 1 <= MaxSequence
      BY <1>2 DEF AppendEvent, Next1
    <2>3. MaxSequence \in Nat /\ MaxDebt \in Nat \ {0}
      BY JournalConstants
    <2>4. n \in Nat
      BY <2>1
    <2> QED BY <2>2, <2>3, <2>4
  <1>4. PICK e : e = Real(n + 1)
    OBVIOUS
  <1>5. e \in Event /\ e.seq = n + 1
    BY <1>3, <1>4, RealAndGap
  <1>6. UpTo(journal, n)
    BY <1>1, <1>2, Zenon
  <1>7. /\ journal' = Written(Ready(journal), e, w)
        /\ \/ window' = Pushed(window, e) /\ debt' = 0
           \/ window' = window /\ debt' = 1
        /\ reader' = reader
    BY <1>2, <1>4 DEF AppendEvent, Next1
  <1>8. /\ journal' \in Journal /\ Len(journal'.lines) <= MaxLines + 1
        /\ UpTo(journal', n + 1) /\ EndsWith(journal', MaxSequence)
    BY <1>1, <1>3, <1>5, <1>6, <1>7, LineAdded
  <1>9. CASE window' = Pushed(window, e) /\ debt' = 0
    <2>1. /\ window' \in Seq(Event) /\ Len(window') <= MaxEvents /\ WellMarked(window')
          /\ Sequence(window') = n + 1
      BY <1>1, <1>2, <1>5, <1>9, PushedHolds
    <2>2. debt' \in 0..MaxDebt
      BY <1>3, <1>9
    <2>3. UpTo(journal', Sequence(window') + (IF debt' = 0 THEN 0 ELSE 1))
      BY <1>3, <1>8, <1>9, <2>1
    <2> QED BY <1>7, <1>8, <2>1, <2>2, <2>3, Zenon DEF JournalInv, JournalTypeOK, NotAhead
  <1>10. CASE window' = window /\ debt' = 1
    <2>1. debt' \in 0..MaxDebt
      BY <1>3, <1>10
    <2>2. UpTo(journal', Sequence(window') + (IF debt' = 0 THEN 0 ELSE 1))
      BY <1>2, <1>3, <1>8, <1>10
    <2> QED BY <1>1, <1>7, <1>8, <1>10, <2>1, <2>2, Zenon DEF JournalInv, JournalTypeOK, NotAhead
  <1> QED BY <1>7, <1>9, <1>10, Zenon

(* The marker of a debt, and the event behind it.                          *)
LEMMA AppendAfterKeeps ==
    ASSUME JournalInv, NEW w1 \in Writes, NEW w2 \in Writes, AppendAfterDebt(w1, w2)
    PROVE  JournalInv'
  <1>1. /\ journal \in Journal /\ window \in Seq(Event) /\ WellMarked(window)
        /\ debt > 0 /\ debt \in 0..MaxDebt /\ Len(window) <= MaxEvents
    BY Zenon DEF JournalInv, JournalTypeOK, AppendAfterDebt
  <1>2. PICK n : n = Sequence(window)
    OBVIOUS
  <1>3. /\ n \in Nat /\ n + 1 \in 1..MaxSequence /\ n + 2 \in 1..MaxSequence /\ MaxSequence \in Nat
        /\ n + 1 + 1 = n + 2 /\ MaxDebt \in Nat \ {0}
    <2>1. n \in 0..MaxSequence
      BY <1>1, <1>2, LastIsGreatest DEF WellMarked
    <2>2. n + 1 + 1 <= MaxSequence
      BY <1>2 DEF AppendAfterDebt, Next1
    <2>3. MaxSequence \in Nat /\ MaxDebt \in Nat \ {0}
      BY JournalConstants
    <2>4. n \in Nat
      BY <2>1
    <2> QED BY <2>2, <2>3, <2>4
  <1>4. PICK g : g = Gap(n + 1)
    OBVIOUS
  <1>5. PICK e : e = Real(n + 2)
    OBVIOUS
  <1>6. g \in Event /\ g.seq = n + 1 /\ e \in Event /\ e.seq = n + 2
    BY <1>3, <1>4, <1>5, RealAndGap
  <1>7. PICK j : j = Written(Ready(journal), g, w1)
    OBVIOUS
  <1>8. reader' = reader
    BY DEF AppendAfterDebt
  <1>9. UpTo(journal, n + 1)
    <2>1. UpTo(journal, Sequence(window) + (IF debt = 0 THEN 0 ELSE 1))
      BY Zenon DEF JournalInv, NotAhead
    <2>2. Sequence(window) + (IF debt = 0 THEN 0 ELSE 1) = n + 1
      BY <1>1, <1>2, <1>3
    <2> QED BY <2>1, <2>2, Zenon
  (* The marker, or an attempt at it, is the next line; so it may only have  *)
  (* been the event that is owed.                                            *)
  <1>10. /\ j \in Journal /\ Len(j.lines) <= MaxLines + 1
         /\ UpTo(j, n + 1) /\ EndsWith(j, MaxSequence)
    <2> DEFINE r == Ready(journal)
    <2>1. r \in Journal /\ Len(r.lines) <= MaxLines /\ UpTo(r, n + 1)
      BY <1>1, <1>3, <1>9, ReadyHolds
    <2> HIDE DEF r
    <2>2. j \in Journal /\ Len(j.lines) <= MaxLines + 1 /\ UpTo(j, n + 1)
      <3>1. g.seq <= n + 1 /\ n + 1 \in Nat
        BY <1>3, <1>6
      <3> QED BY <1>6, <1>7, <2>1, <3>1, WrittenHolds DEF r
    <2>3. EndsWith(j, MaxSequence)
      <3> SUFFICES ASSUME NEW i \in 1..Len(j.lines), j.lines[i] # None, j.lines[i].seq = MaxSequence
                   PROVE  FALSE
        BY DEF EndsWith
      <3>1. j.lines[i].seq <= n + 1
        BY <2>2 DEF UpTo
      <3> QED BY <1>3, <3>1
    <2> QED BY <2>2, <2>3
  <1>11. CASE w1 # "all"
    <2>1. journal' = j /\ debt' = Min({debt + 1, MaxDebt}) /\ window' = window
      BY <1>2, <1>4, <1>7, <1>11 DEF AppendAfterDebt, Next1
    <2>2. debt' \in 0..MaxDebt /\ debt' # 0
      <3>1. PICK d : d = debt
        OBVIOUS
      <3>2. d \in Nat /\ d > 0 /\ debt' = Min({d + 1, MaxDebt})
        BY <1>1, <1>3, <2>1, <3>1
      <3>3. CASE d + 1 <= MaxDebt
        <4>1. Min({d + 1, MaxDebt}) = d + 1
          BY <1>3, <3>2, <3>3 DEF Min
        <4> QED BY <1>3, <3>2, <3>3, <4>1
      <3>4. CASE MaxDebt < d + 1
        <4>1. Min({d + 1, MaxDebt}) = MaxDebt
          BY <1>3, <3>2, <3>4 DEF Min
        <4> QED BY <1>3, <3>2, <4>1
      <3> QED BY <1>3, <3>2, <3>3, <3>4
    <2>3. UpTo(journal', Sequence(window') + (IF debt' = 0 THEN 0 ELSE 1))
      BY <1>2, <1>3, <1>10, <2>1, <2>2
    <2> QED BY <1>1, <1>8, <1>10, <2>1, <2>2, <2>3, Zenon DEF JournalInv, JournalTypeOK, NotAhead
  <1>12. CASE w1 = "all"
    <2>1. PICK marked : marked = Pushed(window, g)
      OBVIOUS
    <2>2. marked \in Seq(Event) /\ Len(marked) <= MaxEvents /\ WellMarked(marked) /\ Sequence(marked) = n + 1
      BY <1>1, <1>2, <1>6, <2>1, PushedHolds
    <2>3. /\ journal' = Written(Ready(j), e, w2)
          /\ \/ window' = Pushed(marked, e) /\ debt' = 0
             \/ window' = marked /\ debt' = 1
      BY <1>2, <1>3, <1>4, <1>5, <1>7, <1>12, <2>1 DEF AppendAfterDebt, Next1
    <2>4. /\ journal' \in Journal /\ Len(journal'.lines) <= MaxLines + 1
          /\ UpTo(journal', n + 2) /\ EndsWith(journal', MaxSequence)
      <3>1. n + 1 \in Nat /\ n + 1 + 1 <= MaxSequence /\ e.seq = n + 1 + 1
        BY <1>3, <1>6
      <3>2. /\ journal' \in Journal /\ Len(journal'.lines) <= MaxLines + 1
            /\ UpTo(journal', n + 1 + 1) /\ EndsWith(journal', MaxSequence)
        BY <1>6, <1>10, <2>3, <3>1, LineAdded
      <3> QED BY <1>3, <3>2
    <2>5. CASE window' = Pushed(marked, e) /\ debt' = 0
      <3>1. e.seq = Sequence(marked) + 1
        BY <1>3, <1>6, <2>2
      <3>2. /\ window' \in Seq(Event) /\ Len(window') <= MaxEvents /\ WellMarked(window')
            /\ Sequence(window') = n + 2
        BY <1>6, <2>2, <2>5, <3>1, PushedHolds
      <3>3. debt' \in 0..MaxDebt
        BY <1>3, <2>5
      <3>4. UpTo(journal', Sequence(window') + (IF debt' = 0 THEN 0 ELSE 1))
        BY <1>3, <2>4, <2>5, <3>2
      <3> QED BY <1>1, <1>8, <2>4, <3>2, <3>3, <3>4, Zenon DEF JournalInv, JournalTypeOK, NotAhead
    <2>6. CASE window' = marked /\ debt' = 1
      <3>1. debt' \in 0..MaxDebt
        BY <1>3, <2>6
      <3>2. UpTo(journal', Sequence(window') + (IF debt' = 0 THEN 0 ELSE 1))
        BY <1>3, <2>2, <2>4, <2>6
      <3> QED BY <1>1, <1>8, <2>2, <2>4, <2>6, <3>1, <3>2, Zenon DEF JournalInv, JournalTypeOK, NotAhead
    <2> QED BY <2>3, <2>5, <2>6, Zenon
  <1> QED BY <1>11, <1>12, Zenon

(* Letting go of the file changes nothing in it.                           *)
LEMMA CloseKeeps ==
    ASSUME JournalInv, CloseJournal
    PROVE  JournalInv'
  <1>1. journal \in Journal /\ Len(journal.lines) <= MaxLines + 1 /\ EndsWith(journal, MaxSequence)
        /\ NotAhead
    BY Zenon DEF JournalInv, JournalTypeOK
  <1> DEFINE no == FALSE
  <1>2. journal' = [journal EXCEPT !.open = no] /\ window' = window /\ debt' = debt /\ reader' = reader
    BY DEF CloseJournal
  <1>3. no \in BOOLEAN
    OBVIOUS
  <1> HIDE DEF no
  <1>4. journal' = [lines |-> journal.lines, tail |-> journal.tail, open |-> no]
    BY <1>1, <1>2, JournalFields
  <1>5. journal' \in Journal /\ journal'.lines = journal.lines /\ journal'.tail = journal.tail
    BY <1>1, <1>3, <1>4, JournalFields, JournalRecord
  <1>6. EndsWith(journal', MaxSequence)
    BY <1>1, <1>5 DEF EndsWith
  <1>7. UpTo(journal', Sequence(window') + (IF debt' = 0 THEN 0 ELSE 1))
    BY <1>1, <1>2, <1>5 DEF NotAhead, UpTo
  <1> QED BY <1>1, <1>2, <1>5, <1>6, <1>7, Zenon DEF JournalInv, JournalTypeOK, NotAhead

(* The events past a number, of a list of events.                          *)
LEMMA AfterHolds ==
    ASSUME NEW es \in Seq(Event), NEW n
    PROVE  After(es, n) \in Seq(Event)
  BY FilteredHolds DEF After

(* A replay is a list of events.                                           *)
LEMMA ReplayHolds ==
    ASSUME JournalInv, NEW n \in Nat
    PROVE  Replay(n) \in Seq(Event)
  <1> DEFINE es == Loaded(journal)
             head == IF First(es) > n + 1 THEN <<Gap(First(es) - 1)>> ELSE << >>
             back == <<Gap(First(window) - 1)>> \o After(window, n)
  <1>1. journal \in Journal /\ window \in Seq(Event) /\ EndsWith(journal, MaxSequence)
        /\ MaxSequence \in Nat \ {0}
    BY JournalConstants, Zenon DEF JournalInv, JournalTypeOK
  <1>2. es \in Seq(Event)
    BY <1>1, LoadedHolds
  <1>3. ASSUME NEW l \in Seq(Event), First(l) > n + 1 PROVE <<Gap(First(l) - 1)>> \in Seq(Event)
    <2>1. First(l) \in 1..MaxSequence
      <3>1. CASE l = << >>
        BY <1>1, <3>1 DEF First
      <3>2. CASE l # << >>
        <4>1. 1 \in 1..Len(l) /\ First(l) = l[1].seq
          BY <3>2 DEF First
        <4> QED BY <4>1, EventFacts
      <3> QED BY <3>1, <3>2
    <2>2. First(l) - 1 \in 1..MaxSequence
      BY <1>1, <1>3, <2>1
    <2>3. Gap(First(l) - 1) \in Event
      BY <2>2, RealAndGap
    <2> QED BY <2>3
  <1>4. Replay(n) = CASE FromWindow(n) -> After(window, n)
                      [] ~FromWindow(n) /\ es = << >> -> back
                      [] OTHER -> After(head \o es, n)
    BY Zenon DEF Replay
  <1>5. head \o es \in Seq(Event)
    <2>1. head \in Seq(Event)
      BY <1>2, <1>3
    <2> HIDE DEF head, es
    <2> QED BY <1>2, <2>1
  <1>6. After(window, n) \in Seq(Event) /\ After(head \o es, n) \in Seq(Event)
    BY <1>1, <1>5, AfterHolds
  <1>7. ASSUME ~FromWindow(n) PROVE back \in Seq(Event)
    <2>1. First(window) > n + 1
      <3>1. window # << >> /\ ~(n >= First(window) - 1)
        BY <1>7, Zenon DEF FromWindow
      <3>2. First(window) \in Nat
        <4>1. 1 \in 1..Len(window) /\ First(window) = window[1].seq
          BY <1>1, <3>1 DEF First
        <4> QED BY <1>1, <4>1, EventFacts
      <3> QED BY <3>1, <3>2
    <2>2. <<Gap(First(window) - 1)>> \in Seq(Event)
      BY <1>1, <1>3, <2>1
    <2> QED BY <1>6, <2>2
  <1> HIDE DEF es, head, back
  <1> QED BY <1>4, <1>6, <1>7, Zenon

(* A client that reads on, from the window or from the repaired file.      *)
LEMMA ReadOnKeeps ==
    ASSUME JournalInv, ReadOn
    PROVE  JournalInv'
  <1>1. /\ journal \in Journal /\ Len(journal.lines) <= MaxLines + 1 /\ EndsWith(journal, MaxSequence)
        /\ NotAhead /\ window \in Seq(Event) /\ WellMarked(window) /\ Len(window) <= MaxEvents
        /\ debt \in 0..MaxDebt
        /\ reader \in [pos: 0..MaxSequence, got: SUBSET (1..MaxSequence), gaps: SUBSET (1..MaxSequence)]
    BY Zenon DEF JournalInv, JournalTypeOK
  <1>2. MaxSequence \in Nat /\ MaxLines \in Nat
    BY JournalConstants
  <1>3. window' = window /\ debt' = debt
    BY DEF ReadOn
  <1>4. reader' \in [pos: 0..MaxSequence, got: SUBSET (1..MaxSequence), gaps: SUBSET (1..MaxSequence)]
    <2>1. PICK p : p = reader.pos
      OBVIOUS
    <2>2. p \in Nat /\ reader.got \in SUBSET (1..MaxSequence) /\ reader.gaps \in SUBSET (1..MaxSequence)
      BY <1>1, <1>2, <2>1
    <2>3. PICK es : es = Replay(p)
      OBVIOUS
    <2>4. es \in Seq(Event)
      BY <2>2, <2>3, ReplayHolds
    <2>5. Sequence(es) \in 0..MaxSequence
      <3>1. CASE es = << >>
        BY <1>2, <3>1 DEF Sequence
      <3>2. CASE es # << >>
        <4>1. Len(es) \in 1..Len(es) /\ Sequence(es) = es[Len(es)].seq
          BY <2>4, <3>2 DEF Sequence
        <4>2. es[Len(es)].seq \in 1..MaxSequence
          BY <2>4, <4>1, EventFacts
        <4> QED BY <1>2, <4>1, <4>2
      <3> QED BY <3>1, <3>2
    <2>6. Sequences(es, FALSE) \in SUBSET (1..MaxSequence) /\ Sequences(es, TRUE) \in SUBSET (1..MaxSequence)
      <3> DEFINE A == {es[k].seq : k \in {k \in 1..Len(es) : ~es[k].gap}}
                 B == {es[k].seq : k \in {k \in 1..Len(es) : es[k].gap}}
      <3>1. A \in SUBSET (1..MaxSequence) /\ B \in SUBSET (1..MaxSequence)
        BY <2>4, EventFacts
      <3>2. Sequences(es, FALSE) = A /\ Sequences(es, TRUE) = B
        BY <2>4, SequencesAre, Zenon
      <3> HIDE DEF A, B
      <3> QED BY <3>1, <3>2, Zenon
    <2>7. PICK q, r : q = Sequences(es, FALSE) /\ r = Sequences(es, TRUE)
      BY Zenon
    <2>8. reader' = [pos |-> Sequence(es), got |-> reader.got \cup q, gaps |-> reader.gaps \cup r]
      BY <2>1, <2>3, <2>7, Zenon DEF ReadOn
    <2>9. q \in SUBSET (1..MaxSequence) /\ r \in SUBSET (1..MaxSequence)
      BY <2>6, <2>7, Zenon
    <2> QED BY <2>2, <2>5, <2>8, <2>9
  <1>5. CASE journal' = journal
    <2>1. UpTo(journal', Sequence(window') + (IF debt' = 0 THEN 0 ELSE 1))
      BY <1>1, <1>3, <1>5 DEF NotAhead
    <2> QED BY <1>1, <1>3, <1>4, <1>5, <2>1, Zenon DEF JournalInv, JournalTypeOK, NotAhead
  <1>6. CASE journal' = Repaired(journal)
    <2>1. PICK b : b = (journal.open /\ ~Damaged(journal))
      OBVIOUS
    <2>2. b \in BOOLEAN
      BY <2>1, Zenon
    <2>3. journal' = [lines |-> Parsed(journal), tail |-> "clean", open |-> b]
      BY <1>6, <2>1, Zenon DEF Repaired
    <2>4. PICK m : m = Sequence(window) + (IF debt = 0 THEN 0 ELSE 1)
      OBVIOUS
    <2>5. m \in Nat /\ UpTo(journal, m)
      <3>1. Sequence(window) \in Nat
        BY <1>1, <1>2, LastIsGreatest DEF WellMarked
      <3> QED BY <1>1, <2>4, <3>1 DEF NotAhead
    <2>6. journal' \in Journal /\ Len(journal'.lines) <= Len(journal.lines) /\ UpTo(journal', m)
      BY <1>1, <2>2, <2>3, <2>5, RepairedHolds
    <2>7. EndsWith(journal', MaxSequence)
      BY <1>1, <1>2, <2>2, <2>3, RepairedHolds
    <2>8. Len(journal'.lines) <= MaxLines + 1
      BY <1>1, <1>2, <2>6, JournalFields
    <2>9. UpTo(journal', Sequence(window') + (IF debt' = 0 THEN 0 ELSE 1))
      BY <1>3, <2>4, <2>6
    <2> QED BY <1>1, <1>3, <1>4, <2>6, <2>7, <2>8, <2>9, Zenon DEF JournalInv, JournalTypeOK, NotAhead
  <1>7. journal' = journal \/ journal' = Repaired(journal)
    BY Zenon DEF ReadOn
  <1> QED BY <1>5, <1>6, <1>7, Zenon

(* A process that starts has the journal's last events, whole.             *)
LEMMA JournalRestartKeeps ==
    ASSUME JournalInv, JournalRestart
    PROVE  JournalInv'
  <1>1. /\ journal \in Journal /\ Len(journal.lines) <= MaxLines + 1 /\ EndsWith(journal, MaxSequence)
        /\ reader \in [pos: 0..MaxSequence, got: SUBSET (1..MaxSequence), gaps: SUBSET (1..MaxSequence)]
    BY Zenon DEF JournalInv, JournalTypeOK
  <1>2. MaxSequence \in Nat /\ MaxLines \in Nat /\ MaxEvents \in Nat \ {0} /\ MaxDebt \in Nat
    BY JournalConstants
  <1>3. PICK l : l = Loaded(journal)
    OBVIOUS
  <1>4. l \in Seq(Event) /\ WellMarked(l) /\ Sequence(Parsed(journal)) <= Sequence(l)
    BY <1>1, <1>3, LoadedHolds
  <1>5. window' = Suffix(l, MaxEvents) /\ debt' = 0 /\ reader' = reader
    BY <1>3 DEF JournalRestart
  <1>6. /\ window' \in Seq(Event) /\ Len(window') <= MaxEvents /\ WellMarked(window')
        /\ Sequence(window') = Sequence(l)
    BY <1>2, <1>4, <1>5, SuffixMarked
  <1>7. PICK es : es = Parsed(journal)
    OBVIOUS
  <1>8. es \in Seq(Event) /\ Rising(es)
    BY <1>1, <1>7, ParsedHolds
  <1> DEFINE no == FALSE
             clean == "clean"
  <1>9. journal' = [Repaired(journal) EXCEPT !.open = no]
    BY DEF JournalRestart
  <1>10. no \in BOOLEAN
    OBVIOUS
  <1> HIDE DEF no
  <1>11. journal' = [lines |-> es, tail |-> clean, open |-> no]
    <2>1. PICK b : b = (journal.open /\ ~Damaged(journal))
      OBVIOUS
    <2>2. Repaired(journal) = [lines |-> es, tail |-> clean, open |-> b]
      BY <1>7, <2>1, Zenon DEF Repaired
    <2> HIDE DEF clean
    <2> QED BY <1>9, <2>2
  <1>12. journal' \in Journal /\ Len(journal'.lines) <= Len(journal.lines) /\ EndsWith(journal', MaxSequence)
    BY <1>1, <1>2, <1>7, <1>10, <1>11, RepairedHolds
  <1>13. Len(journal'.lines) <= MaxLines + 1
    BY <1>1, <1>2, <1>12, JournalFields
  <1>14. UpTo(journal', Sequence(window'))
    <2>1. journal'.lines = es
      BY <1>11
    <2>2. Sequence(es) \in Nat /\ Sequence(l) \in Nat /\ Sequence(es) <= Sequence(l)
      BY <1>2, <1>4, <1>7, <1>8, LastIsGreatest DEF WellMarked
    <2> SUFFICES ASSUME NEW i \in 1..Len(es) PROVE es[i].seq <= Sequence(l)
      BY <1>6, <2>1 DEF UpTo
    <2>3. es[i].seq <= Sequence(es) /\ es[i].seq \in Nat
      BY <1>8, LastIsGreatest, EventFacts
    <2> QED BY <2>2, <2>3
  <1>15. UpTo(journal', Sequence(window') + (IF debt' = 0 THEN 0 ELSE 1))
    <2>1. Sequence(window') + (IF debt' = 0 THEN 0 ELSE 1) = Sequence(window')
      <3>1. Sequence(window') \in Nat
        BY <1>2, <1>4, <1>6, LastIsGreatest DEF WellMarked
      <3> QED BY <1>5, <3>1
    <2> QED BY <1>14, <2>1, Zenon
  <1>16. debt' \in 0..MaxDebt
    BY <1>2, <1>5
  <1> QED BY <1>1, <1>5, <1>6, <1>12, <1>13, <1>15, <1>16, Zenon DEF JournalInv, JournalTypeOK, NotAhead

(* The journal's types, and what the window and the file have in common,   *)
(* over all steps.                                                         *)
LEMMA JournalInvariance ==
    JournalSpec => []JournalInv
  <1>1. JournalInit => JournalInv
    <2> SUFFICES ASSUME JournalInit PROVE JournalInv
      OBVIOUS
    <2> DEFINE no == FALSE
               clean == "clean"
               empty == << >>
               none == {}
    <2>1. /\ journal = [lines |-> empty, tail |-> clean, open |-> no]
          /\ window = empty /\ debt = 0 /\ reader = [pos |-> 0, got |-> none, gaps |-> none]
      BY DEF JournalInit
    <2>2. /\ no \in BOOLEAN /\ clean \in Tails /\ empty \in Seq(Event \cup {None}) /\ empty \in Seq(Event)
          /\ Len(empty) = 0 /\ none \in SUBSET (1..MaxSequence)
      BY DEF Tails
    <2>3. MaxSequence \in Nat /\ MaxLines \in Nat /\ MaxEvents \in Nat /\ MaxDebt \in Nat
      BY JournalConstants
    <2>4. WellMarked(empty) /\ Sequence(empty) = 0
      BY DEF WellMarked, Rising, Marked, Sequence
    <2> HIDE DEF no, clean, empty, none
    <2>5. journal \in Journal /\ journal.lines = empty
      BY <2>1, <2>2, JournalRecord
    <2>6. UpTo(journal, Sequence(window) + (IF debt = 0 THEN 0 ELSE 1)) /\ EndsWith(journal, MaxSequence)
      BY <2>2, <2>5 DEF UpTo, EndsWith
    <2>7. reader \in [pos: 0..MaxSequence, got: SUBSET (1..MaxSequence), gaps: SUBSET (1..MaxSequence)]
      BY <2>1, <2>2, <2>3
    <2>8. Len(journal.lines) <= MaxLines + 1 /\ Len(window) <= MaxEvents /\ debt \in 0..MaxDebt
      BY <2>1, <2>2, <2>3, <2>5
    <2>9. window \in Seq(Event) /\ WellMarked(window)
      BY <2>1, <2>2, <2>4
    <2> QED BY <2>5, <2>6, <2>7, <2>8, <2>9, Zenon DEF JournalInv, JournalTypeOK, NotAhead
  <1>2. JournalInv /\ [JournalNext]_journalVars => JournalInv'
    <2> SUFFICES ASSUME JournalInv, [JournalNext]_journalVars PROVE JournalInv'
      OBVIOUS
    <2>1. CASE \E w \in Writes : AppendEvent(w)
      BY <2>1, AppendKeeps, Zenon
    <2>2. CASE \E w1, w2 \in Writes : AppendAfterDebt(w1, w2)
      BY <2>2, AppendAfterKeeps, Zenon
    <2>3. CASE CloseJournal
      BY <2>3, CloseKeeps, Zenon
    <2>4. CASE ReadOn
      BY <2>4, ReadOnKeeps, Zenon
    <2>5. CASE JournalRestart
      BY <2>5, JournalRestartKeeps, Zenon
    <2>6. CASE UNCHANGED journalVars
      <3>1. journal' = journal /\ window' = window /\ debt' = debt /\ reader' = reader
        BY <2>6, Zenon DEF journalVars
      <3> QED BY <3>1, Zenon DEF JournalInv, JournalTypeOK, NotAhead
    <2> QED BY <2>1, <2>2, <2>3, <2>4, <2>5, <2>6, Zenon DEF JournalNext
  <1> QED BY <1>1, <1>2, PTL DEF JournalSpec

-----------------------------------------------------------------------------
(* What a whole replay tells.                                              *)

(* After nothing is everything.                                            *)
LEMMA AfterNothing ==
    ASSUME NEW es \in Seq(Event)
    PROVE  After(es, 0) = es
  <1> DEFINE A == {e \in ToSet(es) : e.seq > 0}
  <1>1. Elements(es) \subseteq A
    <2> SUFFICES ASSUME NEW i \in 1..Len(es) PROVE es[i] \in A
      BY DEF Elements
    <2>1. es[i] \in ToSet(es)
      BY DEF ToSet
    <2>2. es[i].seq \in 1..MaxSequence /\ MaxSequence \in Nat
      BY EventFacts, JournalConstants
    <2> QED BY <2>1, <2>2
  <1>2. After(es, 0) = Filtered(es, A)
    BY Zenon DEF After
  <1> HIDE DEF A
  <1> QED BY <1>1, <1>2, FilteredAll

(* The sequence that a list begins with.                                   *)
LEMMA FirstIs ==
    ASSUME NEW es \in Seq(Event)
    PROVE  First(es) \in Nat \ {0} /\ (es # << >> => First(es) = es[1].seq)
  <1>1. CASE es = << >>
    BY <1>1 DEF First
  <1>2. CASE es # << >>
    <2>1. 1 \in 1..Len(es) /\ First(es) = es[1].seq
      BY <1>2 DEF First
    <2>2. es[1].seq \in 1..MaxSequence /\ MaxSequence \in Nat
      BY <2>1, EventFacts, JournalConstants
    <2> QED BY <2>1, <2>2
  <1> QED BY <1>1, <1>2

(* A client that reads the history from its start finds a marker in every  *)
(* run of events that are missing, over torn writes, failing writes,       *)
(* repairs, compaction and restarts (loadEvents, replayLocked).            *)
THEOREM HistoryIsWhole ==
    JournalSpec => []WholeReplayIsHonest
  <1>1. JournalInv => WholeReplayIsHonest
    <2> SUFFICES ASSUME JournalInv PROVE WholeReplayIsHonest
      OBVIOUS
    <2>1. journal \in Journal /\ window \in Seq(Event) /\ EndsWith(journal, MaxSequence) /\ WellMarked(window)
      BY Zenon DEF JournalInv, JournalTypeOK
    <2>2. PICK es : es = Loaded(journal)
      OBVIOUS
    <2>3. es \in Seq(Event) /\ WellMarked(es)
      BY <2>1, <2>2, LoadedHolds
    (* Each of the answers is a well-marked list with a proper beginning.    *)
    <2>4. PICK whole \in Seq(Event) :
              /\ Replay(0) = whole /\ WellMarked(whole)
              /\ whole = << >> \/ whole[1].seq = 1 \/ whole[1].gap
      <3>1. CASE FromWindow(0)
        <4>1. Replay(0) = window
          BY <2>1, <3>1, AfterNothing, Zenon DEF Replay
        <4>2. window = << >> \/ window[1].seq = 1
          <5>1. window = << >> \/ 0 >= First(window) - 1
            BY <3>1, Zenon DEF FromWindow
          <5> QED BY <2>1, <5>1, FirstIs
        <4> QED BY <2>1, <4>1, <4>2, Zenon
      <3>2. CASE ~FromWindow(0) /\ es = << >>
        <4>1. PICK l : l = <<Gap(First(window) - 1)>> \o window
          OBVIOUS
        <4>2. First(window) > 1
          <5>1. ~(0 >= First(window) - 1)
            BY <3>2, Zenon DEF FromWindow
          <5> QED BY <2>1, <5>1, FirstIs
        <4>3. l \in Seq(Event) /\ WellMarked(l) /\ l[1].gap
          BY <2>1, <4>1, <4>2, HeadIsMarked
        <4>4. Replay(0) = l
          BY <2>1, <2>2, <3>2, <4>1, AfterNothing, Zenon DEF Replay
        <4> QED BY <4>3, <4>4, Zenon
      <3>3. CASE ~FromWindow(0) /\ es # << >>
        <4>1. PICK l : l = (IF First(es) > 0 + 1 THEN <<Gap(First(es) - 1)>> ELSE << >>) \o es
          OBVIOUS
        <4>2. Replay(0) = After(l, 0)
          BY <2>2, <3>3, <4>1, Zenon DEF Replay
        <4>3. CASE First(es) > 1
          <5>1. l = <<Gap(First(es) - 1)>> \o es
            BY <2>3, <4>1, <4>3, FirstIs
          <5>2. l \in Seq(Event) /\ WellMarked(l) /\ l[1].gap
            BY <2>3, <4>3, <5>1, HeadIsMarked
          <5> QED BY <4>2, <5>2, AfterNothing, Zenon
        <4>4. CASE ~(First(es) > 1)
          <5>1. l = es
            <6>1. l = << >> \o es
              BY <2>3, <4>1, <4>4, FirstIs
            <6> QED BY <2>3, <6>1
          <5>2. es[1].seq = 1
            BY <2>3, <3>3, <4>4, FirstIs
          <5> QED BY <2>3, <4>2, <5>1, <5>2, AfterNothing, Zenon
        <4> QED BY <4>3, <4>4
      <3> QED BY <3>1, <3>2, <3>3, Zenon
    <2>5. Accounted(Sequence(whole), Sequences(whole, FALSE), Sequences(whole, TRUE))
      BY <2>4, MarkedIsHonest
    <2> QED BY <2>4, <2>5, Zenon DEF WholeReplayIsHonest
  <1> QED BY <1>1, JournalInvariance, PTL
=============================================================================
