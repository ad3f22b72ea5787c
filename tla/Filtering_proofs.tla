--------------------------- MODULE Filtering_proofs ---------------------------
(***************************************************************************)
(* What a filtered list holds, and how a set of alerts is listed.  The     *)
(* proofs are by least counterexample: a nonempty set of numbers has a     *)
(* least one.                                                              *)
(***************************************************************************)
EXTENDS Filtering, FiniteSets, FiniteSetTheorems, FunctionTheorems, WellFoundedInduction, TLAPS

(* Every nonempty set of natural numbers has a least element.              *)
LEMMA LeastNumber ==
    ASSUME NEW T \in SUBSET Nat, T # {}
    PROVE  \E n \in T : \A m \in T : n <= m
  <1> DEFINE R == {ss \in Nat \X Nat : ss[1] < ss[2]}
  <1>1. IsWellFoundedOn(R, Nat)
    BY NatLessThanWellFounded, Zenon DEF OpToRel
  <1> HIDE DEF R
  <1>2. PICK n \in T : \A m \in T : ~ (<<m, n>> \in R)
    BY <1>1, WFMin, Zenon
  <1>3. ASSUME NEW m \in T PROVE n <= m
    <2>1. m \in Nat /\ n \in Nat
      OBVIOUS
    <2>2. m < n => <<m, n>> \in R
      BY <2>1 DEF R
    <2> QED BY <1>2, <2>1, <2>2
  <1> QED BY <1>3

(* And a bounded one a greatest.                                           *)
LEMMA GreatestNumber ==
    ASSUME NEW T \in SUBSET Nat, T # {}, NEW b \in Nat, \A n \in T : n <= b
    PROVE  \E n \in T : \A m \in T : m <= n
  <1> DEFINE U == {b - n : n \in T}
  <1>1. U \in SUBSET Nat /\ U # {}
    <2>1. ASSUME NEW n \in T PROVE b - n \in Nat
      OBVIOUS
    <2>2. U \subseteq Nat
      BY <2>1
    <2>3. PICK n \in T : TRUE
      OBVIOUS
    <2>4. b - n \in U
      OBVIOUS
    <2> QED BY <2>2, <2>4
  <1>2. PICK u \in U : \A v \in U : u <= v
    <2> HIDE DEF U
    <2> QED BY <1>1, LeastNumber
  <1>3. PICK n \in T : u = b - n
    OBVIOUS
  <1>4. ASSUME NEW m \in T PROVE m <= n
    <2>1. b - n <= b - m
      BY <1>2, <1>3
    <2> QED BY <2>1
  <1> QED BY <1>4

Elements(s) == {s[i] : i \in 1..Len(s)}
NoRepeats(s) == \A i, j \in 1..Len(s) : s[i] = s[j] => i = j

Filter(s, A, f) ==
    [i \in 0..Len(s) |-> IF i = 0 THEN << >>
                         ELSE IF s[i] \in A THEN Append(f[i - 1], s[i]) ELSE f[i - 1]]

(* The loop's function exists, by the least length that would have none.   *)
LEMMA FilterExists ==
    ASSUME NEW S, NEW s \in Seq(S), NEW A
    PROVE  \E f : f = Filter(s, A, f)
  <1> DEFINE Steps(f, n) == /\ f[0] = << >>
                            /\ \A i \in 1..n : f[i] = IF s[i] \in A THEN Append(f[i - 1], s[i]) ELSE f[i - 1]
             P(n) == \E f : f = [i \in 0..n |-> f[i]] /\ Steps(f, n)
             T == {n \in 0..Len(s) : ~P(n)}
  <1>1. Len(s) \in Nat
    OBVIOUS
  <1>2. T = {}
    <2>1. SUFFICES ASSUME T # {} PROVE FALSE
      OBVIOUS
    <2>1a. T \in SUBSET Nat
      BY <1>1
    <2>2. PICK n \in T : \A m \in T : n <= m
      <3> HIDE DEF T
      <3> QED BY <2>1, <2>1a, LeastNumber
    <2>3. n \in 0..Len(s) /\ ~P(n)
      OBVIOUS
    <2>4. CASE n = 0
      <3> DEFINE f == [i \in 0..0 |-> << >>]
      <3>1. f = [i \in 0..0 |-> f[i]] /\ Steps(f, 0)
        OBVIOUS
      <3> QED BY <2>3, <2>4, <3>1
    <2>5. CASE n # 0
      <3>1. n - 1 \in 0..Len(s) /\ n - 1 < n /\ n \in Nat
        BY <1>1, <2>3, <2>5
      <3>2. P(n - 1)
        BY <2>2, <3>1
      <3>3. PICK f : f = [i \in 0..(n - 1) |-> f[i]] /\ Steps(f, n - 1)
        BY <3>2
      <3> DEFINE g == [i \in 0..n |-> IF i < n THEN f[i]
                                      ELSE IF s[n] \in A THEN Append(f[n - 1], s[n]) ELSE f[n - 1]]
      <3>4. g = [i \in 0..n |-> g[i]] /\ Steps(g, n)
        <4>1. g[0] = << >>
          BY <2>5, <3>1, <3>3
        <4>2. ASSUME NEW i \in 1..n
              PROVE  g[i] = IF s[i] \in A THEN Append(g[i - 1], s[i]) ELSE g[i - 1]
          <5>1. g[i - 1] = f[i - 1]
            BY <3>1
          <5>2. CASE i = n
            BY <3>1, <5>1, <5>2
          <5>3. CASE i # n
            <6>1. i \in 1..(n - 1) /\ g[i] = f[i]
              BY <3>1, <5>3
            <6> QED BY <3>3, <5>1, <6>1
          <5> QED BY <5>2, <5>3
        <4> QED BY <4>1, <4>2
      <3> QED BY <2>3, <3>4
    <2> QED BY <2>4, <2>5
  <1>3. P(Len(s))
    BY <1>1, <1>2
  <1>4. PICK f : f = [i \in 0..Len(s) |-> f[i]] /\ Steps(f, Len(s))
    BY <1>3
  <1>5. \A i \in 0..Len(s) : f[i] = Filter(s, A, f)[i]
    <2> TAKE i \in 0..Len(s)
    <2>1. CASE i = 0
      BY <1>1, <1>4, <2>1 DEF Filter
    <2>2. CASE i # 0
      <3>1. i \in 1..Len(s)
        BY <1>1, <2>2
      <3>2. f[i] = IF s[i] \in A THEN Append(f[i - 1], s[i]) ELSE f[i - 1]
        BY <1>4, <3>1
      <3> QED BY <2>2, <3>2 DEF Filter
    <2> QED BY <2>1, <2>2
  <1>6. f = Filter(s, A, f)
    BY <1>4, <1>5 DEF Filter
  <1> QED BY <1>6

(* What the loop does, pass by pass.                                       *)
LEMMA FilterLoop ==
    ASSUME NEW S, NEW s \in Seq(S), NEW A
    PROVE  \E F : /\ Filtered(s, A) = F[Len(s)] /\ Len(s) \in Nat /\ F[0] = << >>
                  /\ \A i \in 1..Len(s) : F[i] = IF s[i] \in A THEN Append(F[i - 1], s[i]) ELSE F[i - 1]
  <1> DEFINE F == CHOOSE f : f = Filter(s, A, f)
  <1>1. F = Filter(s, A, F)
    BY FilterExists
  <1>2. Filtered(s, A) = F[Len(s)]
    BY Zenon DEF Filtered, Filter
  <1> HIDE DEF F
  <1>3. /\ Len(s) \in Nat /\ F[0] = << >>
        /\ \A i \in 1..Len(s) : F[i] = IF s[i] \in A THEN Append(F[i - 1], s[i]) ELSE F[i - 1]
    <2> DEFINE G == Filter(s, A, F)
    <2>1. Len(s) \in Nat
      OBVIOUS
    <2>2. G[0] = << >>
      BY <2>1 DEF Filter
    <2>3. ASSUME NEW i \in 1..Len(s)
          PROVE  G[i] = IF s[i] \in A THEN Append(F[i - 1], s[i]) ELSE F[i - 1]
      <3>1. i # 0 /\ i \in 0..Len(s)
        BY <2>1
      <3> QED BY <3>1 DEF Filter
    <2> HIDE DEF G
    <2>4. F = G
      BY <1>1 DEF G
    <2> QED BY <2>1, <2>2, <2>3, <2>4
  <1> QED BY <1>2, <1>3

(* A filtered list holds what was asked for of the list, in a list of its  *)
(* own, and nothing twice that the list did not hold twice.                *)
LEMMA FilteredHolds ==
    ASSUME NEW S, NEW s \in Seq(S), NEW A
    PROVE  /\ Filtered(s, A) \in Seq(S)
           /\ Elements(Filtered(s, A)) = Elements(s) \cap A
           /\ NoRepeats(s) => NoRepeats(Filtered(s, A))
  <1>1. PICK F : /\ Filtered(s, A) = F[Len(s)] /\ Len(s) \in Nat /\ F[0] = << >>
                 /\ \A i \in 1..Len(s) : F[i] = IF s[i] \in A THEN Append(F[i - 1], s[i]) ELSE F[i - 1]
    BY FilterLoop
  <1> DEFINE Holds(n) == /\ F[n] \in Seq(S)
                         /\ Elements(F[n]) = {s[i] : i \in 1..n} \cap A
                         /\ NoRepeats(s) => NoRepeats(F[n])
             T == {n \in 0..Len(s) : ~Holds(n)}
  <1>4. T = {}
    <2>1. SUFFICES ASSUME T # {} PROVE FALSE
      OBVIOUS
    <2>1a. T \in SUBSET Nat
      BY <1>1
    <2>2. PICK n \in T : \A m \in T : n <= m
      <3> HIDE DEF T
      <3> QED BY <2>1, <2>1a, LeastNumber
    <2>3. n \in 0..Len(s) /\ ~Holds(n)
      OBVIOUS
    <2>4. CASE n = 0
      <3>1. F[0] \in Seq(S) /\ Len(F[0]) = 0
        BY <1>1
      <3> QED BY <2>3, <2>4, <3>1 DEF Elements, NoRepeats
    <2>5. CASE n # 0
      <3>1. n - 1 \in 0..Len(s) /\ n - 1 < n /\ n \in 1..Len(s) /\ n \in Nat
        BY <1>1, <2>3, <2>5
      <3>2. Holds(n - 1)
        <4> HIDE DEF Holds
        <4>1. n - 1 \notin T
          BY <1>1, <2>2, <3>1, <2>1a
        <4> QED BY <3>1, <4>1
      <3>3. s[n] \in S
        BY <3>1
      <3>4. {s[i] : i \in 1..n} = {s[i] : i \in 1..(n - 1)} \cup {s[n]}
        BY <3>1
      <3>5. CASE s[n] \notin A
        <4>1. F[n] = F[n - 1]
          BY <1>1, <3>1, <3>5
        <4> QED BY <2>3, <3>2, <3>4, <3>5, <4>1
      <3>6. CASE s[n] \in A
        <4>1. F[n] = Append(F[n - 1], s[n])
          BY <1>1, <3>1, <3>6
        <4>2. /\ F[n] \in Seq(S) /\ Len(F[n]) = Len(F[n - 1]) + 1 /\ Len(F[n - 1]) \in Nat
              /\ F[n][Len(F[n])] = s[n] /\ \A i \in 1..Len(F[n - 1]) : F[n][i] = F[n - 1][i]
          BY <3>2, <3>3, <4>1
        <4>3. Elements(F[n]) = Elements(F[n - 1]) \cup {s[n]}
          <5>1. 1..Len(F[n]) = 1..Len(F[n - 1]) \cup {Len(F[n])}
            BY <4>2
          <5> DEFINE old == F[n - 1]
                     new == F[n]
          <5>2. /\ \A i \in 1..Len(old) : new[i] = old[i]
                /\ new[Len(new)] = s[n] /\ 1..Len(new) = 1..Len(old) \cup {Len(new)}
            BY <4>2, <5>1
          <5>3. Elements(new) = {new[i] : i \in 1..Len(new)} /\ Elements(old) = {old[i] : i \in 1..Len(old)}
            BY DEF Elements
          <5> HIDE DEF old, new
          <5>4. Elements(new) = Elements(old) \cup {s[n]}
            <6> DEFINE D == 1..Len(old)
                       l == Len(new)
            <6>1. 1..Len(new) = D \cup {l}
              BY <5>2
            <6>2. Elements(new) = {new[i] : i \in D \cup {l}} /\ Elements(old) = {old[i] : i \in D}
                  /\ new[l] = s[n] /\ \A i \in D : new[i] = old[i]
              BY <5>2, <5>3, <6>1
            <6> HIDE DEF D, l
            <6>3. {new[i] : i \in D} = {old[i] : i \in D}
              BY <6>2
            <6>4. {new[i] : i \in D \cup {l}} = {new[i] : i \in D} \cup {new[l]}
              OBVIOUS
            <6> QED BY <6>2, <6>3, <6>4
          <5> QED BY <5>4 DEF old, new
        <4>4. Elements(F[n]) = {s[i] : i \in 1..n} \cap A
          BY <3>2, <3>4, <3>6, <4>3
        <4>5. ASSUME NoRepeats(s) PROVE NoRepeats(F[n])
          <5>1. s[n] \notin Elements(F[n - 1])
            BY <3>1, <3>2, <4>5 DEF NoRepeats
          <5>2. \A i \in 1..Len(F[n - 1]) : F[n][i] # s[n]
            BY <4>2, <5>1 DEF Elements
          <5>3. NoRepeats(F[n - 1])
            BY <3>2, <4>5
          <5>4. SUFFICES ASSUME NEW i \in 1..Len(F[n]), NEW j \in 1..Len(F[n]), F[n][i] = F[n][j] PROVE i = j
            BY DEF NoRepeats
          <5>5. i \in 1..Len(F[n - 1]) \/ i = Len(F[n])
            BY <4>2
          <5>6. j \in 1..Len(F[n - 1]) \/ j = Len(F[n])
            BY <4>2
          <5> QED BY <4>2, <5>2, <5>3, <5>4, <5>5, <5>6 DEF NoRepeats
        <4> QED BY <2>3, <4>2, <4>4, <4>5
      <3> QED BY <3>5, <3>6
    <2> QED BY <2>4, <2>5
  <1>5. Holds(Len(s))
    <2> HIDE DEF Holds
    <2>1. Len(s) \in 0..Len(s)
      BY <1>1
    <2> QED BY <1>4, <2>1
  <1> QED BY <1>1, <1>5 DEF Elements

(* A list of nothing but what it asks for is what the loop returns.        *)
LEMMA FilteredAll ==
    ASSUME NEW S, NEW s \in Seq(S), NEW A, Elements(s) \subseteq A
    PROVE  Filtered(s, A) = s
  <1>1. PICK F : /\ Filtered(s, A) = F[Len(s)] /\ Len(s) \in Nat /\ F[0] = << >>
                 /\ \A i \in 1..Len(s) : F[i] = IF s[i] \in A THEN Append(F[i - 1], s[i]) ELSE F[i - 1]
    BY FilterLoop
  <1> DEFINE T == {n \in 0..Len(s) : F[n] # SubSeq(s, 1, n)}
  <1>2. T = {}
    <2>1. SUFFICES ASSUME T # {} PROVE FALSE
      OBVIOUS
    <2>2. T \in SUBSET Nat
      BY <1>1
    <2>3. PICK n \in T : \A m \in T : n <= m
      <3> HIDE DEF T
      <3> QED BY <2>1, <2>2, LeastNumber
    <2>4. n # 0
      <3>1. SubSeq(s, 1, 0) = << >>
        OBVIOUS
      <3> QED BY <1>1, <3>1
    <2>5. n \in 1..Len(s) /\ n - 1 \in 0..Len(s) /\ n - 1 < n /\ n - 1 \in Nat
      BY <1>1, <2>2, <2>4
    <2>6. F[n - 1] = SubSeq(s, 1, n - 1)
      <3>1. n - 1 \notin T
        BY <2>2, <2>3, <2>5
      <3> QED BY <2>5, <3>1
    <2>7. F[n] = Append(SubSeq(s, 1, n - 1), s[n])
      BY <1>1, <2>5, <2>6 DEF Elements
    <2>8. Append(SubSeq(s, 1, n - 1), s[n]) = SubSeq(s, 1, n)
      BY <2>5
    <2> QED BY <2>7, <2>8
  <1>3. F[Len(s)] = SubSeq(s, 1, Len(s))
    BY <1>1, <1>2
  <1>4. SubSeq(s, 1, Len(s)) = s
    OBVIOUS
  <1> QED BY <1>1, <1>3, <1>4

(* A listing of a finite set without repetition holds all of it.           *)
LEMMA ListingHolds ==
    ASSUME NEW S, IsFiniteSet(S), NEW f \in [1..Cardinality(S) -> S],
           \A i, j \in 1..Cardinality(S) : i # j => f[i] # f[j]
    PROVE  f \in Seq(S) /\ Elements(f) = S /\ NoRepeats(f)
  <1> DEFINE n == Cardinality(S)
             D == 1..n
  <1>1. n \in Nat
    BY FS_CardinalityType
  <1>2. IsFiniteSet(D) /\ Cardinality(D) = n
    BY <1>1, FS_Interval
  <1> HIDE DEF n
  <1>3. f \in [D -> S] /\ \A i, j \in D : i # j => f[i] # f[j]
    BY DEF n
  <1>4. f \in Seq(S) /\ Len(f) = n
    BY <1>1, <1>3
  <1> HIDE DEF D
  <1>5. f \in Injection(D, S)
    BY <1>3 DEF Injection, IsInjective
  <1>6. f \in Surjection(D, S)
    BY <1>2, <1>5, FS_Injection DEF n
  <1>7. \A x \in S : \E i \in D : f[i] = x
    BY <1>6 DEF Surjection
  <1>8. D = 1..Len(f)
    BY <1>4 DEF D
  <1>9. Elements(f) = S
    <2>1. Elements(f) = {f[i] : i \in D}
      BY <1>8 DEF Elements
    <2>2. \A i \in D : f[i] \in S
      BY <1>3
    <2> QED BY <1>7, <2>1, <2>2, SMTT(30)
  <1>10. NoRepeats(f)
    BY <1>3, <1>8 DEF NoRepeats
  <1> QED BY <1>4, <1>9, <1>10
=============================================================================
